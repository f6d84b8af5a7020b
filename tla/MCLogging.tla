----------------------------- MODULE MCLogging -----------------------------
(* Four classes: outer has the annotation, inner lies in it, base computes *)
(* its TAG and sub, without line numbers, extends it.                      *)
EXTENDS Logging

Symmetry == Permutations(Threads)

MCClasses == {"outer", "inner", "base", "sub"}
MCEnclosing ==
  [c \in MCClasses |-> IF c = "inner" THEN <<"inner", "outer">> ELSE <<c>>]
MCSupers == [c \in MCClasses |-> IF c = "sub" THEN <<"base">> ELSE <<>>]
MCThresholds == {-1, 2, 6}
MCCalls ==
  { [op |-> "log", via |-> "SLog", level |-> 6, tag |-> <<>>, bad |-> "no"],
    [op |-> "log", via |-> "ILog", level |-> 3, tag |-> <<>>, bad |-> "no"],
    [op |-> "obj", via |-> "SLog", level |-> 3, tag |-> <<>>, bad |-> "no"],
    [op |-> "obj", via |-> "ILog", level |-> 3, tag |-> <<>>, bad |-> "empty"],
    [op |-> "obj", via |-> "SLog", level |-> 3, tag |-> <<>>, bad |-> "null"],
    [op |-> "obj", via |-> "LLog", level |-> 3, tag |-> <<>>, bad |-> "no"] }
MCStacks == {<<"inner">>, <<"sub", "base">>}
MCLoggers ==
  { [strategy |-> "default", methodOffset |-> 1, printer |-> "logcat"],
    [strategy |-> "default", methodOffset |-> 0, printer |-> "both"],
    [strategy |-> "trace", methodOffset |-> 1, printer |-> "disk"] }
=============================================================================
