-------------------------------- MODULE FifoPipe --------------------------------
(***************************************************************************)
(* What a queue drained by a worker thread promises, whatever goes wrong:  *)
(* what comes out is what was accepted, in that order, none twice and none *)
(* skipped, and nothing comes out any more once the pipe is sealed.        *)
(*                                                                         *)
(* AsyncFileWriter implements it with bytes, MsgQueueHandler with messages.*)
(***************************************************************************)
EXTENDS Naturals, Sequences, SequencesExt

VARIABLES
  in,      (* items accepted so far                                        *)
  out,     (* items delivered so far                                       *)
  sealed   (* the worker that moves them is gone                           *)

pipeVars == <<in, out, sealed>>

PipeInit == in = <<>> /\ out = <<>> /\ sealed = FALSE

Accept ==
  /\ IsStrictPrefix(in, in')
  /\ UNCHANGED <<out, sealed>>

Deliver ==
  /\ ~sealed
  /\ IsStrictPrefix(out, out')
  /\ IsPrefix(out', in)
  /\ UNCHANGED <<in, sealed>>

Seal ==
  /\ ~sealed
  /\ sealed' = TRUE
  /\ UNCHANGED <<in, out>>

PipeNext == Accept \/ Deliver \/ Seal
PipeSpec == PipeInit /\ [][PipeNext]_pipeVars
=============================================================================
