-------------------------- MODULE MCMessageDispatcher --------------------------
(* A small instance of MessageDispatcher: an event class and its            *)
(* superclass, lists that are empty, hold null or repeat a class.           *)
EXTENDS MessageDispatcher

CONSTANTS Sub, Base

MCClasses    == {Sub, Base}
MCSuperOf    == {<<Sub, Base>>}
MCMixedLists == {<<>>, <<NullClass>>, <<Sub, NullClass, Sub>>, <<Base, Sub>>}
=============================================================================
