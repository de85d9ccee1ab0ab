---------------------------- MODULE MCConfigSync ----------------------------
(* Instances of ConfigSync for model checking.                              *)
EXTENDS ConfigSyncInv

CONSTANTS bs1, bs2, cm, sec, cmHandler, secHandler

Watch(o) == [obj |-> o, watch |-> TRUE]
Check(o) == [obj |-> o, watch |-> FALSE]

MCHandlerOf == [o \in Objects |-> IF o = sec THEN secHandler ELSE cmHandler]

\* One instance that watches a ConfigMap and a Secret, and refers to the Secret
\* once more where it only has to exist.
OneInstance == [b \in Backstages |-> <<Check(sec), Watch(cm), Watch(sec)>>]

\* Two instances that both watch one object.
Shared == [b \in Backstages |-> <<Watch(cm)>>]
=============================================================================
