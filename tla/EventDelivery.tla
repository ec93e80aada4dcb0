--------------------------- MODULE EventDelivery ---------------------------
(***************************************************************************)
(* What the event pipeline promises about a stream entry, with no group,   *)
(* worker, batch or delivery count in sight: an entry stays live until it  *)
(* is settled once, as done when every calculator of its event has been    *)
(* applied, as dropped when it is poison, or as dead when the pipeline has *)
(* given up on it.  Calculators may be applied any number of times and in  *)
(* any order between entries (at-least-once delivery), also by a late      *)
(* consumer after the entry is settled.                                    *)
(***************************************************************************)
EXTENDS TradeEvents

CONSTANTS Kinds,        \* the kinds of entry the producers append
          MaxEntries,   \* bound on the length of the stream
          MaxCopies     \* copies one Publish may leave on the stream

VARIABLES stream, applied, fate

vars == <<stream, applied, fate>>

Ids == 1 .. MaxEntries

Copies(n) == [j \in 1 .. n |-> Detected]

Init == /\ stream = << >>
        /\ applied = [i \in Ids |-> {}]
        /\ fate = [i \in Ids |-> "live"]

Publish(k) == /\ Len(stream) < MaxEntries
              /\ stream' = Append(stream, k)
              /\ UNCHANGED <<applied, fate>>

(* The overtrading calculator may itself announce an incident on the stream.*)
Apply(i, c) == /\ i \in 1 .. Len(stream)
               /\ c \in Work(stream[i])
               /\ applied' = [applied EXCEPT ![i] = @ \cup {c}]
               /\ \E n \in 0 .. MaxCopies :
                    /\ n > 0 => c = "overtrading"
                    /\ Len(stream) + n <= MaxEntries
                    /\ stream' = stream \o Copies(n)
               /\ UNCHANGED fate

Settle(i, f) == /\ i \in 1 .. Len(stream)
                /\ fate[i] = "live"
                /\ \/ f = "done" /\ applied[i] = Work(stream[i])
                   \/ f = "dropped" /\ stream[i] \in Poison
                   \/ f = "dead"
                /\ fate' = [fate EXCEPT ![i] = f]
                /\ UNCHANGED <<stream, applied>>

(* One Read or claim drops all the undecodable entries of its reply.        *)
DropGarbled(S) == /\ S # {}
                  /\ \A i \in S : /\ i \in 1 .. Len(stream)
                                  /\ stream[i] = Garbled
                                  /\ fate[i] = "live"
                  /\ fate' = [i \in Ids |-> IF i \in S THEN "dropped" ELSE fate[i]]
                  /\ UNCHANGED <<stream, applied>>

Next == \/ \E k \in Kinds : Publish(k)
        \/ \E i \in Ids, c \in AllCalculators : Apply(i, c)
        \/ \E i \in Ids, f \in {"done", "dropped", "dead"} : Settle(i, f)
        \/ \E S \in SUBSET Ids : DropGarbled(S)

Spec == Init /\ [][Next]_vars
=============================================================================
