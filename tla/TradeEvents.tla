---------------------------- MODULE TradeEvents ----------------------------
(***************************************************************************)
(* The events of the trade journal's one Redis stream: their types         *)
(* (internal/queue/queue.go), and which metric calculators the worker runs *)
(* for each (the switch of process in internal/worker/worker.go).          *)
(***************************************************************************)
EXTENDS Naturals, Sequences

Opened   == "trade.opened"
Closed   == "trade.closed"
Detected == "overtrading.detected"

(* An entry the worker decodes but can never process: an unknown type, or   *)
(* ids that are not UUIDs.                                                  *)
Malformed == "malformed"

(* An entry decodeValues rejects: occurredAt does not parse.                *)
Garbled == "garbled"

EventTypes == {Opened, Closed, Detected}
Poison     == {Malformed, Garbled}

(* The calculators process runs for an entry, in their order in the code.   *)
Calculators(k) ==
    CASE k = Opened -> <<"revenge_flag", "overtrading">>
      [] k = Closed -> <<"plan_adherence", "win_rate", "session_tilt">>
      [] OTHER      -> << >>

AllCalculators ==
    {"revenge_flag", "overtrading", "plan_adherence", "win_rate", "session_tilt"}

(* What has to be applied before an entry counts as processed.              *)
Work(k) == {Calculators(k)[n] : n \in 1 .. Len(Calculators(k))}
=============================================================================
