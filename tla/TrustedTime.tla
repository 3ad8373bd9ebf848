----------------------------- MODULE TrustedTime -----------------------------
(***************************************************************************)
(* Trusted time (timesync_posix_now, timesync_win_now and the SNTP reply   *)
(* in ports/hlm_ports_common.c): seconds, with an era of EraSeconds        *)
(* instead of 2^32.  A host is asked with a UDP packet and answers with    *)
(* the low part of its own count of seconds since 1900, or not at all.     *)
(***************************************************************************)
EXTENDS Integers

CONSTANTS EraSeconds,   \* 2^32
          UnixOffset,   \* seconds from the era's start to 1970, 2208988800
          MaxDrift      \* HLM_MAX_DRIFT_SECONDS, 3600

ASSUME TrustedTimeAssumption == /\ {EraSeconds, UnixOffset} \subseteq Nat /\ MaxDrift \in Nat \ {0}
                                /\ UnixOffset \in (EraSeconds \div 2)..(EraSeconds - 1)

NoAnswer == [error |-> "HLM_E_HTTP"]
Lost == -1
Answer(now) == [now |-> now]

\* Mutant: the count is taken for one of the first era.
ParseReplyFirstEra(secs) == secs - UnixOffset

\* The top bit of the count tells its era; a count of zero is no answer.
ParseReply(secs) == secs + (IF secs >= EraSeconds \div 2 THEN 0 ELSE EraSeconds) - UnixOffset
Answered(secs) == secs \notin {Lost, 0}

\* The local clock is used while it agrees with the answer.
Arbitrate(local, secs) ==
    LET drift == local - ParseReply(secs)
    IN Answer(IF (IF drift < 0 THEN -drift ELSE drift) < MaxDrift THEN local ELSE ParseReply(secs))

PosixNow(ask) == IF Answered(ask.pool) THEN Arbitrate(ask.local, ask.pool) ELSE NoAnswer

\* Windows: only a clock that Windows itself keeps is compared; otherwise the pool's answer counts.
WindowsNow(ask) ==
    CASE ask.kept /\ Answered(ask.vendor)                              -> Arbitrate(ask.local, ask.vendor)
      [] ~ (ask.kept /\ Answered(ask.vendor)) /\ Answered(ask.pool)    -> Answer(ParseReply(ask.pool))
      [] ~ (ask.kept /\ Answered(ask.vendor)) /\ ~ Answered(ask.pool)  -> NoAnswer

TrustedNow(ask) == IF ask.windows THEN WindowsNow(ask) ELSE PosixNow(ask)
=============================================================================
