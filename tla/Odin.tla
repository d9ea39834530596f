-------------------------------- MODULE Odin --------------------------------
(***************************************************************************)
(* The odin extension (modules/odin): the hooks that count and record      *)
(* requests, and the thread that computes the rate once a second.          *)
(* A recorded request or timing is named for its request.                  *)
(***************************************************************************)
EXTENDS Requests

CONSTANTS
    RingSize, \* 5000: entries of ring_buffer_
    Timings,  \* 32768: entries of timings_
    MaxRates, \* bound: computations of the rate
    NoTiming  \* an entry that has never been written

ASSUME OdinAssumption ==
    /\ RingSize \in Nat \ {0} /\ Timings \in Nat \ {0} /\ MaxRates \in Nat
    /\ NoTiming \notin Request

VARIABLES
    request_count_, \* requests since the rate was computed
    current_rps,    \* what calculate_rps has read and not yet reset; -1 if nothing
    sampled,        \* history: sum of what has entered the rate
    rates,          \* history: how often the rate has been computed
    late,           \* history: a request was counted between reading and resetting
    status_code_,
    ring_buffer_,   \* newest first
    timings_, timing_idx_, requests_served_,
    passed          \* history: a request has passed another between its two records

odinVars == <<request_count_, current_rps, sampled, rates, late, status_code_,
              ring_buffer_, timings_, timing_idx_, requests_served_, passed>>
countVars == <<request_count_, current_rps, sampled, rates, late>>
recordVars == <<ring_buffer_, timings_, timing_idx_, requests_served_, passed>>

StatusClass == {"ok", "client_error", "server_error"}

OdinTypeOK ==
    /\ request_count_ \in Nat /\ current_rps \in Nat \cup {-1} /\ sampled \in Nat
    /\ rates \in 0 .. MaxRates /\ late \in BOOLEAN /\ status_code_ \in [StatusClass -> Nat]
    /\ Len(ring_buffer_) <= RingSize
    /\ timing_idx_ \in 0 .. Timings - 1 /\ requests_served_ \in Nat /\ passed \in BOOLEAN

OdinInit ==
    /\ request_count_ = 0 /\ current_rps = -1 /\ sampled = 0 /\ rates = 0 /\ late = FALSE
    /\ status_code_ = [s \in StatusClass |-> 0]
    /\ ring_buffer_ = << >>
    /\ timings_ = [i \in 0 .. Timings - 1 |-> NoTiming]
    /\ timing_idx_ = 0 /\ requests_served_ = 0 /\ passed = FALSE

(* Defect: requests for odin itself are counted as well. *)
CountAll(admin) ==
    /\ request_count_' = request_count_ + 1
    /\ late' = (late \/ (~admin /\ current_rps # -1))
    /\ UNCHANGED <<current_rps, sampled, rates, status_code_, recordVars>>

(* on_request; requests for the pages of odin itself are not counted. *)
Count(admin) ==
    /\ request_count_' = IF admin THEN request_count_ ELSE request_count_ + 1
    /\ late' = (late \/ (~admin /\ current_rps # -1))
    /\ UNCHANGED <<current_rps, sampled, rates, status_code_, recordVars>>

(* pre_send *)
CountStatus(admin, status) ==
    /\ status_code_' = IF admin \/ status \notin StatusClass THEN status_code_
                       ELSE [status_code_ EXCEPT ![status] = @ + 1]
    /\ UNCHANGED <<countVars, recordVars>>

(* Defect: the size is tested before the entry is added. *)
PushRingEarly(r) ==
    /\ ring_buffer_' = <<r>> \o (IF Len(ring_buffer_) > RingSize THEN Front(ring_buffer_)
                                 ELSE ring_buffer_)
    /\ UNCHANGED <<countVars, status_code_, timings_, timing_idx_, requests_served_, passed>>

(* post_send, under ring_buffer_mtx_ *)
PushRing(r) ==
    /\ LET ring == <<r>> \o ring_buffer_
       IN ring_buffer_' = IF Len(ring) > RingSize THEN Front(ring) ELSE ring
    /\ UNCHANGED <<countVars, status_code_, timings_, timing_idx_, requests_served_, passed>>

(* q is not newer than r. *)
Passes(r, q) ==
    /\ q # r
    /\ ~\E i \in DOMAIN ring_buffer_ :
           ring_buffer_[i] = q /\ \A j \in DOMAIN ring_buffer_ : ring_buffer_[j] = r => i < j

(* Defect: the last entry is never used. *)
PushTimingShort(r, pushed) ==
    /\ timings_' = [timings_ EXCEPT ![timing_idx_] = r]
    /\ timing_idx_' = (timing_idx_ + 1) % (Timings - 1)
    /\ requests_served_' = requests_served_ + 1
    /\ passed' = (passed \/ \E q \in pushed : Passes(r, q))
    /\ UNCHANGED <<countVars, status_code_, ring_buffer_>>

(* post_send, under mtx. *)
PushTiming(r, pushed) ==
    /\ timings_' = [timings_ EXCEPT ![timing_idx_] = r]
    /\ timing_idx_' = (timing_idx_ + 1) % Timings
    /\ requests_served_' = requests_served_ + 1
    /\ passed' = (passed \/ \E q \in pushed : Passes(r, q))
    /\ UNCHANGED <<countVars, status_code_, ring_buffer_>>

(* calculate_rps reads ... *)
ReadCount ==
    /\ current_rps = -1 /\ rates < MaxRates
    /\ current_rps' = request_count_
    /\ rates' = rates + 1
    /\ UNCHANGED <<request_count_, sampled, late, status_code_, recordVars>>

(* ... and resets. *)
ResetCount ==
    /\ current_rps # -1
    /\ sampled' = sampled + current_rps
    /\ current_rps' = -1 /\ request_count_' = 0
    /\ UNCHANGED <<rates, late, status_code_, recordVars>>
=============================================================================
