-------------------------------- MODULE Claim --------------------------------
(***************************************************************************)
(* The claim a run takes before it writes to a chain directory             *)
(* (infra/lock.av; app/node.av and app/maintain.av take and release it):   *)
(* a file naming a process and its host, tested, read, judged by /proc,    *)
(* deleted and written.  Every step is one call on the disk, a run may die *)
(* between any two, and runs start while others go on.                     *)
(*                                                                         *)
(* The file is tested and then written, so two runs that ask at once can   *)
(* both take it; `raced` remembers that two ever asked at once.            *)
(***************************************************************************)
EXTENDS FiniteSets

CONSTANTS
  Process,   \* the runs, each a process that starts once
  Host,      \* Host[r]: the host r runs on
  Torn,      \* a claim whose writing was cut short: it names nobody
  Unclaimed  \* no claim

VARIABLES
  claim, \* the claim file: a run, Torn, or Unclaimed
  pc,    \* where each run is
  raced  \* whether two runs were ever asking at once (no code state)

claimVars == <<claim, pc, raced>>

Asking == {"asking", "reading", "clearing", "writing"}
Ended == {"refused", "done", "dead"}
Alive(r) == pc[r] \in Asking \cup {"working"}

ASSUME ClaimNames ==
  IsFiniteSet(Process) /\ Unclaimed \notin Process /\ Torn \notin Process \cup {Unclaimed}

ClaimTypeOK ==
  /\ claim \in Process \cup {Unclaimed, Torn}
  /\ pc \in [Process -> Asking \cup Ended \cup {"absent", "working"}]
  /\ raced \in BOOLEAN

ClaimInit ==
  /\ claim = Unclaimed
  /\ pc = [r \in Process |-> "absent"]
  /\ raced = FALSE

Moves(r, here, there) == pc[r] = here /\ pc' = [pc EXCEPT ![r] = there]

Start(r) ==
  /\ Moves(r, "absent", "asking")
  /\ raced' = (raced \/ \E s \in Process \ {r} : pc[s] \in Asking)
  /\ UNCHANGED claim

(* claim: is there a file?                                                  *)
Ask(r) ==
  /\ Moves(r, "asking", IF claim = Unclaimed THEN "writing" ELSE "reading")
  /\ UNCHANGED <<claim, raced>>

(* Slip: /proc of this host is asked about a holder of any host.            *)
Stale_AnyHost(r, holder) ==
  /\ holder \notin {Unclaimed, Torn}
  /\ \/ Host[holder] # Host[r]
     \/ ~Alive(holder)

(* Slip: a claim found is refused as it always was, before #112.            *)
Stale_Never(r, holder) == FALSE

(* contested, againstHolder, onThisHost: the holder is named, is of this    *)
(* host, and has no entry in /proc.  What has left /proc stays away, so     *)
(* reading the file and asking about its holder are one step.               *)
Stale(r, holder) ==
  /\ holder \notin {Unclaimed, Torn}
  /\ Host[holder] = Host[r]
  /\ ~Alive(holder)

(* contested: a claim that vanished meanwhile is an error, like a live one. *)
Read(r) ==
  /\ Moves(r, "reading", IF Stale(r, claim) THEN "clearing" ELSE "refused")
  /\ UNCHANGED <<claim, raced>>

(* takenOver: whatever claim is there by now is deleted; none is an error.  *)
Clear(r) ==
  /\ Moves(r, "clearing", IF claim = Unclaimed THEN "refused" ELSE "writing")
  /\ claim' = Unclaimed
  /\ UNCHANGED raced

(* written: the file, naming this run.                                      *)
Write(r) ==
  /\ Moves(r, "writing", "working")
  /\ claim' = r
  /\ UNCHANGED raced

(* release: the file deleted, whoever it names, whatever the run's outcome. *)
Release(r) ==
  /\ Moves(r, "working", "done")
  /\ claim' = Unclaimed
  /\ UNCHANGED raced

(* A run dies anywhere; while writing its claim it may leave half of one.   *)
Die(r) ==
  /\ Alive(r)
  /\ pc' = [pc EXCEPT ![r] = "dead"]
  /\ IF pc[r] = "writing" THEN claim' \in {claim, Torn} ELSE UNCHANGED claim
  /\ UNCHANGED raced

Claiming(r) == Ask(r) \/ Read(r) \/ Clear(r) \/ Write(r)

ClaimNext == \E r \in Process : Start(r) \/ Claiming(r) \/ Release(r) \/ Die(r)

ClaimSpec == ClaimInit /\ [][ClaimNext]_claimVars

(* A process that lives makes its next call; nothing makes it start or end. *)
ClaimFairSpec == ClaimSpec /\ \A r \in Process : WF_claimVars(Claiming(r))

(* Two runs never write one directory, unless they asked for it in the same *)
(* instant: the race infra/lock.av says it does not close.                  *)
Exclusive ==
  ~raced => \A r, s \in Process : (pc[r] = "working" /\ pc[s] = "working") => r = s

(* Until two ask at once, the runs that write are as OneWriter says: none   *)
(* begins before the one before it is over, however that one ended.         *)
Writers == {r \in Process : pc[r] = "working"}
Writer == IF Writers = {} THEN Unclaimed ELSE CHOOSE r \in Writers : TRUE
Promise == INSTANCE OneWriter WITH Run <- Process, writer <- Writer, Nobody <- Unclaimed
TakesTurns == Promise!OneInit /\ [][raced' \/ Promise!OneNext]_Writer

(* A claim that names nobody, or a run of another host, cannot be asked     *)
(* about: contested and againstHolder refuse it until it is deleted by hand.*)
Unanswerable(r) == claim = Torn \/ claim \in {s \in Process : Host[s] # Host[r]}

(* A claim whose process has exited on this host stops nobody (#112): with  *)
(* every other run over, one that asks gets the directory, or finds there   *)
(* what it cannot ask about.  Half a claim, left by a run that died while   *)
(* writing it, is such a thing, and locks out everybody.                    *)
LastOneWorks ==
  \A r \in Process :
    (pc[r] = "asking" /\ \A s \in Process \ {r} : pc[s] \in Ended)
      ~> (pc[r] \in {"working", "dead"} \/ (pc[r] = "refused" /\ Unanswerable(r)))
==============================================================================
