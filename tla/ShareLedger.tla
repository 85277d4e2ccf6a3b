----------------------------- MODULE ShareLedger -----------------------------
(***************************************************************************)
(* What StratumClient promises of the shares its solver finds, whatever    *)
(* the connection does: a share is submitted at most once, the pool's      *)
(* verdict on it is final, and the miner settles it exactly once: as       *)
(* accepted only if the pool accepted it, as rejected otherwise or when no *)
(* verdict came, or not at all when the session ended under the loop that  *)
(* was waiting.  StratumSession implements this specification.             *)
(***************************************************************************)
CONSTANT Shares         \* the (parent, nonce) pairs

VARIABLES
  status,               \* the miner's view of each share
  verdict               \* the pool's

Status == {"new", "sent", "accepted", "rejected", "lost"}
Verdict == {"none", "ok", "no"}

Init ==
  /\ status = [s \in Shares |-> "new"]
  /\ verdict = [s \in Shares |-> "none"]

Become(s, from, to) ==
  /\ status[s] = from
  /\ status' = [status EXCEPT ![s] = to]
  /\ UNCHANGED verdict

Submit(s) == Become(s, "new", "sent")
SubmitFails(s) == Become(s, "new", "rejected")
Accept(s) == verdict[s] = "ok" /\ Become(s, "sent", "accepted")
Reject(s) == Become(s, "sent", "rejected")
Lose(s) == Become(s, "sent", "lost")

\* The pool judges what it was sent, perhaps after the miner has given it up.
Judge(s, v) ==
  /\ status[s] # "new" /\ verdict[s] = "none"
  /\ verdict' = [verdict EXCEPT ![s] = v]
  /\ UNCHANGED status

Next ==
  \E s \in Shares :
    \/ Submit(s) \/ SubmitFails(s) \/ Accept(s) \/ Reject(s) \/ Lose(s)
    \/ \E v \in Verdict \ {"none"} : Judge(s, v)

Spec == Init /\ [][Next]_<<status, verdict>>
=============================================================================
