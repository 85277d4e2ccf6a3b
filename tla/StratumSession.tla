---------------------------- MODULE StratumSession ----------------------------
(***************************************************************************)
(* client/src/dexbtx_miner/stratum_client.py: the sessions of              *)
(* StratumClient with the pool (run_forever, _session_once, _handshake,    *)
(* _reader_loop), the RPC calls over them (_call, _send, the responses in  *)
(* _handle_message), and the shares submitted with such calls              *)
(* (_submit_share) with their dedupe and their accounting.  Submit tasks   *)
(* run in the background: a session's end neither cancels nor awaits them. *)
(*                                                                         *)
(* The pool and the network (external) answer a request once or never, in  *)
(* any order, and may drop the connection at any time.  What the solver    *)
(* does between shares is NonceScan's and GbtSolveWrapper's.               *)
(***************************************************************************)
EXTENDS Naturals, FiniteSets

CONSTANTS
  Shares,       \* the (parent, nonce) keys of the shares the solver finds
  Tasks,        \* identities of background submit tasks, reused
  None,         \* Python's None
  MaxSeen,      \* 8192: the dedupe set is cleared when it holds more
  MaxSessions   \* bound: sessions in a behaviour

ASSUME NoneAssumption == None \notin Shares
ASSUME TasksAssumption == {"solver", "session"} \cap Tasks = {}
ASSUME BoundAssumption == MaxSeen \in Nat /\ MaxSessions \in Nat

\* Who may submit: the background tasks, and the solver loop itself for a
\* record without "shares".  _session_once calls for the handshake.
Submitters == Tasks \cup {"solver"}
Callers == Submitters \cup {"session"}

VARIABLES
  phase,            \* where run_forever is
  session,          \* how many sessions there have been
  link,             \* the pool's end of the connection is there
  reader,           \* _reader_loop runs
  next_id,          \* _msg_id_seq
  pending,          \* _pending: which future waits for which id
  call,             \* the _call each caller awaits
  seen,             \* _submitted_share_keys
  accepted,         \* shares_accepted
  rejected,         \* shares_rejected
  consec_rejects,   \* _consec_rejects
  \* the pool (external)
  wire,             \* requests it has not answered
  replies,          \* its answers, not read yet
  verdict,          \* its verdict on each share
  \* history
  outcome,          \* how each share was settled
  stale_rejects     \* those of consec_rejects that an earlier session submitted

sessionVars == <<phase, session, link, reader>>
countVars == <<accepted, rejected, consec_rejects, outcome, stale_rejects>>
rpcVars == <<next_id, pending, call, wire>>
vars == <<sessionVars, rpcVars, seen, replies, verdict, countVars>>

Phase == {"backoff",      \* not connected
          "subscribe",    \* await _call("mining.subscribe")
          "authorize",    \* await _call("mining.authorize")
          "up",           \* await reader_task: the solver loop runs
          "teardown"}     \* in the finally block
Reply == {"none", "ok", "no"}

Idle == [id |-> 0, share |-> None, reply |-> "none", of |-> 0]
InFlight(c) == call[c].id # 0
Request == [id : Nat \ {0}, share : Shares \cup {None}]

TypeOK ==
  /\ phase \in Phase
  /\ session \in 0..MaxSessions
  /\ link \in BOOLEAN /\ reader \in BOOLEAN
  /\ next_id \in Nat \ {0}
  /\ pending \subseteq [id : Nat \ {0}, caller : Callers]
  /\ call \in [Callers -> [id : Nat, share : Shares \cup {None}, reply : Reply,
                           of : 0..MaxSessions]]
  /\ \A c \in Submitters : InFlight(c) => call[c].share \in Shares
  /\ InFlight("solver") => phase = "up"
  /\ seen \subseteq Shares
  /\ accepted \in Nat /\ rejected \in Nat /\ consec_rejects \in Nat
  /\ wire \subseteq Request
  /\ replies \subseteq [id : Nat \ {0}, reply : Reply \ {"none"}]
  /\ verdict \in [Shares -> Reply]
  /\ outcome \in [Shares -> {"none", "accepted", "rejected", "lost"}]
  /\ stale_rejects \in 0..consec_rejects

Init ==
  /\ phase = "backoff" /\ session = 0 /\ link = FALSE /\ reader = FALSE
  /\ next_id = 1 /\ pending = {} /\ call = [c \in Callers |-> Idle]
  /\ seen = {}
  /\ accepted = 0 /\ rejected = 0 /\ consec_rejects = 0
  /\ wire = {} /\ replies = {}
  /\ verdict = [s \in Shares |-> "none"]
  /\ outcome = [s \in Shares |-> "none"]
  /\ stale_rejects = 0

-----------------------------------------------------------------------------
(***************************************************************************)
(* _call and _send.                                                        *)
(***************************************************************************)

\* Mutant: an id is free again once its call is over.
FreshIdReused == CHOOSE i \in 1..Cardinality(pending) + 1 :
                   \A p \in pending : p.id # i

\* next(self._msg_id_seq)
FreshId == next_id

\* The future is entered before the request is sent.
Enter(c) == /\ next_id' = FreshId + 1
            /\ pending' = pending \cup {[id |-> FreshId, caller |-> c]}

\* The request goes out, and perhaps nowhere: the call waits for its future.
Send(c, s, of, alive) ==
  /\ Enter(c)
  /\ call' = [call EXCEPT ![c] = [id |-> FreshId, share |-> s, reply |-> "none",
                                  of |-> of]]
  /\ wire' = IF alive THEN wire \cup {[id |-> FreshId, share |-> s]} ELSE wire

\* The write finds the connection lost and raises: the future stays entered.
SendFails(c) == ~link /\ Enter(c) /\ UNCHANGED <<call, wire>>

\* The call is over, and on a timeout its future is taken out.
HangUp(c) == call' = [call EXCEPT ![c] = Idle]
Forget(c) == pending' = {p \in pending : p.id # call[c].id}

-----------------------------------------------------------------------------
(***************************************************************************)
(* _submit_share.                                                          *)
(***************************************************************************)
Settle(s, how) == outcome' = [outcome EXCEPT ![s] = how]

CountAccept(s) ==
  /\ accepted' = accepted + 1
  /\ consec_rejects' = 0 /\ stale_rejects' = 0
  /\ Settle(s, "accepted")
  /\ UNCHANGED rejected

\* Mutant: only an answer of the pool is counted as a rejection.
CountRejectAnswered(s, of) ==
  /\ rejected' = IF verdict[s] = "no" THEN rejected + 1 ELSE rejected
  /\ consec_rejects' = consec_rejects + 1
  /\ stale_rejects' = IF of < session THEN stale_rejects + 1 ELSE stale_rejects
  /\ Settle(s, "rejected")
  /\ UNCHANGED accepted

\* Every other end of the call counts as a rejection, in whatever session.
CountReject(s, of) ==
  /\ rejected' = rejected + 1
  /\ consec_rejects' = consec_rejects + 1
  /\ stale_rejects' = IF of < session THEN stale_rejects + 1 ELSE stale_rejects
  /\ Settle(s, "rejected")
  /\ UNCHANGED accepted

Remember(s) == seen' = (IF Cardinality(seen) > MaxSeen THEN {} ELSE seen) \cup {s}

\* The solver finds a share, or finds it once more; a share seen before is
\* dropped.  A created task runs before anything else of the session does.
SubmitShare(c, s) ==
  /\ phase = "up" /\ ~InFlight(c)
  /\ s \notin seen
  /\ Remember(s)
  /\ \/ Send(c, s, session, link) /\ UNCHANGED countVars
     \/ SendFails(c) /\ CountReject(s, session)
  /\ UNCHANGED <<sessionVars, replies, verdict>>

SubmitAnswered(c) ==
  /\ InFlight(c) /\ call[c].reply # "none"
  /\ HangUp(c)
  /\ IF call[c].reply = "ok" THEN CountAccept(call[c].share)
                             ELSE CountReject(call[c].share, call[c].of)
  /\ UNCHANGED <<sessionVars, next_id, pending, wire, seen, replies, verdict>>

\* Mutant: no time limit on the answer.
WaitForever(c) == FALSE

\* 30 s have passed, if need be at the moment the answer comes in.
SubmitTimesOut(c) ==
  /\ InFlight(c)
  /\ HangUp(c) /\ Forget(c)
  /\ CountReject(call[c].share, call[c].of)
  /\ UNCHANGED <<sessionVars, next_id, wire, seen, replies, verdict>>

-----------------------------------------------------------------------------
(***************************************************************************)
(* _handle_message, for a response: the future that waits for its id.      *)
(***************************************************************************)

\* An answer to a call that is over finds no future, or one that is done.
Matches(r, c) == [id |-> r.id, caller |-> c] \in pending /\ call[c].id = r.id

ReadReply(r) ==
  /\ reader /\ r \in replies
  /\ replies' = replies \ {r}
  /\ pending' = {p \in pending : p.id # r.id}
  /\ call' = [c \in Callers |-> IF Matches(r, c) /\ call[c].reply = "none"
                                  THEN [call[c] EXCEPT !.reply = r.reply]
                                  ELSE call[c]]
  /\ UNCHANGED <<sessionVars, next_id, wire, seen, verdict, countVars>>

-----------------------------------------------------------------------------
(***************************************************************************)
(* run_forever, _session_once, _handshake.                                 *)
(***************************************************************************)

\* Mutant: every connection numbers its requests from 1 again.
ConnectRenumbers ==
  /\ phase = "backoff" /\ session < MaxSessions
  /\ phase' = "subscribe"
  /\ session' = session + 1
  /\ link' = TRUE /\ reader' = TRUE
  /\ next_id' = 2
  /\ pending' = {[id |-> 1, caller |-> "session"]}
  /\ call' = [call EXCEPT !["session"] = [id |-> 1, share |-> None, reply |-> "none",
                                         of |-> session + 1]]
  /\ wire' = {[id |-> 1, share |-> None]}
  /\ UNCHANGED <<seen, replies, verdict, countVars>>

\* After the backoff: the connection, the reader task, mining.subscribe.
Connect ==
  /\ phase = "backoff" /\ session < MaxSessions
  /\ phase' = "subscribe"
  /\ session' = session + 1
  /\ link' = TRUE /\ reader' = TRUE
  /\ Send("session", None, session + 1, TRUE)
  /\ UNCHANGED <<seen, replies, verdict, countVars>>

BeginTeardown == phase' = "teardown" /\ reader' = FALSE

\* The answer to mining.subscribe: mining.authorize is next.
Subscribed ==
  /\ phase = "subscribe" /\ call["session"].reply = "ok"
  /\ \/ /\ Send("session", None, session, link)
        /\ phase' = "authorize"
        /\ UNCHANGED reader
     \/ /\ ~link /\ Enter("session") /\ HangUp("session") /\ UNCHANGED wire
        /\ BeginTeardown
  /\ UNCHANGED <<session, link, seen, replies, verdict, countVars>>

\* The session is up, with a fresh window for the heal watchdog.
Authorized ==
  /\ phase = "authorize" /\ call["session"].reply = "ok"
  /\ HangUp("session")
  /\ phase' = "up"
  /\ consec_rejects' = 0 /\ stale_rejects' = 0
  /\ UNCHANGED <<session, link, reader, next_id, pending, wire, seen, replies,
                 verdict, accepted, rejected, outcome>>

\* Mutant: a handshake waits for the pool as long as it takes.
HandshakePatient ==
  /\ phase \in {"subscribe", "authorize"} /\ call["session"].reply = "no"
  /\ HangUp("session") /\ Forget("session")
  /\ BeginTeardown
  /\ UNCHANGED <<session, link, next_id, wire, seen, replies, verdict, countVars>>

\* An error, a refusal, or no answer in 30 s (nobody watches the reader here).
HandshakeFails ==
  /\ phase \in {"subscribe", "authorize"}
  /\ HangUp("session") /\ Forget("session")
  /\ BeginTeardown
  /\ UNCHANGED <<session, link, next_id, wire, seen, replies, verdict, countVars>>

\* Mutant: the solver task is left running.
EndSessionOnly ==
  /\ phase = "up" /\ ~reader
  /\ BeginTeardown
  /\ UNCHANGED <<session, link, rpcVars, seen, replies, verdict, countVars>>

\* The reader's exception ends the session: the solver task is cancelled, and
\* with it a submission it is waiting for; background submissions go on.
EndSession ==
  /\ phase = "up" /\ ~reader
  /\ BeginTeardown
  /\ HangUp("solver")
  /\ IF InFlight("solver") THEN Settle(call["solver"].share, "lost")
                           ELSE UNCHANGED outcome
  /\ UNCHANGED <<session, link, next_id, pending, wire, seen, replies, verdict,
                 accepted, rejected, consec_rejects, stale_rejects>>

\* The tasks have ended and the connection is closed.
TornDown ==
  /\ phase = "teardown"
  /\ phase' = "backoff"
  /\ link' = FALSE
  /\ pending' = {} /\ wire' = {} /\ replies' = {}
  /\ UNCHANGED <<session, reader, next_id, call, seen, verdict, countVars>>

\* EOF, a reset, or a message whose handler raises.
ReaderEnds ==
  /\ reader /\ phase # "teardown"
  /\ reader' = FALSE
  /\ UNCHANGED <<phase, session, link, rpcVars, seen, replies, verdict, countVars>>

\* The heal watchdog bounces the daemon, for a streak of rejects or for a hang
\* (the clock it goes by is not modelled here); either way the streak restarts.
HealBounce ==
  /\ phase = "up"
  /\ consec_rejects' = 0 /\ stale_rejects' = 0
  /\ UNCHANGED <<sessionVars, rpcVars, seen, replies, verdict, accepted,
                 rejected, outcome>>

-----------------------------------------------------------------------------
(***************************************************************************)
(* The pool and the network (external).                                    *)
(***************************************************************************)

\* A request is answered; a share is judged once, a duplicate is refused.
PoolAnswers(q, v) ==
  /\ link /\ q \in wire
  /\ \/ q.share = None /\ UNCHANGED verdict
     \/ /\ q.share # None /\ verdict[q.share] = "none"
        /\ verdict' = [verdict EXCEPT ![q.share] = v]
     \/ /\ q.share # None /\ verdict[q.share] # "none"
        /\ v = "no" /\ UNCHANGED verdict
  /\ wire' = wire \ {q}
  /\ replies' = replies \cup {[id |-> q.id, reply |-> v]}
  /\ UNCHANGED <<sessionVars, next_id, pending, call, seen, countVars>>

LinkLost ==
  /\ link
  /\ link' = FALSE
  /\ wire' = {}
  /\ UNCHANGED <<phase, session, reader, next_id, pending, call, seen, replies,
                 verdict, countVars>>

-----------------------------------------------------------------------------
SessionStep == Subscribed \/ Authorized \/ HandshakeFails \/ EndSession \/ TornDown
SubmitterStep(c) == SubmitAnswered(c) \/ SubmitTimesOut(c)

Next ==
  \/ \E c \in Submitters, s \in Shares : SubmitShare(c, s)
  \/ \E c \in Submitters : SubmitterStep(c)
  \/ \E r \in replies : ReadReply(r)
  \/ Connect
  \/ SessionStep
  \/ ReaderEnds
  \/ HealBounce
  \/ \E q \in wire, v \in {"ok", "no"} : PoolAnswers(q, v)
  \/ LinkLost

Spec == Init /\ [][Next]_vars

(***************************************************************************)
(* Fairness: asyncio's timers fire and its coroutines are resumed.  The    *)
(* pool need not answer, and nothing need ever be found or lost.           *)
(***************************************************************************)
FairSpec ==
  /\ Spec
  /\ WF_vars(SessionStep)
  /\ \A c \in Submitters : WF_vars(SubmitterStep(c))

-----------------------------------------------------------------------------
(***************************************************************************)
(* Properties.                                                             *)
(***************************************************************************)

\* The client's accounting and the pool's agree share by share, across lost
\* connections, late answers, timeouts and reconnects: see ShareLedger.
StatusOf(s) ==
  IF s \notin seen THEN "new"
  ELSE IF \E c \in Submitters : call[c].share = s THEN "sent" ELSE outcome[s]

Ledger == INSTANCE ShareLedger WITH status <- [s \in Shares |-> StatusOf(s)]
ImplementsLedger == Ledger!Spec

\* The counters that the pool's fleet view and the watchdog go by add up:
\* every share submitted is in flight, counted once, or was lost with the
\* solver loop that waited for it.
CountersBalance ==
  Cardinality(seen) =
    accepted + rejected + Cardinality({c \in Submitters : InFlight(c)})
      + Cardinality({s \in Shares : outcome[s] = "lost"})

\* Whatever ends, times out or is left over from an earlier session: as long as
\* the session a call was made in lasts, its future is in _pending, so its
\* answer will find it.
WaiterEntered ==
  \A c \in Callers :
    InFlight(c) /\ call[c].reply = "none" /\ call[c].of = session /\ phase # "backoff"
      => [id |-> call[c].id, caller |-> c] \in pending

\* Every submission ends, also when its session is gone.
SubmissionsEnd == \A c \in Submitters : InFlight(c) ~> ~InFlight(c)

\* No handshake hangs, not even when the reader dies under it.
HandshakeEnds == phase \in {"subscribe", "authorize"} ~> phase \in {"up", "backoff"}

(***************************************************************************)
(* What a comment says.                                                    *)
(***************************************************************************)

\* "A reconnect must not count pre-reconnect silence/rejects": no submission
\* of an earlier session is in the streak the watchdog looks at.
FreshHealWindow == phase = "up" => stale_rejects = 0

-----------------------------------------------------------------------------
(***************************************************************************)
(* The inductive invariants behind ImplementsLedger (IInv) and, with       *)
(* Unsettled, CountersBalance (StratumSession_proofs).                     *)
(***************************************************************************)

\* No id that is in use anywhere will be given out again.
Numbered ==
  /\ \A q \in wire : q.id < next_id
  /\ \A r \in replies : r.id < next_id
  /\ \A c \in Callers : call[c].id < next_id

\* A share is in flight with one submitter at most, and has an outcome when
\* it is with none.
CallsInv ==
  /\ \A c \in Callers : InFlight(c) \/ call[c] = Idle
  /\ \A c \in Submitters : InFlight(c) => call[c].share \in seen
  /\ \A c, d \in Submitters : InFlight(c) /\ call[c].share = call[d].share => c = d
  /\ \A s \in seen : outcome[s] = "none" => \E c \in Submitters : call[c].share = s

\* What answers a submission's id, on the way or read, is about its share, and
\* says ok only if that is the pool's verdict.
AnswersInv ==
  /\ \A q \in wire : q.share # None => q.share \in seen
  /\ \A c \in Submitters :
       /\ \A q \in wire : q.id = call[c].id => q.share = call[c].share
       /\ \A r \in replies : r.id = call[c].id /\ r.reply = "ok" =>
                               verdict[call[c].share] = "ok"
       /\ call[c].reply = "ok" => verdict[call[c].share] = "ok"

IInv == TypeOK /\ Numbered /\ CallsInv /\ AnswersInv

\* A share has no outcome before it is submitted, or while it is in flight.
Unsettled ==
  \A s \in Shares :
    s \notin seen \/ (\E c \in Submitters : call[c].share = s) => outcome[s] = "none"

\* No two calls wait under one id, none under one still to be given out, and
\* none is of a session to come: what WaiterEntered needs.
WaitersInv ==
  /\ WaiterEntered
  /\ \A c \in Callers : call[c].id < next_id /\ call[c].of <= session
  /\ \A c, d \in Callers : InFlight(c) /\ call[c].id = call[d].id => c = d
=============================================================================
