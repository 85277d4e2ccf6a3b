------------------------ MODULE StratumSession_proofs ------------------------
(***************************************************************************)
(* Proofs about StratumSession: its type invariant, that it implements     *)
(* ShareLedger, and that its counters add up, for every set of shares and  *)
(* submit tasks and any number of sessions.                                *)
(***************************************************************************)
EXTENDS StratumSession, FiniteSetTheorems, TLAPS

USE NoneAssumption, TasksAssumption, BoundAssumption

CallRec == [id : Nat, share : Shares \cup {None}, reply : Reply, of : 0..MaxSessions]

-----------------------------------------------------------------------------
(***************************************************************************)
(* Type correctness.                                                       *)
(***************************************************************************)

\* _call takes a fresh id and enters its future under it.
LEMMA EnterTyped ==
  ASSUME TypeOK, NEW c \in Callers, Enter(c)
  PROVE  /\ next_id' \in Nat \ {0}
         /\ pending' \subseteq [id : Nat \ {0}, caller : Callers]
  BY DEF TypeOK, Enter, FreshId

\* A request that is sent leaves one well-typed call and a well-typed wire.
LEMMA SendTyped ==
  ASSUME TypeOK, NEW c \in Callers, NEW s \in Shares \cup {None},
         NEW of \in 0..MaxSessions, NEW alive \in BOOLEAN, Send(c, s, of, alive)
  PROVE  /\ next_id' \in Nat \ {0}
         /\ pending' \subseteq [id : Nat \ {0}, caller : Callers]
         /\ wire' \subseteq Request
         /\ call' \in [Callers -> CallRec]
         /\ call'[c].share = s /\ call'[c].id # 0
         /\ \A d \in Callers \ {c} : call'[d] = call[d]
  <1>1. Enter(c)
    BY DEF Send
  <1>2. [id |-> FreshId, share |-> s] \in Request
    BY DEF TypeOK, FreshId, Request
  <1>3. wire' \subseteq Request
    BY <1>2 DEF Send, TypeOK
  <1>4. [id |-> FreshId, share |-> s, reply |-> "none", of |-> of] \in CallRec
    BY DEF TypeOK, FreshId, CallRec, Reply
  <1>5. call \in [Callers -> CallRec]
    BY DEF TypeOK, CallRec
  <1>6. /\ call' \in [Callers -> CallRec]
        /\ \A d \in Callers \ {c} : call'[d] = call[d]
        /\ call'[c] = [id |-> FreshId, share |-> s, reply |-> "none", of |-> of]
    BY <1>4, <1>5 DEF Send
  <1>7. FreshId # 0
    BY DEF TypeOK, FreshId
  <1> QED
    BY <1>1, <1>3, <1>6, <1>7, EnterTyped

\* A call that ends leaves its caller idle and the others alone.
LEMMA HangUpTyped ==
  ASSUME TypeOK, NEW c \in Callers, HangUp(c)
  PROVE  /\ call' \in [Callers -> CallRec]
         /\ call'[c] = Idle
         /\ \A d \in Callers \ {c} : call'[d] = call[d]
  <1>1. Idle \in CallRec
    BY DEF Idle, CallRec, Reply
  <1>2. call \in [Callers -> CallRec]
    BY DEF TypeOK, CallRec
  <1> QED
    BY <1>1, <1>2 DEF HangUp

\* The accounting keeps its types.
LEMMA CountTyped ==
  ASSUME TypeOK, NEW s \in Shares, NEW of \in 0..MaxSessions,
         CountAccept(s) \/ CountReject(s, of)
  PROVE  /\ accepted' \in Nat /\ rejected' \in Nat /\ consec_rejects' \in Nat
         /\ outcome' \in [Shares -> {"none", "accepted", "rejected", "lost"}]
         /\ stale_rejects' \in 0..consec_rejects'
  BY DEF TypeOK, CountAccept, CountReject, Settle

\* Every step keeps the types.
LEMMA TypeStep == TypeOK /\ [Next]_vars => TypeOK'
  <1> SUFFICES ASSUME TypeOK, [Next]_vars PROVE TypeOK'
    OBVIOUS
  <1> USE DEF CallRec
  <1>0. /\ "solver" \in Submitters /\ "session" \notin Submitters
        /\ Callers = Submitters \cup {"session"}
        /\ call \in [Callers -> CallRec]
    BY DEF Submitters, Callers, TypeOK
  <1>1. ASSUME NEW c \in Submitters, NEW s \in Shares, SubmitShare(c, s)
        PROVE  TypeOK'
    <2>1. c \in Callers /\ session \in 0..MaxSessions /\ link \in BOOLEAN
      BY <1>0, <1>1 DEF TypeOK
    <2>2. seen' \subseteq Shares
      BY <1>1 DEF SubmitShare, Remember, TypeOK
    <2>3. CASE Send(c, s, session, link) /\ UNCHANGED countVars
      <3>1. /\ next_id' \in Nat \ {0}
            /\ pending' \subseteq [id : Nat \ {0}, caller : Callers]
            /\ wire' \subseteq Request
            /\ call' \in [Callers -> CallRec]
            /\ call'[c].share = s /\ call'[c].id # 0
            /\ \A d \in Callers \ {c} : call'[d] = call[d]
        BY <2>1, <2>3, SendTyped
      <3>2. \A d \in Submitters : InFlight(d)' => call'[d].share \in Shares
        BY <3>1, <1>0, <2>1 DEF TypeOK, InFlight
      <3> QED
        BY <1>1, <2>2, <2>3, <3>1, <3>2
           DEF TypeOK, SubmitShare, sessionVars, countVars
    <2>4. CASE SendFails(c) /\ CountReject(s, session)
      <3>1. Enter(c) /\ UNCHANGED <<call, wire>>
        BY <2>4 DEF SendFails
      <3>2. /\ next_id' \in Nat \ {0}
            /\ pending' \subseteq [id : Nat \ {0}, caller : Callers]
        BY <2>1, <3>1, EnterTyped
      <3>3. /\ accepted' \in Nat /\ rejected' \in Nat /\ consec_rejects' \in Nat
            /\ outcome' \in [Shares -> {"none", "accepted", "rejected", "lost"}]
            /\ stale_rejects' \in 0..consec_rejects'
        BY <2>1, <2>4, CountTyped
      <3> QED
        BY <1>1, <2>2, <3>1, <3>2, <3>3 DEF TypeOK, SubmitShare, sessionVars, InFlight
    <2> QED
      BY <1>1, <2>3, <2>4 DEF SubmitShare
  <1>2. ASSUME NEW c \in Submitters, SubmitterStep(c)
        PROVE  TypeOK'
    <2>1. /\ c \in Callers /\ call[c].share \in Shares /\ call[c].of \in 0..MaxSessions
          /\ HangUp(c)
      BY <1>0, <1>2 DEF TypeOK, SubmitterStep, SubmitAnswered, SubmitTimesOut
    <2>2. /\ call' \in [Callers -> CallRec]
          /\ call'[c] = Idle
          /\ \A d \in Callers \ {c} : call'[d] = call[d]
      BY <2>1, HangUpTyped
    <2>3. CountAccept(call[c].share) \/ CountReject(call[c].share, call[c].of)
      BY <1>2 DEF SubmitterStep, SubmitAnswered, SubmitTimesOut
    <2>4. /\ accepted' \in Nat /\ rejected' \in Nat /\ consec_rejects' \in Nat
          /\ outcome' \in [Shares -> {"none", "accepted", "rejected", "lost"}]
          /\ stale_rejects' \in 0..consec_rejects'
      BY <2>1, <2>3, CountTyped
    <2>5. /\ \A d \in Submitters : InFlight(d)' => call'[d].share \in Shares
          /\ InFlight("solver")' => InFlight("solver")
      BY <2>1, <2>2, <1>0 DEF TypeOK, InFlight, Idle
    <2>6. /\ UNCHANGED <<sessionVars, next_id, wire, seen, replies, verdict>>
          /\ pending' \subseteq pending
      BY <1>2 DEF SubmitterStep, SubmitAnswered, SubmitTimesOut, Forget
    <2> QED
      BY <2>2, <2>4, <2>5, <2>6 DEF TypeOK, sessionVars
  <1>3. ASSUME NEW r \in replies, ReadReply(r)
        PROVE  TypeOK'
    <2>1. r.reply \in Reply
      BY <1>3 DEF TypeOK
    <2>2. \A c \in Callers : /\ call'[c] \in CallRec
                             /\ call'[c].id = call[c].id
                             /\ call'[c].share = call[c].share
      BY <1>0, <1>3, <2>1 DEF ReadReply
    <2>3. call' \in [Callers -> CallRec]
      BY <2>2, <1>3 DEF ReadReply
    <2> QED
      BY <1>0, <1>3, <2>2, <2>3 DEF ReadReply, TypeOK, sessionVars, countVars, InFlight
  <1>4. CASE Connect
    <2>1. session \in 0..MaxSessions /\ session < MaxSessions
      BY <1>4 DEF Connect, TypeOK
    <2>a. session + 1 \in 0..MaxSessions
      BY <2>1
    <2>b. Send("session", None, session + 1, TRUE)
      BY <1>4, Zenon DEF Connect
    <2>2. /\ next_id' \in Nat \ {0}
          /\ pending' \subseteq [id : Nat \ {0}, caller : Callers]
          /\ wire' \subseteq Request
          /\ call' \in [Callers -> CallRec]
          /\ \A d \in Callers \ {"session"} : call'[d] = call[d]
      BY <1>0, <2>a, <2>b, SendTyped
    <2>3. \A d \in Submitters : call'[d] = call[d]
      BY <1>0, <2>2
    <2>4. ~InFlight("solver")
      BY <1>4 DEF TypeOK, Connect
    <2> QED
      BY <1>0, <1>4, <2>a, <2>2, <2>3, <2>4 DEF Connect, TypeOK, Phase, countVars, InFlight
  <1>5. CASE Subscribed
    <2>1. ~InFlight("solver") /\ phase' \in Phase
      BY <1>5 DEF TypeOK, Subscribed, BeginTeardown, Phase
    <2>2. CASE Send("session", None, session, link) /\ phase' = "authorize" /\ UNCHANGED reader
      <3>1. /\ next_id' \in Nat \ {0}
            /\ pending' \subseteq [id : Nat \ {0}, caller : Callers]
            /\ wire' \subseteq Request
            /\ call' \in [Callers -> CallRec]
            /\ \A d \in Callers \ {"session"} : call'[d] = call[d]
        <4>1. session \in 0..MaxSessions /\ link \in BOOLEAN
          BY DEF TypeOK
        <4> QED
          BY <1>0, <2>2, <4>1, SendTyped
      <3>2. \A d \in Submitters : call'[d] = call[d]
        BY <1>0, <3>1
      <3> QED
        BY <1>0, <1>5, <2>1, <2>2, <3>1, <3>2 DEF Subscribed, TypeOK, countVars, InFlight
    <2>3. CASE Enter("session") /\ HangUp("session") /\ UNCHANGED wire /\ BeginTeardown
      <3>1. /\ next_id' \in Nat \ {0}
            /\ pending' \subseteq [id : Nat \ {0}, caller : Callers]
        BY <1>0, <2>3, EnterTyped
      <3>2. /\ call' \in [Callers -> CallRec]
            /\ \A d \in Submitters : call'[d] = call[d]
        BY <1>0, <2>3, HangUpTyped
      <3> QED
        BY <1>0, <1>5, <2>1, <2>3, <3>1, <3>2
           DEF Subscribed, BeginTeardown, TypeOK, countVars, InFlight
    <2> QED
      BY <1>5, <2>2, <2>3 DEF Subscribed
  <1>6. CASE Authorized \/ HandshakeFails
    <2>1. ~InFlight("solver") /\ phase' \in Phase /\ HangUp("session")
      BY <1>6 DEF TypeOK, Authorized, HandshakeFails, BeginTeardown, Phase
    <2>2. /\ call' \in [Callers -> CallRec]
          /\ \A d \in Submitters : call'[d] = call[d]
      BY <1>0, <2>1, HangUpTyped
    <2>3. CASE Authorized
      BY <1>0, <2>1, <2>2, <2>3 DEF Authorized, TypeOK, InFlight
    <2>4. CASE HandshakeFails
      BY <1>0, <2>1, <2>2, <2>4
         DEF HandshakeFails, BeginTeardown, Forget, TypeOK, countVars, InFlight
    <2> QED
      BY <1>6, <2>3, <2>4
  <1>7. CASE EndSession
    <2>1. HangUp("solver") /\ phase' \in Phase
      BY <1>7 DEF EndSession, BeginTeardown, Phase
    <2>2. /\ call' \in [Callers -> CallRec]
          /\ call'["solver"] = Idle
          /\ \A d \in Callers \ {"solver"} : call'[d] = call[d]
      BY <1>0, <2>1, HangUpTyped
    <2>3. /\ \A d \in Submitters : InFlight(d)' => call'[d].share \in Shares
          /\ ~InFlight("solver")'
      BY <1>0, <2>2 DEF TypeOK, InFlight, Idle
    <2>4. outcome' \in [Shares -> {"none", "accepted", "rejected", "lost"}]
      BY <1>7 DEF EndSession, Settle, TypeOK
    <2> QED
      BY <1>0, <1>7, <2>1, <2>2, <2>3, <2>4 DEF EndSession, BeginTeardown, TypeOK
  <1>8. CASE TornDown
    BY <1>8 DEF TornDown, TypeOK, Phase, countVars, InFlight
  <1>9. CASE ReaderEnds \/ HealBounce \/ LinkLost
    <2>1. CASE ReaderEnds
      BY <2>1 DEF ReaderEnds, TypeOK, rpcVars, countVars, InFlight
    <2>2. CASE HealBounce
      BY <2>2 DEF HealBounce, TypeOK, sessionVars, rpcVars, InFlight
    <2>3. CASE LinkLost
      BY <2>3 DEF LinkLost, TypeOK, countVars, InFlight
    <2> QED
      BY <1>9, <2>1, <2>2, <2>3
  <1>10. ASSUME NEW q \in wire, NEW v \in {"ok", "no"}, PoolAnswers(q, v)
         PROVE  TypeOK'
    <2>1. q.id \in Nat \ {0} /\ q.share \in Shares \cup {None}
      BY <1>10 DEF TypeOK, Request
    <2>2. verdict' \in [Shares -> Reply]
      BY <1>10, <2>1 DEF PoolAnswers, TypeOK, Reply
    <2>3. replies' \subseteq [id : Nat \ {0}, reply : Reply \ {"none"}]
      BY <1>10, <2>1 DEF PoolAnswers, TypeOK, Reply
    <2> QED
      BY <1>10, <2>2, <2>3 DEF PoolAnswers, TypeOK, sessionVars, countVars, InFlight
  <1>11. CASE UNCHANGED vars
    BY <1>11 DEF vars, sessionVars, countVars, rpcVars, TypeOK, InFlight
  <1> QED
    BY <1>1, <1>2, <1>3, <1>4, <1>5, <1>6, <1>7, <1>8, <1>9, <1>10, <1>11
       DEF Next, SessionStep

\* The types hold at the start.
LEMMA InitTyped == Init => TypeOK
  <1> SUFFICES ASSUME Init PROVE TypeOK
    OBVIOUS
  <1>1. Idle \in CallRec /\ Idle.id = 0
    BY DEF Idle, CallRec, Reply
  <1>2. /\ call \in [Callers -> CallRec]
        /\ \A c \in Callers : ~InFlight(c)
    BY <1>1 DEF Init, InFlight
  <1>3. Submitters \subseteq Callers /\ "solver" \in Callers
    BY DEF Submitters, Callers
  <1>4. /\ accepted \in Nat /\ rejected \in Nat /\ consec_rejects \in Nat
        /\ stale_rejects \in 0..consec_rejects /\ next_id \in Nat \ {0}
        /\ session \in 0..MaxSessions
    BY DEF Init
  <1>5. /\ verdict \in [Shares -> Reply]
        /\ outcome \in [Shares -> {"none", "accepted", "rejected", "lost"}]
    BY DEF Init, Reply
  <1>6. /\ phase \in Phase /\ link \in BOOLEAN /\ reader \in BOOLEAN
        /\ pending = {} /\ wire = {} /\ replies = {} /\ seen = {}
    BY DEF Init, Phase
  <1> QED
    BY <1>2, <1>3, <1>4, <1>5, <1>6 DEF TypeOK, CallRec

\* Type correctness: every variable keeps its type, and the solver loop has a
\* call in flight only while the session is up.
THEOREM TypeCorrect == Spec => []TypeOK
  BY InitTyped, TypeStep, PTL DEF Spec

-----------------------------------------------------------------------------
(***************************************************************************)
(* The invariant behind the refinement.                                    *)
(***************************************************************************)

\* There are not enough shares for the dedupe set to be emptied.
FewShares == IsFiniteSet(Shares) /\ Cardinality(Shares) <= MaxSeen

\* Then a share that is submitted is added to it, and nothing is forgotten.
LEMMA Remembers ==
  ASSUME FewShares, TypeOK, NEW s \in Shares, Remember(s)
  PROVE  seen' = seen \cup {s}
  <1>1. seen \subseteq Shares
    BY DEF TypeOK
  <1>2. IsFiniteSet(seen) /\ Cardinality(seen) <= Cardinality(Shares)
    BY <1>1, FS_Subset DEF FewShares
  <1>3. Cardinality(seen) \in Nat /\ Cardinality(Shares) \in Nat
    BY <1>2, FS_CardinalityType DEF FewShares
  <1>4. ~(Cardinality(seen) > MaxSeen)
    BY <1>2, <1>3 DEF FewShares
  <1> QED
    BY <1>4 DEF Remember

\* Who the callers are, and what is typed about them.
LEMMA CallerFacts ==
  ASSUME TypeOK
  PROVE  /\ Submitters \subseteq Callers
         /\ "solver" \in Submitters /\ "session" \in Callers /\ "session" \notin Submitters
         /\ call \in [Callers -> CallRec]
         /\ \A q \in wire : q.id \in Nat \ {0} /\ q.share \in Shares \cup {None}
         /\ \A r \in replies : r.id \in Nat \ {0}
         /\ next_id \in Nat \ {0}
         /\ Idle.id = 0 /\ Idle.share = None /\ Idle.reply = "none"
  BY DEF TypeOK, Submitters, Callers, CallRec, Request, Idle

\* A caller that hangs up keeps the ids below next_id, and the other calls as
\* they were.
LEMMA HangUpEffect ==
  ASSUME TypeOK, Numbered, AnswersInv, NEW c \in Callers, HangUp(c),
         UNCHANGED <<wire, replies, verdict, seen>>,
         next_id' \in Nat, next_id' >= next_id
  PROVE  Numbered' /\ AnswersInv'
  <1>1. /\ call' \in [Callers -> CallRec]
        /\ call'[c] = Idle
        /\ \A d \in Callers \ {c} : call'[d] = call[d]
    BY HangUpTyped
  <1>2. Numbered'
    BY <1>1, CallerFacts DEF Numbered, CallRec
  <1>3. AnswersInv'
    BY <1>1, CallerFacts DEF AnswersInv
  <1> QED
    BY <1>2, <1>3

\* A request that is sent has an id that nothing else has.
LEMMA SendEffect ==
  ASSUME TypeOK, Numbered, AnswersInv, NEW c \in Callers, NEW s \in Shares \cup {None},
         NEW of \in 0..MaxSessions, NEW alive \in BOOLEAN, Send(c, s, of, alive),
         s # None => s \in seen', c = "session" <=> s = None, seen \subseteq seen',
         UNCHANGED <<replies, verdict>>
  PROVE  Numbered' /\ AnswersInv'
  <1>1. /\ next_id' = next_id + 1
        /\ call'[c] = [id |-> next_id, share |-> s, reply |-> "none", of |-> of]
        /\ \A d \in Callers \ {c} : call'[d] = call[d]
        /\ wire' \subseteq wire \cup {[id |-> next_id, share |-> s]}
    BY CallerFacts DEF Send, Enter, FreshId
  <1>2. Numbered'
    BY <1>1, CallerFacts DEF Numbered, CallRec
  <1>3. \A q \in wire' : q.share # None => q.share \in seen'
    BY <1>1 DEF AnswersInv
  <1>4. ASSUME NEW d \in Submitters
        PROVE  /\ \A q \in wire' : q.id = call'[d].id => q.share = call'[d].share
               /\ \A r \in replies' : r.id = call'[d].id /\ r.reply = "ok" =>
                                        verdict'[call'[d].share] = "ok"
               /\ call'[d].reply = "ok" => verdict'[call'[d].share] = "ok"
    <2>1. CASE d = c
      BY <1>1, <2>1, CallerFacts DEF Numbered
    <2>2. CASE d # c
      <3>1. d \in Callers /\ call'[d] = call[d] /\ call[d].id < next_id /\ call[d].id \in Nat
        BY <1>1, <2>2, CallerFacts DEF Numbered, CallRec
      <3> QED
        BY <1>1, <3>1, CallerFacts DEF AnswersInv
    <2> QED
      BY <2>1, <2>2
  <1> QED
    BY <1>2, <1>3, <1>4 DEF AnswersInv

\* Nothing that only takes requests and answers away can do harm.
LEMMA FewerAnswers ==
  ASSUME Numbered, CallsInv, AnswersInv,
         wire' \subseteq wire, replies' \subseteq replies,
         UNCHANGED <<call, next_id, seen, outcome, verdict>>
  PROVE  Numbered' /\ CallsInv' /\ AnswersInv'
  <1>1. Numbered'
    BY DEF Numbered
  <1>2. CallsInv'
    BY DEF CallsInv, InFlight
  <1>3. AnswersInv'
    BY DEF AnswersInv
  <1> QED
    BY <1>1, <1>2, <1>3

\* A submission that ends is settled, and no other is touched.
LEMMA EndEffect ==
  ASSUME TypeOK, CallsInv, NEW c \in Submitters, HangUp(c), UNCHANGED seen,
         NEW how \in {"accepted", "rejected", "lost"},
         InFlight(c) => Settle(call[c].share, how),
         ~InFlight(c) => UNCHANGED outcome
  PROVE  CallsInv'
  <1>1. /\ call' \in [Callers -> CallRec]
        /\ call'[c] = Idle
        /\ \A d \in Callers \ {c} : call'[d] = call[d]
    BY CallerFacts, HangUpTyped
  <1>2. \A d \in Callers : InFlight(d)' \/ call'[d] = Idle
    BY <1>1 DEF CallsInv, InFlight
  <1>3. \A d \in Submitters : InFlight(d)' => /\ d # c /\ InFlight(d)
                                              /\ call'[d] = call[d]
    BY <1>1, CallerFacts DEF InFlight
  <1>4. \A d \in Submitters : InFlight(d)' => call'[d].share \in seen'
    BY <1>3 DEF CallsInv
  <1>5. \A d, e \in Submitters :
          InFlight(d)' /\ call'[d].share = call'[e].share => d = e
    <2> SUFFICES ASSUME NEW d \in Submitters, NEW e \in Submitters,
                        InFlight(d)', call'[d].share = call'[e].share
                 PROVE  d = e
      OBVIOUS
    <2>1. call'[d].share \in Shares
      BY <1>3 DEF TypeOK
    <2>2. call'[e] = call[e]
      BY <1>1, <2>1, CallerFacts
    <2> QED
      BY <1>3, <2>2 DEF CallsInv
  <1>6. ASSUME NEW s \in seen', outcome'[s] = "none"
        PROVE  \E d \in Submitters : call'[d].share = s
    <2>1. s \in Shares /\ outcome[s] = "none" /\ (InFlight(c) => s # call[c].share)
      BY <1>6 DEF TypeOK, Settle
    <2>2. PICK d \in Submitters : call[d].share = s
      BY <1>6, <2>1 DEF CallsInv
    <2>3. d # c
      BY <2>1, <2>2, CallerFacts DEF CallsInv
    <2> QED
      BY <1>1, <2>2, <2>3, CallerFacts
  <1> QED
    BY <1>2, <1>4, <1>5, <1>6 DEF CallsInv

\* A share that is submitted for the first time, in flight or counted at once.
LEMMA SubmitEffect ==
  ASSUME FewShares, IInv, NEW c \in Submitters, NEW s \in Shares, SubmitShare(c, s)
  PROVE  Numbered' /\ CallsInv' /\ AnswersInv'
  <1> USE DEF IInv
  <1>1. /\ seen' = seen \cup {s} /\ s \notin seen /\ ~InFlight(c)
        /\ UNCHANGED <<replies, verdict>>
    BY Remembers DEF SubmitShare
  <1>2. /\ c \in Callers /\ c # "session" /\ s # None
        /\ session \in 0..MaxSessions /\ link \in BOOLEAN
    BY CallerFacts DEF TypeOK
  <1>3. CASE Send(c, s, session, link) /\ UNCHANGED countVars
    <2>1. Numbered' /\ AnswersInv'
      BY <1>1, <1>2, <1>3, SendEffect
    <2>2. /\ call'[c].share = s /\ call'[c].id # 0
          /\ \A d \in Callers \ {c} : call'[d] = call[d]
      BY <1>2, <1>3, SendTyped
    <2>3. \A d \in Callers : InFlight(d)' \/ call'[d] = Idle
      BY <2>2 DEF CallsInv, InFlight
    <2>4. \A d \in Submitters : d # c => /\ call'[d] = call[d]
                                         /\ InFlight(d)' = InFlight(d)
      BY <2>2, CallerFacts DEF InFlight
    <2>5. \A d \in Submitters : InFlight(d)' => call'[d].share \in seen'
      BY <1>1, <2>2, <2>4 DEF CallsInv
    <2>6. \A d \in Submitters : call'[d].share = s => d = c
      <3> SUFFICES ASSUME NEW d \in Submitters, call'[d].share = s, d # c
                   PROVE  FALSE
        OBVIOUS
      <3>1. call[d].share = s
        BY <2>4
      <3>2. call[d] # Idle
        BY <1>2, <3>1, CallerFacts
      <3> QED
        BY <1>1, <3>1, <3>2, CallerFacts DEF CallsInv
    <2>7. \A d, e \in Submitters :
            InFlight(d)' /\ call'[d].share = call'[e].share => d = e
      BY <2>2, <2>4, <2>6 DEF CallsInv
    <2>8. ASSUME NEW t \in seen', outcome'[t] = "none"
          PROVE  \E d \in Submitters : call'[d].share = t
      <3>1. CASE t = s
        BY <2>2, <3>1
      <3>2. CASE t # s
        <4>1. t \in seen /\ outcome[t] = "none"
          BY <1>1, <1>3, <2>8, <3>2 DEF countVars
        <4>2. PICK d \in Submitters : call[d].share = t
          BY <4>1 DEF CallsInv
        <4>3. d # c
          BY <1>1, <1>2, <4>1, <4>2, CallerFacts DEF CallsInv, TypeOK
        <4> QED
          BY <2>4, <4>2, <4>3
      <3> QED
        BY <3>1, <3>2
    <2> QED
      BY <2>1, <2>3, <2>5, <2>7, <2>8 DEF CallsInv
  <1>4. CASE SendFails(c) /\ CountReject(s, session)
    <2>1. UNCHANGED <<call, wire>> /\ next_id' = next_id + 1
      BY <1>4 DEF SendFails, Enter, FreshId
    <2>2. Numbered'
      BY <1>1, <2>1, CallerFacts DEF Numbered, CallRec
    <2>3. AnswersInv'
      BY <1>1, <2>1 DEF AnswersInv
    <2>4. outcome' = [outcome EXCEPT ![s] = "rejected"]
      BY <1>4 DEF CountReject, Settle
    <2>5. \A t \in seen' : outcome'[t] = "none" => t \in seen /\ outcome[t] = "none"
      BY <1>1, <2>4 DEF TypeOK
    <2> QED
      BY <1>1, <2>1, <2>2, <2>3, <2>5 DEF CallsInv, InFlight
  <1> QED
    BY <1>3, <1>4 DEF SubmitShare

\* An answer that is read goes to the call that waits for it, if any does.
LEMMA ReadEffect ==
  ASSUME IInv, NEW r \in replies, ReadReply(r)
  PROVE  Numbered' /\ CallsInv' /\ AnswersInv'
  <1> USE DEF IInv
  <1>1. /\ replies' \subseteq replies
        /\ UNCHANGED <<wire, verdict, seen, outcome, next_id>>
    BY DEF ReadReply, countVars
  <1>2. ASSUME NEW c \in Callers
        PROVE  /\ call'[c].id = call[c].id /\ call'[c].share = call[c].share
               /\ \/ call'[c] = call[c]
                  \/ r.id = call[c].id /\ call'[c].reply = r.reply
    BY CallerFacts DEF ReadReply, Matches, CallRec
  <1>3. Numbered'
    BY <1>1, <1>2 DEF Numbered
  <1>4. CallsInv'
    <2>1. \A c \in Callers : InFlight(c)' \/ call'[c] = Idle
      BY <1>2, CallerFacts DEF CallsInv, InFlight
    <2> QED
      BY <1>1, <1>2, <2>1, CallerFacts DEF CallsInv, InFlight
  <1>5. AnswersInv'
    BY <1>1, <1>2, CallerFacts DEF AnswersInv
  <1> QED
    BY <1>3, <1>4, <1>5

\* The pool's answer to a request says ok only if that is its verdict.
LEMMA JudgeEffect ==
  ASSUME IInv, NEW q \in wire, NEW v \in {"ok", "no"}, PoolAnswers(q, v)
  PROVE  Numbered' /\ CallsInv' /\ AnswersInv'
  <1> USE DEF IInv
  <1>1. /\ wire' = wire \ {q}
        /\ replies' = replies \cup {[id |-> q.id, reply |-> v]}
        /\ UNCHANGED <<call, seen, outcome, next_id>>
    BY DEF PoolAnswers, countVars
  <1>2. Numbered'
    BY <1>1 DEF Numbered
  <1>3. CallsInv'
    BY <1>1 DEF CallsInv, InFlight
  <1>4. \A s \in Shares : verdict[s] = "ok" => verdict'[s] = "ok"
    BY DEF PoolAnswers, TypeOK
  <1>5. q.share # None /\ v = "ok" => verdict'[q.share] = "ok"
    BY CallerFacts DEF PoolAnswers, TypeOK
  <1>6. ASSUME NEW c \in Submitters
        PROVE  /\ \A r \in replies' : r.id = call'[c].id /\ r.reply = "ok" =>
                                        verdict'[call'[c].share] = "ok"
               /\ call'[c].reply = "ok" => verdict'[call'[c].share] = "ok"
    <2>1. CASE InFlight(c)
      <3>1. call[c].share \in Shares
        BY <2>1 DEF TypeOK
      <3>2. q.id = call[c].id => q.share = call[c].share
        BY DEF AnswersInv
      <3> QED
        BY <1>1, <1>4, <1>5, <3>1, <3>2 DEF AnswersInv
    <2>2. CASE ~InFlight(c)
      <3>1. call[c] = Idle
        BY <2>2, CallerFacts DEF CallsInv
      <3> QED
        BY <1>1, <3>1, CallerFacts
    <2> QED
      BY <2>1, <2>2
  <1>7. AnswersInv'
    BY <1>1, <1>6 DEF AnswersInv
  <1> QED
    BY <1>2, <1>3, <1>7

\* The handshake's calls are not the submitters'.
LEMMA SessionCalls ==
  ASSUME TypeOK, Connect \/ Subscribed \/ Authorized \/ HandshakeFails
  PROVE  \A d \in Submitters : call'[d] = call[d]
  <1>1. CASE Connect
    <2>1. session \in 0..MaxSessions /\ session < MaxSessions
      BY <1>1 DEF Connect, TypeOK
    <2>2. session + 1 \in 0..MaxSessions
      BY <2>1
    <2>3. Send("session", None, session + 1, TRUE)
      BY <1>1, Zenon DEF Connect
    <2> QED
      BY <2>2, <2>3, CallerFacts, SendTyped
  <1>2. CASE Subscribed
    <2>1. session \in 0..MaxSessions /\ link \in BOOLEAN
      BY DEF TypeOK
    <2>2. Send("session", None, session, link) \/ HangUp("session")
      BY <1>2 DEF Subscribed
    <2> QED
      BY <2>1, <2>2, CallerFacts, SendTyped, HangUpTyped
  <1>3. CASE Authorized \/ HandshakeFails
    <2>1. HangUp("session")
      BY <1>3 DEF Authorized, HandshakeFails
    <2> QED
      BY <2>1, CallerFacts, HangUpTyped
  <1> QED
    BY <1>1, <1>2, <1>3

\* Every step keeps the invariant.
LEMMA InvStep == FewShares /\ IInv /\ [Next]_vars => IInv'
  <1> SUFFICES ASSUME FewShares, IInv, [Next]_vars PROVE IInv'
    OBVIOUS
  <1> USE DEF IInv
  <1>0. TypeOK'
    BY TypeStep
  <1>1. ASSUME NEW c \in Submitters, NEW s \in Shares, SubmitShare(c, s)
        PROVE  Numbered' /\ CallsInv' /\ AnswersInv'
    BY <1>1, SubmitEffect
  <1>2. ASSUME NEW c \in Submitters, SubmitterStep(c)
        PROVE  Numbered' /\ CallsInv' /\ AnswersInv'
    <2>1. /\ InFlight(c) /\ HangUp(c) /\ UNCHANGED <<wire, replies, verdict, seen, next_id>>
          /\ \/ Settle(call[c].share, "accepted")
             \/ Settle(call[c].share, "rejected")
      BY <1>2 DEF SubmitterStep, SubmitAnswered, SubmitTimesOut, CountAccept, CountReject
    <2>2. Numbered' /\ AnswersInv'
      BY <2>1, CallerFacts, HangUpEffect
    <2>3. CallsInv'
      BY <2>1, EndEffect
    <2> QED
      BY <2>2, <2>3
  <1>3. ASSUME NEW r \in replies, ReadReply(r)
        PROVE  Numbered' /\ CallsInv' /\ AnswersInv'
    BY <1>3, ReadEffect
  <1>4. ASSUME UNCHANGED <<seen, outcome>>,
               \A d \in Submitters : call'[d] = call[d],
               InFlight("session")' \/ call'["session"] = Idle
        PROVE  CallsInv'
    <2>1. \A d \in Callers : InFlight(d)' \/ call'[d] = Idle
      BY <1>4 DEF CallsInv, InFlight, Callers
    <2> QED
      BY <1>4, <2>1 DEF CallsInv, InFlight
  <1>5. CASE Connect
    <2>1. session \in 0..MaxSessions /\ session < MaxSessions
      BY <1>5 DEF Connect, TypeOK
    <2>2. session + 1 \in 0..MaxSessions
      BY <2>1
    <2>3. Send("session", None, session + 1, TRUE)
      BY <1>5, Zenon DEF Connect
    <2>4. UNCHANGED <<seen, outcome, replies, verdict>>
      BY <1>5 DEF Connect, countVars
    <2>5. Numbered' /\ AnswersInv'
      BY <2>2, <2>3, <2>4, CallerFacts, SendEffect
    <2>6. /\ call'["session"].id # 0
          /\ \A d \in Submitters : call'[d] = call[d]
      BY <2>2, <2>3, CallerFacts, SendTyped
    <2> QED
      BY <1>0, <1>4, <2>4, <2>5, <2>6 DEF InFlight
  <1>6. CASE Subscribed
    <2>1. UNCHANGED <<seen, outcome, replies, verdict>>
      BY <1>6 DEF Subscribed, countVars
    <2>2. CASE Send("session", None, session, link)
      <3>1. session \in 0..MaxSessions /\ link \in BOOLEAN
        BY DEF TypeOK
      <3>2. Numbered' /\ AnswersInv'
        BY <2>1, <2>2, <3>1, CallerFacts, SendEffect
      <3>3. /\ call'["session"].id # 0
            /\ \A d \in Submitters : call'[d] = call[d]
        BY <2>2, <3>1, CallerFacts, SendTyped
      <3> QED
        BY <1>0, <1>4, <2>1, <3>2, <3>3 DEF InFlight
    <2>3. CASE Enter("session") /\ HangUp("session") /\ UNCHANGED wire
      <3>1. next_id' \in Nat /\ next_id' >= next_id
        BY <2>3, CallerFacts DEF Enter, FreshId
      <3>2. Numbered' /\ AnswersInv'
        BY <2>1, <2>3, <3>1, CallerFacts, HangUpEffect
      <3>3. /\ call'["session"] = Idle
            /\ \A d \in Submitters : call'[d] = call[d]
        BY <2>3, CallerFacts, HangUpTyped
      <3> QED
        BY <1>0, <1>4, <2>1, <3>2, <3>3
    <2> QED
      BY <1>6, <2>2, <2>3 DEF Subscribed
  <1>7. CASE Authorized \/ HandshakeFails
    <2>1. /\ HangUp("session")
          /\ UNCHANGED <<wire, replies, verdict, seen, next_id, outcome>>
      BY <1>7 DEF Authorized, HandshakeFails, countVars
    <2>2. Numbered' /\ AnswersInv'
      BY <2>1, CallerFacts, HangUpEffect
    <2>3. /\ call'["session"] = Idle
          /\ \A d \in Submitters : call'[d] = call[d]
      BY <2>1, CallerFacts, HangUpTyped
    <2> QED
      BY <1>0, <1>4, <2>1, <2>2, <2>3
  <1>8. CASE EndSession
    <2>1. /\ HangUp("solver")
          /\ UNCHANGED <<wire, replies, verdict, seen, next_id>>
          /\ InFlight("solver") => Settle(call["solver"].share, "lost")
          /\ ~InFlight("solver") => UNCHANGED outcome
      BY <1>8 DEF EndSession
    <2>2. Numbered' /\ AnswersInv'
      BY <2>1, CallerFacts, HangUpEffect
    <2>3. CallsInv'
      BY <2>1, CallerFacts, EndEffect
    <2> QED
      BY <1>0, <2>2, <2>3
  <1>9. CASE TornDown \/ ReaderEnds \/ HealBounce \/ LinkLost \/ UNCHANGED vars
    <2>1. /\ wire' \subseteq wire /\ replies' \subseteq replies
          /\ UNCHANGED <<call, next_id, seen, outcome, verdict>>
      BY <1>9 DEF TornDown, ReaderEnds, HealBounce, LinkLost, vars, sessionVars,
                  rpcVars, countVars
    <2> QED
      BY <1>0, <2>1, FewerAnswers
  <1>10. ASSUME NEW q \in wire, NEW v \in {"ok", "no"}, PoolAnswers(q, v)
         PROVE  Numbered' /\ CallsInv' /\ AnswersInv'
    BY <1>10, JudgeEffect
  <1> QED
    BY <1>0, <1>1, <1>2, <1>3, <1>5, <1>6, <1>7, <1>8, <1>9, <1>10 DEF Next, SessionStep

-----------------------------------------------------------------------------
(***************************************************************************)
(* The refinement.                                                         *)
(***************************************************************************)
Status == [s \in Shares |-> StatusOf(s)]

\* One share changes its status and the others keep theirs.
LEMMA StatusBecomes ==
  ASSUME NEW s \in Shares, NEW from, NEW to, StatusOf(s) = from, StatusOf(s)' = to,
         \A t \in Shares \ {s} : StatusOf(t)' = StatusOf(t),
         UNCHANGED verdict
  PROVE  Ledger!Become(s, from, to)
  <1>1. Status[s] = from
    BY DEF Status
  <1>2. Status' = [Status EXCEPT ![s] = to]
    BY DEF Status
  <1> QED
    BY <1>1, <1>2 DEF Status, Ledger!Become

\* No share changes its status.
LEMMA StatusStays ==
  ASSUME UNCHANGED <<seen, outcome>>,
         \A d \in Submitters : call'[d].share = call[d].share
  PROVE  Status' = Status
  <1>1. ASSUME NEW s \in Shares
        PROVE  StatusOf(s)' = StatusOf(s)
    BY DEF StatusOf
  <1> QED
    BY <1>1 DEF Status

\* The share of a submission that ends is settled as it was counted.
LEMMA SettleStatus ==
  ASSUME TypeOK, CallsInv, NEW c \in Submitters, InFlight(c), HangUp(c),
         NEW how \in {"accepted", "rejected", "lost"},
         Settle(call[c].share, how), UNCHANGED <<seen, verdict>>
  PROVE  \E s \in Shares : s = call[c].share /\ Ledger!Become(s, "sent", how)
  <1>0. PICK s \in Shares : s = call[c].share
    BY DEF TypeOK
  <1>1. s \in seen
    BY <1>0 DEF CallsInv
  <1>2. /\ call'[c].share = None
        /\ \A d \in Submitters : d # c => call'[d] = call[d]
    BY CallerFacts, HangUpTyped
  <1>3. StatusOf(s) = "sent"
    BY <1>0, <1>1 DEF StatusOf
  <1>4. ~ \E d \in Submitters : call'[d].share = s
    BY <1>0, <1>2 DEF CallsInv
  <1>5. outcome'[s] = how /\ \A t \in Shares \ {s} : outcome'[t] = outcome[t]
    BY <1>0 DEF Settle, TypeOK
  <1>6. StatusOf(s)' = how
    BY <1>1, <1>4, <1>5 DEF StatusOf
  <1>7. ASSUME NEW t \in Shares \ {s}
        PROVE  StatusOf(t)' = StatusOf(t)
    <2>1. (\E d \in Submitters : call'[d].share = t) <=>
            (\E d \in Submitters : call[d].share = t)
      BY <1>0, <1>2
    <2> QED
      BY <1>5, <2>1 DEF StatusOf
  <1>8. Ledger!Become(s, "sent", how)
    BY <1>3, <1>6, <1>7, StatusBecomes
  <1> QED
    BY <1>0, <1>8

\* A share submitted for the first time is sent, or counted at once.
LEMMA SubmitStatus ==
  ASSUME FewShares, IInv, NEW c \in Submitters, NEW s \in Shares, SubmitShare(c, s)
  PROVE  Ledger!Submit(s) \/ Ledger!SubmitFails(s)
  <1> USE DEF IInv
  <1>1. /\ seen' = seen \cup {s} /\ s \notin seen /\ ~InFlight(c)
        /\ UNCHANGED verdict
    BY Remembers DEF SubmitShare
  <1>2. \A d \in Submitters : call[d].share # s
    BY <1>1, CallerFacts DEF CallsInv
  <1>3. StatusOf(s) = "new"
    BY <1>1 DEF StatusOf
  <1>4. CASE Send(c, s, session, link) /\ UNCHANGED countVars
    <2>1. session \in 0..MaxSessions /\ link \in BOOLEAN
      BY DEF TypeOK
    <2>2. /\ call'[c].share = s
          /\ \A d \in Submitters : d # c => call'[d] = call[d]
      BY <1>4, <2>1, CallerFacts, SendTyped
    <2>3. call[c].share = None
      BY <1>1, CallerFacts DEF CallsInv
    <2>4. StatusOf(s)' = "sent"
      BY <1>1, <2>2 DEF StatusOf
    <2>5. ASSUME NEW t \in Shares \ {s}
          PROVE  StatusOf(t)' = StatusOf(t)
      <3>1. (\E d \in Submitters : call'[d].share = t) <=>
              (\E d \in Submitters : call[d].share = t)
        BY <2>2, <2>3
      <3> QED
        BY <1>1, <1>4, <3>1 DEF StatusOf, countVars
    <2> QED
      BY <1>1, <1>3, <2>4, <2>5, StatusBecomes DEF Ledger!Submit
  <1>5. CASE SendFails(c) /\ CountReject(s, session)
    <2>1. UNCHANGED call /\ outcome' = [outcome EXCEPT ![s] = "rejected"]
      BY <1>5 DEF SendFails, CountReject, Settle
    <2>2. outcome'[s] = "rejected" /\ \A t \in Shares \ {s} : outcome'[t] = outcome[t]
      BY <2>1 DEF TypeOK
    <2>3. StatusOf(s)' = "rejected"
      BY <1>1, <1>2, <2>1, <2>2 DEF StatusOf
    <2>4. \A t \in Shares \ {s} : StatusOf(t)' = StatusOf(t)
      BY <1>1, <2>1, <2>2 DEF StatusOf
    <2> QED
      BY <1>1, <1>3, <2>3, <2>4, StatusBecomes DEF Ledger!SubmitFails
  <1> QED
    BY <1>4, <1>5 DEF SubmitShare

\* The end of a submission is a verdict, or the lack of one.
LEMMA SubmitterStatus ==
  ASSUME IInv, NEW c \in Submitters, SubmitterStep(c)
  PROVE  \E s \in Shares : Ledger!Accept(s) \/ Ledger!Reject(s)
  <1> USE DEF IInv
  <1>1. InFlight(c) /\ HangUp(c) /\ UNCHANGED <<verdict, seen>>
    BY DEF SubmitterStep, SubmitAnswered, SubmitTimesOut
  <1>2. CASE call[c].reply = "ok" /\ Settle(call[c].share, "accepted")
    <2>1. PICK s \in Shares : s = call[c].share /\ Ledger!Become(s, "sent", "accepted")
      BY <1>1, <1>2, SettleStatus
    <2>2. verdict[s] = "ok"
      BY <1>2, <2>1 DEF AnswersInv
    <2> QED
      BY <2>1, <2>2 DEF Ledger!Accept
  <1>3. CASE Settle(call[c].share, "rejected")
    <2>1. PICK s \in Shares : s = call[c].share /\ Ledger!Become(s, "sent", "rejected")
      BY <1>1, <1>3, SettleStatus
    <2> QED
      BY <2>1 DEF Ledger!Reject
  <1> QED
    BY <1>2, <1>3 DEF SubmitterStep, SubmitAnswered, SubmitTimesOut, CountAccept, CountReject

\* The pool judges a share that was sent, once.
LEMMA JudgeStatus ==
  ASSUME IInv, NEW q \in wire, NEW v \in {"ok", "no"}, PoolAnswers(q, v)
  PROVE  UNCHANGED verdict \/ \E s \in Shares : Ledger!Judge(s, v)
  <1> USE DEF IInv
  <1>1. ASSUME q.share # None, verdict[q.share] = "none",
               verdict' = [verdict EXCEPT ![q.share] = v]
        PROVE  \E s \in Shares : Ledger!Judge(s, v)
    <2>1. q.share \in Shares /\ q.share \in seen
      BY <1>1, CallerFacts DEF AnswersInv
    <2>2. outcome[q.share] # "new"
      BY <2>1 DEF TypeOK
    <2>3. StatusOf(q.share) # "new"
      BY <2>1, <2>2 DEF StatusOf
    <2>4. Status[q.share] # "new"
      BY <2>1, <2>3 DEF Status
    <2>5. Status' = Status
      BY StatusStays DEF PoolAnswers, countVars
    <2> QED
      BY <1>1, <2>1, <2>4, <2>5 DEF Ledger!Judge, Status
  <1> QED
    BY <1>1 DEF PoolAnswers

\* Every step of a session is a step of the ledger, or none.
LEMMA LedgerStep ==
  ASSUME FewShares, IInv, [Next]_vars
  PROVE  Ledger!Next \/ (Status' = Status /\ verdict' = verdict)
  <1> USE DEF IInv
  <1>1. ASSUME NEW c \in Submitters, NEW s \in Shares, SubmitShare(c, s)
        PROVE  Ledger!Next
    BY <1>1, SubmitStatus DEF Ledger!Next
  <1>2. ASSUME NEW c \in Submitters, SubmitterStep(c)
        PROVE  Ledger!Next
    BY <1>2, SubmitterStatus DEF Ledger!Next
  <1>3. ASSUME UNCHANGED <<seen, outcome, verdict>>,
               \A d \in Submitters : call'[d].share = call[d].share
        PROVE  Status' = Status /\ verdict' = verdict
    BY <1>3, StatusStays
  <1>4. ASSUME NEW r \in replies, ReadReply(r)
        PROVE  Status' = Status /\ verdict' = verdict
    <2>1. UNCHANGED <<seen, outcome, verdict>>
      BY <1>4 DEF ReadReply, countVars
    <2>2. \A d \in Submitters : call'[d].share = call[d].share
      BY <1>4, CallerFacts DEF ReadReply, CallRec
    <2> QED
      BY <1>3, <2>1, <2>2
  <1>5. CASE Connect \/ Subscribed \/ Authorized \/ HandshakeFails
    <2>1. UNCHANGED <<seen, outcome, verdict>>
      BY <1>5 DEF Connect, Subscribed, Authorized, HandshakeFails, countVars
    <2>2. \A d \in Submitters : call'[d].share = call[d].share
      BY <1>5, SessionCalls
    <2> QED
      BY <1>3, <2>1, <2>2
  <1>6. CASE EndSession
    <2>1. HangUp("solver") /\ UNCHANGED <<seen, verdict>>
      BY <1>6 DEF EndSession
    <2>2. CASE InFlight("solver")
      <3>1. Settle(call["solver"].share, "lost")
        BY <1>6, <2>2 DEF EndSession
      <3>2. \E s \in Shares : Ledger!Lose(s)
        BY <2>1, <2>2, <3>1, CallerFacts, SettleStatus DEF Ledger!Lose
      <3> QED
        BY <3>2 DEF Ledger!Next
    <2>3. CASE ~InFlight("solver")
      <3>1. UNCHANGED outcome
        BY <1>6, <2>3 DEF EndSession
      <3>2. \A d \in Submitters : call'[d].share = call[d].share
        BY <2>1, <2>3, CallerFacts, HangUpTyped DEF CallsInv
      <3> QED
        BY <1>3, <2>1, <3>1, <3>2
    <2> QED
      BY <2>2, <2>3
  <1>7. CASE TornDown \/ ReaderEnds \/ HealBounce \/ LinkLost \/ UNCHANGED vars
    <2>1. UNCHANGED <<call, seen, outcome, verdict>>
      BY <1>7 DEF TornDown, ReaderEnds, HealBounce, LinkLost, vars, sessionVars,
                  rpcVars, countVars
    <2> QED
      BY <1>3, <2>1
  <1>8. ASSUME NEW q \in wire, NEW v \in {"ok", "no"}, PoolAnswers(q, v)
         PROVE  Ledger!Next \/ (Status' = Status /\ verdict' = verdict)
    <2>1. CASE UNCHANGED verdict
      BY <1>3, <1>8, <2>1 DEF PoolAnswers, countVars
    <2>2. CASE \E s \in Shares : Ledger!Judge(s, v)
      <3>1. v \in Ledger!Verdict \ {"none"}
        BY DEF Ledger!Verdict
      <3> QED
        BY <2>2, <3>1 DEF Ledger!Next
    <2> QED
      BY <1>8, <2>1, <2>2, JudgeStatus
  <1> QED
    BY <1>1, <1>2, <1>4, <1>5, <1>6, <1>7, <1>8 DEF Next, SessionStep

\* Before the first session the ledger is empty and the invariant holds.
LEMMA InitOK == Init => IInv /\ Ledger!Init
  <1> SUFFICES ASSUME Init PROVE IInv /\ Ledger!Init
    OBVIOUS
  <1>1. TypeOK
    BY InitTyped
  <1>2. \A c \in Callers : call[c] = Idle
    BY DEF Init
  <1>3. Numbered
    BY <1>1, <1>2, CallerFacts DEF Init, Numbered
  <1>4. CallsInv /\ AnswersInv
    BY <1>1, <1>2, CallerFacts DEF Init, CallsInv, AnswersInv, InFlight
  <1>5. Ledger!Init
    BY DEF Init, Ledger!Init, StatusOf
  <1> QED
    BY <1>1, <1>3, <1>4, <1>5 DEF IInv

\* The client implements the ledger, whatever the pool, the network and the
\* order of events do, as long as the dedupe set is never emptied.
THEOREM Implements == ASSUME FewShares PROVE Spec => ImplementsLedger
  <1>1. IInv /\ [Next]_vars => IInv'
    BY InvStep
  <1>2. IInv /\ [Next]_vars => [Ledger!Next]_<<Status, verdict>>
    BY LedgerStep
  <1> QED
    BY <1>1, <1>2, InitOK, PTL DEF Spec, ImplementsLedger, Ledger!Spec, Status

-----------------------------------------------------------------------------
(***************************************************************************)
(* The accounting.                                                         *)
(***************************************************************************)
InFlights == {c \in Submitters : InFlight(c)}
Lost == {s \in Shares : outcome[s] = "lost"}
Finite == FewShares /\ IsFiniteSet(Tasks)

\* The sets that are counted are finite.
LEMMA FiniteSets ==
  ASSUME Finite, TypeOK
  PROVE  /\ IsFiniteSet(seen) /\ IsFiniteSet(InFlights) /\ IsFiniteSet(Lost)
         /\ Cardinality(seen) \in Nat /\ Cardinality(InFlights) \in Nat
         /\ Cardinality(Lost) \in Nat
  <1>1. IsFiniteSet(Submitters)
    BY FS_Singleton, FS_Union DEF Finite, Submitters
  <1>2. InFlights \subseteq Submitters /\ Lost \subseteq Shares /\ seen \subseteq Shares
    BY DEF InFlights, Lost, TypeOK
  <1>3. IsFiniteSet(seen) /\ IsFiniteSet(InFlights) /\ IsFiniteSet(Lost)
    BY <1>1, <1>2, FS_Subset DEF Finite, FewShares
  <1> QED
    BY <1>3, FS_CardinalityType

\* Unsettled, for a step that neither submits nor settles anything.
LEMMA UnsettledStays ==
  ASSUME Unsettled, CallsInv, TypeOK, UNCHANGED <<seen, outcome>>,
         \A d \in Submitters : call'[d].share \in {call[d].share, None}
  PROVE  Unsettled'
  BY DEF Unsettled

\* A share submitted for the first time is one more seen, and one more in
\* flight or rejected.
LEMMA SubmitBalance ==
  ASSUME Finite, IInv, Unsettled, CountersBalance,
         NEW c \in Submitters, NEW s \in Shares, SubmitShare(c, s)
  PROVE  Unsettled' /\ CountersBalance'
  <1> USE DEF IInv
  <1>1. /\ seen' = seen \cup {s} /\ s \notin seen /\ ~InFlight(c)
        /\ call[c] = Idle /\ outcome[s] = "none"
    BY Remembers, CallerFacts DEF SubmitShare, Finite, Unsettled, CallsInv
  <1>2. Cardinality(seen') = Cardinality(seen) + 1
    BY <1>1, FiniteSets, FS_AddElement
  <1>3. CASE Send(c, s, session, link) /\ UNCHANGED countVars
    <2>1. session \in 0..MaxSessions /\ link \in BOOLEAN
      BY DEF TypeOK
    <2>2. /\ call'[c].share = s /\ call'[c].id # 0
          /\ \A d \in Submitters : d # c => call'[d] = call[d]
      BY <1>3, <2>1, CallerFacts, SendTyped
    <2>3. InFlights' = InFlights \cup {c} /\ c \notin InFlights
      BY <1>1, <2>2 DEF InFlights, InFlight
    <2>4. Cardinality(InFlights') = Cardinality(InFlights) + 1
      BY <2>3, FiniteSets, FS_AddElement
    <2>5. Lost' = Lost /\ UNCHANGED <<accepted, rejected, outcome>>
      BY <1>3 DEF Lost, countVars
    <2>6. Unsettled'
      <3> SUFFICES ASSUME NEW t \in Shares,
                          t \notin seen' \/ \E d \in Submitters : call'[d].share = t
                   PROVE  outcome[t] = "none"
        BY <2>5 DEF Unsettled
      <3>1. CASE t = s
        BY <1>1, <3>1
      <3>2. CASE t # s
        BY <1>1, <2>2, <3>2 DEF Unsettled
      <3> QED
        BY <3>1, <3>2
    <2> QED
      BY <1>2, <2>4, <2>5, <2>6, FiniteSets
         DEF CountersBalance, InFlights, Lost, TypeOK
  <1>4. CASE SendFails(c) /\ CountReject(s, session)
    <2>1. /\ UNCHANGED call /\ outcome' = [outcome EXCEPT ![s] = "rejected"]
          /\ rejected' = rejected + 1 /\ accepted' = accepted
      BY <1>4 DEF SendFails, CountReject, Settle
    <2>2. \A t \in Shares : outcome'[t] = IF t = s THEN "rejected" ELSE outcome[t]
      BY <2>1 DEF TypeOK
    <2>3. Lost' = Lost /\ InFlights' = InFlights
      BY <1>1, <2>1, <2>2 DEF Lost, InFlights, InFlight
    <2>4. \A d \in Submitters : call[d].share # s
      BY <1>1, CallerFacts DEF CallsInv
    <2>5. Unsettled'
      BY <1>1, <2>1, <2>2, <2>4 DEF Unsettled
    <2>6. Cardinality(seen) =
            accepted + rejected + Cardinality(InFlights) + Cardinality(Lost)
      BY DEF CountersBalance, InFlights, Lost
    <2>7. accepted \in Nat /\ rejected \in Nat
      BY DEF TypeOK
    <2>8. Cardinality(seen') =
            accepted' + rejected' + Cardinality(InFlights') + Cardinality(Lost')
      BY <1>2, <2>1, <2>3, <2>6, <2>7, FiniteSets
    <2> QED
      BY <2>5, <2>8 DEF CountersBalance, InFlights, Lost
  <1> QED
    BY <1>3, <1>4 DEF SubmitShare

\* A submission that ends is one less in flight, and one more in the count
\* it is settled in.
LEMMA EndBalance ==
  ASSUME Finite, IInv, Unsettled, NEW c \in Submitters, InFlight(c), HangUp(c),
         NEW how \in {"accepted", "rejected", "lost"},
         Settle(call[c].share, how), UNCHANGED seen
  PROVE  /\ Unsettled'
         /\ Cardinality(InFlights') = Cardinality(InFlights) - 1
         /\ Cardinality(Lost') = Cardinality(Lost) + (IF how = "lost" THEN 1 ELSE 0)
  <1> USE DEF IInv
  <1>1. PICK s \in Shares : s = call[c].share
    BY DEF TypeOK
  <1>2. /\ call'[c] = Idle
        /\ \A d \in Submitters : d # c => call'[d] = call[d]
    BY CallerFacts, HangUpTyped
  <1>3. InFlights' = InFlights \ {c} /\ c \in InFlights
    BY <1>2, CallerFacts DEF InFlights, InFlight
  <1>4. Cardinality(InFlights') = Cardinality(InFlights) - 1
    BY <1>3, FiniteSets, FS_RemoveElement
  <1>5. outcome[s] = "none"
    BY <1>1 DEF Unsettled
  <1>6. \A t \in Shares : outcome'[t] = IF t = s THEN how ELSE outcome[t]
    BY <1>1 DEF Settle, TypeOK
  <1>7. Cardinality(Lost') = Cardinality(Lost) + (IF how = "lost" THEN 1 ELSE 0)
    <2>1. CASE how = "lost"
      <3>1. Lost' = Lost \cup {s} /\ s \notin Lost
        BY <1>5, <1>6, <2>1 DEF Lost
      <3> QED
        BY <2>1, <3>1, FiniteSets, FS_AddElement
    <2>2. CASE how # "lost"
      <3>1. Lost' = Lost
        BY <1>5, <1>6, <2>2 DEF Lost
      <3> QED
        BY <2>2, <3>1, FiniteSets
    <2> QED
      BY <2>1, <2>2
  <1>8. ASSUME NEW t \in Shares,
               t \notin seen' \/ \E d \in Submitters : call'[d].share = t
        PROVE  outcome'[t] = "none"
    <2>1. s \in seen
      BY <1>1 DEF CallsInv
    <2>2. t # s
      BY <1>1, <1>2, <1>8, <2>1, CallerFacts DEF CallsInv
    <2>3. t \notin seen \/ \E d \in Submitters : call[d].share = t
      BY <1>2, <1>8, CallerFacts
    <2> QED
      BY <1>6, <2>2, <2>3 DEF Unsettled
  <1>9. Unsettled'
    BY <1>8 DEF Unsettled
  <1> QED
    BY <1>4, <1>7, <1>9

\* Nothing that is counted changes.
LEMMA BalanceStays ==
  ASSUME IInv, Unsettled, CountersBalance,
         UNCHANGED <<seen, outcome, accepted, rejected>>,
         \A d \in Submitters : /\ call'[d].id = call[d].id
                               /\ call'[d].share = call[d].share
  PROVE  Unsettled' /\ CountersBalance'
  <1>1. Unsettled'
    BY DEF Unsettled
  <1>2. {d \in Submitters : InFlight(d)}' = {d \in Submitters : InFlight(d)}
    BY DEF InFlight
  <1>3. {s \in Shares : outcome[s] = "lost"}' = {s \in Shares : outcome[s] = "lost"}
    OBVIOUS
  <1>4. CountersBalance'
    BY <1>2, <1>3 DEF CountersBalance
  <1> QED
    BY <1>1, <1>4

\* Every step keeps the balance.
LEMMA BalanceStep ==
  ASSUME Finite, IInv, Unsettled, CountersBalance, [Next]_vars
  PROVE  Unsettled' /\ CountersBalance'
  <1> USE DEF IInv
  <1>0. /\ Cardinality(seen) =
             accepted + rejected + Cardinality(InFlights) + Cardinality(Lost)
        /\ accepted \in Nat /\ rejected \in Nat
    BY DEF CountersBalance, InFlights, Lost, TypeOK
  <1>1. ASSUME NEW c \in Submitters, NEW s \in Shares, SubmitShare(c, s)
        PROVE  Unsettled' /\ CountersBalance'
    BY <1>1, SubmitBalance
  <1>2. ASSUME NEW c \in Submitters, SubmitterStep(c)
        PROVE  Unsettled' /\ CountersBalance'
    <2>1. /\ InFlight(c) /\ HangUp(c) /\ UNCHANGED seen
          /\ CountAccept(call[c].share) \/ CountReject(call[c].share, call[c].of)
      BY <1>2 DEF SubmitterStep, SubmitAnswered, SubmitTimesOut
    <2>2. PICK how \in {"accepted", "rejected"} : Settle(call[c].share, how)
      BY <2>1 DEF CountAccept, CountReject
    <2>3. accepted' + rejected' = accepted + rejected + 1
      BY <1>0, <2>1 DEF CountAccept, CountReject
    <2>4. /\ Unsettled'
          /\ Cardinality(InFlights') = Cardinality(InFlights) - 1
          /\ Cardinality(Lost') = Cardinality(Lost)
      BY <2>1, <2>2, FiniteSets, EndBalance
    <2>5. Cardinality(seen') =
            accepted' + rejected' + Cardinality(InFlights') + Cardinality(Lost')
      BY <1>0, <2>1, <2>3, <2>4, FiniteSets
    <2> QED
      BY <2>4, <2>5 DEF CountersBalance, InFlights, Lost
  <1>3. CASE EndSession
    <2>1. HangUp("solver") /\ UNCHANGED <<seen, accepted, rejected>>
      BY <1>3 DEF EndSession
    <2>2. CASE InFlight("solver")
      <3>1. Settle(call["solver"].share, "lost")
        BY <1>3, <2>2 DEF EndSession
      <3>2. /\ Unsettled'
            /\ Cardinality(InFlights') = Cardinality(InFlights) - 1
            /\ Cardinality(Lost') = Cardinality(Lost) + 1
        BY <2>1, <2>2, <3>1, CallerFacts, EndBalance
      <3>3. Cardinality(seen') =
              accepted' + rejected' + Cardinality(InFlights') + Cardinality(Lost')
        BY <1>0, <2>1, <3>2, FiniteSets
      <3> QED
        BY <3>2, <3>3 DEF CountersBalance, InFlights, Lost
    <2>3. CASE ~InFlight("solver")
      <3>1. UNCHANGED outcome
        BY <1>3, <2>3 DEF EndSession
      <3>2. \A d \in Submitters : call'[d] = call[d]
        BY <2>1, <2>3, CallerFacts, HangUpTyped DEF CallsInv
      <3> QED
        BY <2>1, <3>1, <3>2, BalanceStays
    <2> QED
      BY <2>2, <2>3
  <1>4. ASSUME NEW r \in replies, ReadReply(r)
        PROVE  Unsettled' /\ CountersBalance'
    <2>1. \A d \in Submitters : /\ call'[d].id = call[d].id
                                /\ call'[d].share = call[d].share
      BY <1>4, CallerFacts DEF ReadReply, CallRec
    <2> QED
      BY <1>4, <2>1, BalanceStays DEF ReadReply, countVars
  <1>5. CASE Connect \/ Subscribed \/ Authorized \/ HandshakeFails
    <2>1. UNCHANGED <<seen, outcome, accepted, rejected>>
      BY <1>5 DEF Connect, Subscribed, Authorized, HandshakeFails, countVars
    <2>2. \A d \in Submitters : call'[d] = call[d]
      BY <1>5, SessionCalls
    <2> QED
      BY <2>1, <2>2, BalanceStays
  <1>6. CASE TornDown \/ ReaderEnds \/ HealBounce \/ LinkLost \/ UNCHANGED vars
    <2>1. UNCHANGED <<call, seen, outcome, accepted, rejected>>
      BY <1>6 DEF TornDown, ReaderEnds, HealBounce, LinkLost, vars, sessionVars,
                  rpcVars, countVars
    <2> QED
      BY <2>1, BalanceStays
  <1>7. ASSUME NEW q \in wire, NEW v \in {"ok", "no"}, PoolAnswers(q, v)
        PROVE  Unsettled' /\ CountersBalance'
    BY <1>7, BalanceStays DEF PoolAnswers, countVars
  <1> QED
    BY <1>1, <1>2, <1>3, <1>4, <1>5, <1>6, <1>7 DEF Next, SessionStep

\* The counters add up: no share is counted twice or dropped from the count,
\* whatever ends its submission.
THEOREM Balance == ASSUME Finite PROVE Spec => []CountersBalance
  <1>1. Init => IInv /\ Unsettled /\ CountersBalance
    <2> SUFFICES ASSUME Init PROVE Unsettled /\ CountersBalance
      BY InitOK
    <2>1. Unsettled
      BY DEF Init, Unsettled
    <2>2. \A c \in Submitters : ~InFlight(c)
      BY DEF Init, InFlight, Idle, Callers
    <2>3. {c \in Submitters : InFlight(c)} = {}
      BY <2>2
    <2>4. {s \in Shares : outcome[s] = "lost"} = {}
      BY DEF Init
    <2> QED
      BY <2>1, <2>3, <2>4, FS_EmptySet DEF Init, CountersBalance
  <1>2. IInv /\ [Next]_vars => IInv'
    BY InvStep DEF Finite
  <1>3. IInv /\ Unsettled /\ CountersBalance /\ [Next]_vars =>
          Unsettled' /\ CountersBalance'
    BY BalanceStep
  <1> QED
    BY <1>1, <1>2, <1>3, PTL DEF Spec

-----------------------------------------------------------------------------
(***************************************************************************)
(* Every answer finds the future that waits for it.                        *)
(***************************************************************************)

\* What is typed about the calls and the sessions.
LEMMA WaiterFacts ==
  ASSUME TypeOK
  PROVE  /\ Submitters \subseteq Callers /\ "session" \in Callers /\ "solver" \in Callers
         /\ call \in [Callers -> CallRec]
         /\ \A c \in Callers : call[c].id \in Nat /\ call[c].of \in Nat
         /\ next_id \in Nat \ {0} /\ session \in Nat
         /\ Idle.id = 0 /\ Idle.of = 0
BY CallerFacts DEF TypeOK, CallRec, Idle, Callers, Submitters

\* A call that ends takes no other's future with it.
LEMMA WaiterHangsUp ==
  ASSUME TypeOK, WaitersInv, NEW c \in Callers, HangUp(c),
         UNCHANGED session, phase' # "backoff" => phase # "backoff",
         next_id' \in Nat, next_id' >= next_id,
         phase' # "backoff" => {p \in pending : p.id # call[c].id} \subseteq pending'
  PROVE  WaitersInv'
<1>1. /\ call'[c] = Idle
      /\ \A d \in Callers \ {c} : call'[d] = call[d]
  BY HangUpTyped
<1>2. \A d \in Callers : InFlight(d)' => d # c /\ InFlight(d) /\ call'[d] = call[d]
  BY <1>1, WaiterFacts DEF InFlight
<1>3. WaiterEntered'
  <2> SUFFICES ASSUME NEW d \in Callers, InFlight(d)', call'[d].reply = "none",
                      call'[d].of = session', phase' # "backoff"
               PROVE  [id |-> call'[d].id, caller |-> d] \in pending'
    BY DEF WaiterEntered
  <2>1. d # c /\ InFlight(d) /\ call'[d] = call[d]
    BY <1>2
  <2>2. [id |-> call[d].id, caller |-> d] \in pending
    BY <2>1 DEF WaitersInv, WaiterEntered
  <2>3. call[d].id # call[c].id
    BY <2>1 DEF WaitersInv
  <2> QED
    BY <2>1, <2>2, <2>3
<1>4. \A d \in Callers : call'[d].id < next_id' /\ call'[d].of <= session'
  <2>1. \A d \in Callers \ {c} : call[d].id < next_id' /\ call[d].of <= session'
    BY WaiterFacts DEF WaitersInv
  <2> QED
    BY <1>1, <2>1, WaiterFacts DEF WaitersInv
<1>5. \A d, e \in Callers : InFlight(d)' /\ call'[d].id = call'[e].id => d = e
  BY <1>1, <1>2, WaiterFacts DEF WaitersInv, InFlight
<1> QED
  BY <1>3, <1>4, <1>5 DEF WaitersInv

\* A call that begins enters its future under an id no other call has.
LEMMA WaiterSends ==
  ASSUME TypeOK, WaitersInv, NEW c \in Callers, NEW s \in Shares \cup {None},
         NEW alive \in BOOLEAN, session' \in 0..MaxSessions,
         Send(c, s, session', alive),
         \/ session' = session /\ phase # "backoff"
         \/ session' = session + 1
  PROVE  WaitersInv'
<1>1. /\ next_id' = next_id + 1
      /\ pending' = pending \cup {[id |-> next_id, caller |-> c]}
      /\ call'[c] = [id |-> next_id, share |-> s, reply |-> "none", of |-> session']
      /\ \A d \in Callers \ {c} : call'[d] = call[d]
  BY WaiterFacts DEF Send, Enter, FreshId
<1>2. WaiterEntered'
  <2> SUFFICES ASSUME NEW d \in Callers, InFlight(d)', call'[d].reply = "none",
                      call'[d].of = session', phase' # "backoff"
               PROVE  [id |-> call'[d].id, caller |-> d] \in pending'
    BY DEF WaiterEntered
  <2>1. CASE d = c
    BY <1>1, <2>1
  <2>2. CASE d # c
    <3>1. call'[d] = call[d] /\ call[d].of <= session /\ InFlight(d)
      BY <1>1, <2>2 DEF WaitersInv, InFlight
    <3>2. session' = session /\ phase # "backoff"
      BY <3>1, WaiterFacts
    <3> QED
      BY <1>1, <3>1, <3>2 DEF WaitersInv, WaiterEntered
  <2> QED
    BY <2>1, <2>2
<1>3. \A d \in Callers : call'[d].id < next_id' /\ call'[d].of <= session'
  <2>1. \A d \in Callers \ {c} : call'[d].id < next_id' /\ call'[d].of <= session'
    BY <1>1, WaiterFacts DEF WaitersInv
  <2> QED
    BY <1>1, <2>1, WaiterFacts
<1>4. \A d, e \in Callers : InFlight(d)' /\ call'[d].id = call'[e].id => d = e
  <2>1. \A d \in Callers \ {c} : call'[d].id = call[d].id /\ call[d].id < next_id
    BY <1>1 DEF WaitersInv
  <2>2. call'[c].id = next_id
    BY <1>1
  <2> QED
    BY <2>1, <2>2, WaiterFacts DEF WaitersInv, InFlight
<1> QED
  BY <1>2, <1>3, <1>4 DEF WaitersInv

\* A write that raises leaves a future nobody waits for.
LEMMA WaitersStay ==
  ASSUME TypeOK, WaitersInv, UNCHANGED <<call, session>>, next_id' \in Nat,
         next_id' >= next_id, phase' # "backoff" => phase # "backoff",
         phase' # "backoff" => pending \subseteq pending'
  PROVE  WaitersInv'
<1>1. \A c \in Callers : call[c].id < next_id'
  BY WaiterFacts DEF WaitersInv
<1> QED
  BY <1>1 DEF WaitersInv, WaiterEntered, InFlight

\* Every step keeps the futures where the answers will look for them.
LEMMA WaitersStep ==
  ASSUME TypeOK, WaitersInv, [Next]_vars
  PROVE  WaitersInv'
<1>n. next_id \in Nat /\ next_id + 1 \in Nat /\ next_id + 1 >= next_id /\ next_id >= next_id
  BY WaiterFacts
<1>t. session \in 0..MaxSessions /\ link \in BOOLEAN
  BY DEF TypeOK
<1>s. Submitters \subseteq Callers /\ "session" \in Callers /\ "solver" \in Callers
  BY WaiterFacts
<1>1. ASSUME NEW c \in Submitters, NEW s \in Shares, SubmitShare(c, s) PROVE WaitersInv'
  <2>1. session' = session /\ phase # "backoff" /\ phase' = phase
    BY <1>1 DEF SubmitShare, sessionVars
  <2>2. CASE Send(c, s, session, link)
    BY <1>t, <1>s, <2>1, <2>2, WaiterSends
  <2>3. CASE SendFails(c)
    BY <1>n, <2>1, <2>3, WaitersStay DEF SendFails, Enter, FreshId
  <2> QED
    BY <1>1, <2>2, <2>3 DEF SubmitShare
<1>2. ASSUME NEW c \in Submitters, SubmitAnswered(c) \/ SubmitTimesOut(c)
      PROVE  WaitersInv'
  <2>1. UNCHANGED <<session, phase, next_id>> /\ HangUp(c)
    BY <1>2 DEF SubmitAnswered, SubmitTimesOut, sessionVars
  <2>2. {p \in pending : p.id # call[c].id} \subseteq pending'
    BY <1>2 DEF SubmitAnswered, SubmitTimesOut, Forget
  <2> QED
    BY <1>n, <1>s, <2>1, <2>2, WaiterHangsUp
<1>3. ASSUME NEW r \in replies, ReadReply(r) PROVE WaitersInv'
  <2>1. /\ UNCHANGED <<session, phase, next_id>>
        /\ pending' = {p \in pending : p.id # r.id}
    BY <1>3 DEF ReadReply, sessionVars
  <2>2. ASSUME NEW c \in Callers
        PROVE  /\ call'[c].id = call[c].id /\ call'[c].of = call[c].of
               /\ call'[c].reply = "none" => call[c].reply = "none" /\ ~Matches(r, c)
    <3>1. r.reply # "none"
      BY DEF TypeOK
    <3>2. call'[c] = IF Matches(r, c) /\ call[c].reply = "none"
                       THEN [call[c] EXCEPT !.reply = r.reply] ELSE call[c]
      BY <1>3 DEF ReadReply
    <3>3. call[c] \in CallRec
      BY WaiterFacts
    <3> QED
      BY <3>1, <3>2, <3>3 DEF CallRec
  <2>3. WaiterEntered'
    <3> SUFFICES ASSUME NEW c \in Callers, InFlight(c)', call'[c].reply = "none",
                        call'[c].of = session', phase' # "backoff"
                 PROVE  [id |-> call'[c].id, caller |-> c] \in pending'
      BY DEF WaiterEntered
    <3>1. InFlight(c) /\ call[c].reply = "none" /\ call[c].of = session
      BY <2>1, <2>2 DEF InFlight
    <3>2. [id |-> call[c].id, caller |-> c] \in pending
      BY <2>1, <3>1 DEF WaitersInv, WaiterEntered
    <3>3. call[c].id # r.id
      BY <2>2, <3>2 DEF Matches
    <3> QED
      BY <2>1, <2>2, <3>2, <3>3
  <2> QED
    BY <2>1, <2>2, <2>3 DEF WaitersInv, InFlight
<1>4. CASE Connect
  <2>1. session' = session + 1 /\ session' \in 0..MaxSessions
    BY <1>4, <1>t DEF Connect
  <2> QED
    BY <1>4, <1>s, <2>1, WaiterSends DEF Connect
<1>5. CASE Subscribed
  <2>1. session' = session /\ phase # "backoff" /\ phase' # "backoff"
    BY <1>5 DEF Subscribed, BeginTeardown
  <2>2. CASE Send("session", None, session, link)
    BY <1>t, <1>s, <2>1, <2>2, WaiterSends
  <2>3. CASE Enter("session") /\ HangUp("session")
    BY <1>n, <1>s, <2>1, <2>3, WaiterHangsUp DEF Enter, FreshId
  <2> QED
    BY <1>5, <2>2, <2>3 DEF Subscribed
<1>6. CASE Authorized \/ HandshakeFails
  BY <1>n, <1>s, <1>6, WaiterHangsUp DEF Authorized, HandshakeFails, Forget, BeginTeardown
<1>7. CASE EndSession
  BY <1>n, <1>s, <1>7, WaiterHangsUp DEF EndSession, BeginTeardown
<1>8. CASE TornDown \/ ReaderEnds \/ HealBounce \/ LinkLost
  BY <1>n, <1>8, WaitersStay DEF TornDown, ReaderEnds, HealBounce, LinkLost, sessionVars, rpcVars
<1>9. ASSUME NEW q \in wire, NEW v \in {"ok", "no"}, PoolAnswers(q, v) PROVE WaitersInv'
  BY <1>n, <1>9, WaitersStay DEF PoolAnswers, sessionVars
<1>10. CASE UNCHANGED vars
  BY <1>n, <1>10, WaitersStay DEF vars, sessionVars, rpcVars
<1> QED
  BY <1>1, <1>2, <1>3, <1>4, <1>5, <1>6, <1>7, <1>8, <1>9, <1>10
  DEF Next, SessionStep, SubmitterStep

\* No timeout, teardown or late answer of an earlier session ever takes away
\* the future of a call of this one, for any number of shares, however small
\* the dedupe set.
THEOREM Entered == Spec => []WaiterEntered
<1>1. Init => WaitersInv
  BY DEF Init, WaitersInv, WaiterEntered, InFlight, Idle
<1>2. TypeOK /\ WaitersInv /\ [Next]_vars => WaitersInv'
  BY WaitersStep
<1>3. WaitersInv => WaiterEntered
  BY DEF WaitersInv
<1> QED
  BY <1>1, <1>2, <1>3, TypeCorrect, PTL DEF Spec
=============================================================================
