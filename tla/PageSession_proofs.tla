-------------------------- MODULE PageSession_proofs --------------------------
(***************************************************************************)
(* The page never leaves a session open behind its back, and the question  *)
(* on the sheet is always the attempt's own: for any number of sessions.   *)
(* The screen shows what feeds it, an ending withdraws no other attempt's  *)
(* question, and the automatic reconnect dials through a usable instance.  *)
(*                                                                         *)
(* Every handler is a composition of a few operators on the page, so the   *)
(* proof is about those first: each keeps the page well formed (Whole) and *)
(* none of them starts or renames an attempt that has dialed (Follows).    *)
(***************************************************************************)
EXTENDS PageSession, TLAPS

Sheets == {"none", "hostkey", "prompts", "repair", "scan", "connect", "session", "ended",
           "ceremony"}
Dialed == {"settle", "hostkey", "rejected", "cred", "prompts", "poll", "cancelled", "start"}
Attempts == [pc : Dialed \cup {"idle", "load"}, sid : {0} \cup Sessions,
             from : {"none", "card", "sheet", "repair", "redial", "auto"},
             with : [method : Methods \cup {"none"}, command : BOOLEAN]]
Pages == [sheet : Sheets, screen : {"none", "home", "prefs"}, live : BOOLEAN,
          scan : {"off", "starting", "on", "late"}, resume : {"pending", "armed", "spent"},
          micro : SUBSET {"home", "scanned"}, closing : BOOLEAN, att : Attempts]

\* The sheet's question and the attempt's wait, of one page.
Owned(p) ==
  /\ p.sheet = "hostkey" <=> p.att.pc = "hostkey"
  /\ p.sheet = "prompts" <=> p.att.pc = "prompts"
Whole(p) == p \in Pages /\ Owned(p)

\* An attempt that has dialed in q is the one that had dialed in p.
Follows(p, q) == q.att.pc \in Dialed => p.att.pc \in Dialed /\ q.att.sid = p.att.sid

PTypeOK ==
  /\ sess \in [Sessions -> {"none", "detached", "closed"} \cup Open \cup Ended]
  /\ current \in {0} \cup Sessions
  /\ pinned \in BOOLEAN
  /\ last \in [method : Methods \cup {"none"}, command : BOOLEAN]

\* The session an attempt has dialed is the page's, unless the page has let go of it.
AttemptOwnsCurrent ==
  page.att.pc \in Dialed => page.att.sid \in Sessions /\ current \in {0, page.att.sid}

PInd == PTypeOK /\ Whole(page) /\ AttemptOwnsCurrent /\ NoOrphanSession
-----------------------------------------------------------------------------
(* The operators on the page. *)

\* settleSheet(null) takes the ask off the screen and tells whoever waits for it.
LEMMA SettledKeeps ==
  ASSUME NEW p, Whole(p)
  PROVE  /\ Whole(Settled(p)) /\ Follows(p, Settled(p))
         /\ Settled(p).sheet = "none"
         /\ p.att.pc \in Dialed => Settled(p).att.pc \in Dialed
<1> DEFINE q == [p EXCEPT !.sheet = "none"]
<1>1. q \in Pages /\ q.att = p.att /\ q.sheet = "none"
  BY DEF Whole, Pages, Sheets
<1>2. CASE p.sheet = "hostkey"
  <2>1. Settled(p) = [q EXCEPT !.att.pc = "rejected"]
    BY <1>2 DEF Settled
  <2>2. p.att.pc = "hostkey"
    BY <1>2 DEF Whole, Owned
  <2> HIDE DEF q
  <2>3. Settled(p) \in Pages /\ Settled(p).sheet = "none"
        /\ Settled(p).att = [p.att EXCEPT !.pc = "rejected"]
    BY <1>1, <2>1 DEF Pages, Attempts, Dialed
  <2>4. Settled(p).att.pc = "rejected" /\ Settled(p).att.sid = p.att.sid
    BY <2>3 DEF Whole, Pages, Attempts
  <2> QED
    BY <2>2, <2>3, <2>4 DEF Whole, Owned, Follows, Dialed
<1>3. CASE p.sheet = "prompts"
  <2>1. Settled(p) = [q EXCEPT !.att.pc = "cancelled"]
    BY <1>3 DEF Settled
  <2>2. p.att.pc = "prompts"
    BY <1>3 DEF Whole, Owned
  <2> HIDE DEF q
  <2>3. Settled(p) \in Pages /\ Settled(p).sheet = "none"
        /\ Settled(p).att = [p.att EXCEPT !.pc = "cancelled"]
    BY <1>1, <2>1 DEF Pages, Attempts, Dialed
  <2>4. Settled(p).att.pc = "cancelled" /\ Settled(p).att.sid = p.att.sid
    BY <2>3 DEF Whole, Pages, Attempts
  <2> QED
    BY <2>2, <2>3, <2>4 DEF Whole, Owned, Follows, Dialed
<1>4. CASE p.sheet \notin {"hostkey", "prompts"}
  <2>1. p.att.pc \notin {"hostkey", "prompts"}
    BY <1>4 DEF Whole, Owned
  <2>2. \/ Settled(p) = q
        \/ Settled(p) = [q EXCEPT !.micro = @ \cup {"home"}]
        \/ Settled(p) = [q EXCEPT !.scan = "late"]
        \/ Settled(p) = [q EXCEPT !.scan = "off", !.micro = @ \cup {"scanned"}]
    BY <1>4 DEF Settled
  <2> HIDE DEF q
  <2>3. Settled(p) \in Pages /\ Settled(p).sheet = "none" /\ Settled(p).att = p.att
    BY <1>1, <2>2 DEF Pages
  <2> QED
    BY <2>1, <2>3 DEF Whole, Owned, Follows
<1> QED BY <1>2, <1>3, <1>4

\* A sheet that asks nothing of the attempt may replace any other.
LEMMA ShownKeeps ==
  ASSUME NEW p, Whole(p), NEW ask \in Sheets \ {"hostkey", "prompts"}
  PROVE  Whole(Shown(p, ask)) /\ Follows(p, Shown(p, ask)) /\ Shown(p, ask).sheet = ask
<1> DEFINE q == Settled(p)
<1>1. Whole(q) /\ Follows(p, q) /\ q.sheet = "none"
  BY SettledKeeps
<1> HIDE DEF q
<1>2. Shown(p, ask) = [q EXCEPT !.sheet = ask]
  BY DEF Shown, q
<1> QED
  BY <1>1, <1>2 DEF Whole, Owned, Pages, Follows

\* The attempt's own question goes up together with its wait.
LEMMA AskedKeeps ==
  ASSUME NEW p, Whole(p), NEW ask \in {"hostkey", "prompts"}, p.att.pc \in Dialed
  PROVE  LET q == [Shown(p, ask) EXCEPT !.att.pc = ask] IN Whole(q) /\ Follows(p, q)
<1> DEFINE r == Settled(p)
<1>1. Whole(r) /\ Follows(p, r) /\ r.sheet = "none" /\ r.att.pc \in Dialed
  BY SettledKeeps
<1> HIDE DEF r
<1> DEFINE a == [r.att EXCEPT !.pc = ask]
           h == [r EXCEPT !.sheet = ask]
           q == [h EXCEPT !.att.pc = ask]
<1>2. Shown(p, ask) = h
  BY DEF Shown, r
<1>3. a \in Attempts /\ a.pc = ask /\ a.sid = r.att.sid
  BY <1>1 DEF Whole, Pages, Attempts, Dialed
<1>4. h \in Pages /\ h.sheet = ask /\ h.att = r.att
  BY <1>1 DEF Whole, Pages, Sheets
<1>5. q = [h EXCEPT !.att = a]
  BY <1>4 DEF Pages
<1> HIDE DEF a, h
<1>6. q \in Pages /\ q.sheet = ask /\ q.att = a
  BY <1>3, <1>4, <1>5 DEF Pages
<1>7. [Shown(p, ask) EXCEPT !.att.pc = ask] = q
  BY <1>2
<1> HIDE DEF q
<1>8. Whole(q) /\ Follows(p, q)
  BY <1>1, <1>3, <1>6 DEF Whole, Owned, Follows
<1> QED BY <1>7, <1>8

\* Going home says nothing of the attempt or its question.
LEMMA HomeKeeps ==
  ASSUME NEW p, Whole(p)
  PROVE  LET q == HomeRendered(p)
         IN Whole(q) /\ q.att = p.att /\ q.sheet = p.sheet
  BY DEF HomeRendered, Whole, Owned, Pages

\* Nor does the funnel of every end, but for an ask nobody's attempt waits for.
LEMMA IdleHomeKeeps ==
  ASSUME NEW p, Whole(p)
  PROVE  /\ Whole(IdleHome(p)) /\ Follows(p, IdleHome(p))
         /\ IdleHome(p).sheet \in {p.sheet, "none"}
<1> DEFINE r == IF Dialing(p) THEN p ELSE Settled(p)
<1>1. Whole(r) /\ Follows(p, r) /\ r.sheet \in {p.sheet, "none"}
  BY SettledKeeps DEF Follows
<1> HIDE DEF r
<1> DEFINE h == [r EXCEPT !.live = FALSE]
<1>2. Whole(h) /\ h.att = r.att /\ h.sheet = r.sheet
  BY <1>1 DEF Whole, Owned, Pages
<1>3. IdleHome(p) = HomeRendered(h)
  BY DEF IdleHome, r
<1> HIDE DEF h
<1>4. Whole(HomeRendered(h)) /\ HomeRendered(h).att = h.att /\ HomeRendered(h).sheet = h.sheet
  BY <1>2, HomeKeeps
<1> QED
  BY <1>1, <1>2, <1>3, <1>4 DEF Follows

\* doConnect starts an attempt that has not dialed, or does nothing.
LEMMA DoConnectKeeps ==
  ASSUME NEW p, Whole(p), NEW from \in {"card", "sheet", "repair", "redial", "auto"},
         NEW with \in [method : Methods \cup {"none"}, command : BOOLEAN]
  PROVE  Whole(DoConnect(p, from, with)) /\ Follows(p, DoConnect(p, from, with))
<1>1. CASE Dialing(p)
  BY <1>1 DEF DoConnect, Follows
<1>2. CASE ~Dialing(p)
  <2> DEFINE r == Settled(p)
  <2>1. Whole(r) /\ r.sheet = "none"
    BY SettledKeeps
  <2> HIDE DEF r
  <2>2. DoConnect(p, from, with) =
          [r EXCEPT !.screen = "none",
                    !.att = [pc |-> "load", sid |-> 0, from |-> from, with |-> with]]
    BY <1>2 DEF DoConnect, r
  <2> DEFINE a == [pc |-> "load", sid |-> 0, from |-> from, with |-> with]
             q == [r EXCEPT !.screen = "none", !.att = a]
  <2>3. a \in Attempts /\ a.pc = "load"
    BY DEF Attempts
  <2> HIDE DEF a
  <2>4. q \in Pages /\ q.sheet = "none" /\ q.att = a
    BY <2>1, <2>3 DEF Whole, Pages
  <2>5. DoConnect(p, from, with) = q
    BY <2>2 DEF a
  <2> HIDE DEF q
  <2> QED
    BY <2>3, <2>4, <2>5 DEF Whole, Owned, Follows, Dialed
<1> QED
  BY <1>1, <1>2

\* What the task left in the microtask queue.
LEMMA DrainedKeeps ==
  ASSUME NEW p, Whole(p)
  PROVE  Whole(Drained(p)) /\ Follows(p, Drained(p))
<1> DEFINE p1 == [p EXCEPT !.micro = @ \ {"scanned"}]
           s == IF "scanned" \in p.micro THEN Settled(p1) ELSE p
           s1 == [s EXCEPT !.micro = {}]
           h == IF "home" \in s.micro THEN IdleHome(s1) ELSE s
<1>1. Whole(p1) /\ p1.att = p.att
  BY DEF Whole, Owned, Pages
<1>2. Whole(s) /\ Follows(p, s)
  <2> HIDE DEF p1
  <2> QED BY <1>1, SettledKeeps DEF Follows
<1> HIDE DEF s
<1>3. Whole(s1) /\ s1.att = s.att
  BY <1>2 DEF Whole, Owned, Pages
<1>4. Whole(h) /\ Follows(s, h)
  <2> HIDE DEF s1
  <2> QED BY <1>2, <1>3, IdleHomeKeeps DEF Follows
<1> HIDE DEF h
<1>5. Drained(p) = [h EXCEPT !.micro = {}]
  BY DEF Drained, h, s, s1, p1
<1> QED
  BY <1>2, <1>4, <1>5 DEF Whole, Owned, Pages, Follows

\* No attempt is left, where no question of it is on the sheet.
LEMMA Forgotten ==
  ASSUME NEW p, Whole(p), p.sheet \notin {"hostkey", "prompts"}
  PROVE  LET q == [p EXCEPT !.att = NoAttempt]
         IN Whole(q) /\ q.att.pc \notin Dialed /\ q.sheet = p.sheet
  BY DEF Whole, Owned, Pages, Attempts, NoAttempt, Never, Dialed

\* An attempt that fails leaves no attempt.
LEMMA FailedKeeps ==
  ASSUME NEW p, Whole(p), p.sheet \notin {"hostkey", "prompts"}, NEW pairing \in BOOLEAN
  PROVE  Whole(Failed(p, pairing)) /\ Failed(p, pairing).att.pc \notin Dialed
<1>1. CASE p.att.from = "auto"
  <2> DEFINE q == [p EXCEPT !.att = NoAttempt]
  <2>1. Whole(q) /\ q.att.pc \notin Dialed
    BY Forgotten
  <2> HIDE DEF q
  <2>2. Whole(IdleHome(q)) /\ Follows(q, IdleHome(q))
    BY <2>1, IdleHomeKeeps
  <2>3. Failed(p, pairing) = IdleHome(q)
    BY <1>1 DEF Failed, q
  <2> QED BY <2>1, <2>2, <2>3 DEF Follows
<1>2. CASE p.att.from # "auto" /\ pairing
  <2>1. Whole(Shown(p, "repair")) /\ Shown(p, "repair").sheet = "repair"
    BY ShownKeeps DEF Sheets
  <2>2. Failed(p, pairing) = [Shown(p, "repair") EXCEPT !.att = NoAttempt]
    BY <1>2 DEF Failed
  <2> QED BY <2>1, <2>2, Forgotten
<1>3. CASE p.att.from # "auto" /\ ~pairing
  <2> DEFINE home == [IdleHome(p) EXCEPT !.att = NoAttempt]
  <2>1. Whole(home) /\ home.att.pc \notin Dialed
    BY IdleHomeKeeps, Forgotten
  <2>2. Failed(p, pairing) = home \/ Failed(p, pairing) = Shown(home, "connect")
    BY <1>3 DEF Failed
  <2> HIDE DEF home
  <2>3. Whole(Shown(home, "connect")) /\ Follows(home, Shown(home, "connect"))
    BY <2>1, ShownKeeps DEF Sheets
  <2> QED BY <2>1, <2>2, <2>3 DEF Follows
<1> QED BY <1>1, <1>2, <1>3

\* The attempt goes on, with no question on the sheet.
LEMMA MovedOn ==
  ASSUME NEW p, Whole(p), p.sheet \notin {"hostkey", "prompts"}, p.att.pc \in Dialed,
         NEW pc \in Dialed \ {"hostkey", "prompts"}
  PROVE  LET q == [p EXCEPT !.att.pc = pc] IN Whole(q) /\ Follows(p, q)
<1> DEFINE a == [p.att EXCEPT !.pc = pc]
           q == [p EXCEPT !.att = a]
<1>1. a \in Attempts /\ a.pc = pc /\ a.sid = p.att.sid
  BY DEF Whole, Pages, Attempts, Dialed
<1> HIDE DEF a
<1>2. q \in Pages /\ q.sheet = p.sheet /\ q.att = a
  BY <1>1 DEF Whole, Pages
<1>3. [p EXCEPT !.att.pc = pc] = q
  BY DEF a
<1> HIDE DEF q
<1> QED BY <1>1, <1>2, <1>3 DEF Whole, Owned, Follows

\* A question that is answered leaves the sheet, and the attempt goes on.
LEMMA Answered ==
  ASSUME NEW p, Whole(p), p.att.pc \in Dialed, NEW pc \in Dialed \ {"hostkey", "prompts"}
  PROVE  LET q == [p EXCEPT !.sheet = "none", !.att.pc = pc] IN Whole(q) /\ Follows(p, q)
<1> DEFINE a == [p.att EXCEPT !.pc = pc]
           q == [p EXCEPT !.sheet = "none", !.att = a]
<1>1. a \in Attempts /\ a.pc = pc /\ a.sid = p.att.sid
  BY DEF Whole, Pages, Attempts, Dialed
<1> HIDE DEF a
<1>2. q \in Pages /\ q.sheet = "none" /\ q.att = a
  BY <1>1 DEF Whole, Pages, Sheets
<1>3. [p EXCEPT !.sheet = "none", !.att.pc = pc] = q
  BY DEF a, Whole, Pages
<1> HIDE DEF q
<1> QED BY <1>1, <1>2, <1>3 DEF Whole, Owned, Follows

\* A sheet that asks the attempt nothing may simply go.
LEMMA PutDown ==
  ASSUME NEW p, Whole(p), p.sheet \notin {"hostkey", "prompts"}
  PROVE  LET q == [p EXCEPT !.sheet = "none"]
         IN Whole(q) /\ q.att = p.att /\ q.sheet = "none"
  BY DEF Whole, Owned, Pages, Sheets

\* The countdown is no part of it.
LEMMA CancelKeeps ==
  ASSUME NEW p, Whole(p)
  PROVE  Whole(CancelResume(p)) /\ CancelResume(p).att = p.att
  BY DEF CancelResume, Whole, Owned, Pages
-----------------------------------------------------------------------------
(* The steps. *)

\* One that leaves the sessions alone.
LEMMA PageStep ==
  ASSUME PInd, Whole(page'), Follows(page, page'), UNCHANGED <<sess, current>>,
         pinned' \in BOOLEAN, last' \in [method : Methods \cup {"none"}, command : BOOLEAN]
  PROVE  PInd'
  BY DEF PInd, PTypeOK, AttemptOwnsCurrent, NoOrphanSession, Follows, Whole, Owned

\* One that lets go of the session, having ended it.
LEMMA LetGo ==
  ASSUME PInd, Whole(page'), Follows(page, page'), UNCHANGED <<pinned, last>>, current' = 0,
         sess' \in [Sessions -> {"none", "detached", "closed"} \cup Open \cup Ended],
         \A s \in Sessions : sess'[s] \notin Open
  PROVE  PInd'
  BY DEF PInd, PTypeOK, AttemptOwnsCurrent, NoOrphanSession, Follows, Whole, Owned

\* One session of the component goes on, and was open if it is.
LEMMA SessionStep ==
  ASSUME PInd, Whole(page'), Follows(page, page'), UNCHANGED <<current, last>>,
         pinned' \in BOOLEAN,
         NEW s \in Sessions, NEW to \in {"none", "detached", "closed"} \cup Open \cup Ended,
         to \in Open => sess[s] \in Open, sess' = [sess EXCEPT ![s] = to]
  PROVE  PInd'
<1>1. PTypeOK'
  BY DEF PInd, PTypeOK
<1>2. NoOrphanSession'
  BY DEF PInd, PTypeOK, NoOrphanSession
<1>3. AttemptOwnsCurrent'
  BY DEF PInd, AttemptOwnsCurrent, Follows
<1> QED BY <1>1, <1>2, <1>3 DEF PInd, Whole, Owned

\* A failure leaves the sessions to whoever failed.
LEMMA FailStep ==
  ASSUME PInd, page.sheet \notin {"hostkey", "prompts"}, NEW fatal, NEW pairing \in BOOLEAN,
         Fail(fatal, pairing)
  PROVE  Whole(page') /\ Follows(page, page')
<1> DEFINE f == Failed(page, pairing)
<1>1. Whole(f) /\ f.att.pc \notin Dialed
  BY FailedKeeps DEF PInd
<1>2. page' = Drained(f)
  BY DEF Fail
<1> HIDE DEF f
<1> QED BY <1>1, <1>2, DrainedKeeps DEF Follows

LEMMA InitPInd == PInit => PInd
<1> SUFFICES ASSUME PInit PROVE PInd
  OBVIOUS
<1> DEFINE p == [sheet |-> "none", screen |-> "none", live |-> FALSE,
                 scan |-> "off", resume |-> "pending", micro |-> {},
                 closing |-> FALSE, att |-> NoAttempt]
<1>1. Whole(p) /\ p.att.pc \notin Dialed
  BY DEF Whole, Owned, Pages, Sheets, Attempts, NoAttempt, Never, Dialed, Methods
<1>2. page = HomeRendered(p)
  BY DEF PInit
<1> HIDE DEF p
<1>3. Whole(page) /\ AttemptOwnsCurrent
  BY <1>1, <1>2, HomeKeeps DEF AttemptOwnsCurrent
<1>4. PTypeOK /\ NoOrphanSession
  BY DEF PInit, PTypeOK, NoOrphanSession, Open, Never
<1> QED BY <1>3, <1>4 DEF PInd

\* The coroutine of the attempt.
LEMMA AttemptStep == PInd /\ Attempt => PInd'
<1> SUFFICES ASSUME PInd, Attempt PROVE PInd'
  OBVIOUS
<1>w. Whole(page) /\ PTypeOK /\ NoOrphanSession
  BY DEF PInd
<1>q. ASSUME page.att.pc \notin {"hostkey", "prompts"} PROVE page.sheet \notin {"hostkey", "prompts"}
  BY <1>w, <1>q DEF Whole, Owned
<1>o. ASSUME page.att.pc \in Dialed PROVE page.att.sid \in Sessions /\ current \in {0, page.att.sid}
  BY <1>o DEF PInd, AttemptOwnsCurrent
<1>k. UNCHANGED <<pinned, last>> => /\ pinned' \in BOOLEAN
                                  /\ last' \in [method : Methods \cup {"none"}, command : BOOLEAN]
  BY <1>w DEF PTypeOK
<1>1. CASE DialFails
  BY <1>1, <1>k, <1>q, FailStep, PageStep DEF DialFails, At
<1>2. CASE SettleClosed
  BY <1>2, <1>k, <1>q, FailStep, PageStep DEF SettleClosed, At
<1>3. CASE SettleTimeout
  BY <1>3, <1>k, <1>q, FailStep, PageStep DEF SettleTimeout, At
<1>4. CASE PollClosed
  BY <1>4, <1>k, <1>q, FailStep, PageStep DEF PollClosed, At
<1>5. CASE Gate
  <2>1. page.att.pc \in Dialed /\ page.sheet \notin {"hostkey", "prompts"}
    BY <1>5, <1>q DEF Gate, At, Dialed
  <2>2. CASE page' = [page EXCEPT !.att.pc = "cred"] /\ sess' = [sess EXCEPT ![page.att.sid] = "auth"]
    <3>1. Whole(page') /\ Follows(page, page')
      BY <2>1, <2>2, <1>w, MovedOn DEF Dialed
    <3>2. sess[page.att.sid] \in Open
      BY <1>5 DEF Gate, Mine, Open
    <3> QED
      BY <1>5, <1>k, <1>o, <2>1, <2>2, <3>1, <3>2, SessionStep DEF Gate, Open
  <2>3. CASE page' = Drained([Shown(page, "hostkey") EXCEPT !.att.pc = "hostkey"]) /\ UNCHANGED sess
    <3>1. Whole(page') /\ Follows(page, page')
      BY <2>1, <2>3, <1>w, AskedKeeps, DrainedKeeps DEF Follows
    <3> QED BY <1>5, <1>k, <2>3, <3>1, PageStep DEF Gate
  <2> QED BY <1>5, <2>2, <2>3 DEF Gate
<1>6. CASE Rejected
  <2>1. page.att.pc \in Dialed /\ page.sheet \notin {"hostkey", "prompts"}
    BY <1>6, <1>q DEF Rejected, At, Dialed
  <2> DEFINE q == [page EXCEPT !.att = NoAttempt]
             h == [IdleHome(page) EXCEPT !.att = NoAttempt]
  <2>2. Whole(IdleHome(q)) /\ IdleHome(q).att.pc \notin Dialed
    BY <1>w, <2>1, Forgotten, IdleHomeKeeps DEF Follows
  <2>3. Whole(h) /\ h.att.pc \notin Dialed
    BY <1>w, <2>1, Forgotten, IdleHomeKeeps
  <2>4. page' = Drained(IdleHome(q)) \/ page' = Drained(h)
    BY <1>6 DEF Rejected
  <2> HIDE DEF q, h
  <2>5. Whole(page') /\ Follows(page, page')
    BY <2>2, <2>3, <2>4, DrainedKeeps DEF Follows
  <2>6. sess' \in [Sessions -> {"none", "detached", "closed"} \cup Open \cup Ended]
        /\ \A s \in Sessions : sess'[s] \notin Open
    <3> DEFINE sid == page.att.sid
    <3>1. sid \in Sessions /\ \A s \in Sessions : sess[s] \in Open => s = sid
      BY <1>w, <1>o, <2>1 DEF NoOrphanSession, PTypeOK, Sessions
    <3>2. sess' = [sess EXCEPT ![sid] = IF @ \in Open THEN "closed" ELSE @]
      BY <1>6 DEF Rejected
    <3> HIDE DEF sid
    <3>3. "closed" \notin Open
      BY DEF Open
    <3> QED BY <1>w, <3>1, <3>2, <3>3 DEF PTypeOK
  <2> QED BY <1>6, <2>5, <2>6, LetGo DEF Rejected
<1>7. CASE Cancelled
  <2>1. page.att.pc \in Dialed /\ page.sheet \notin {"hostkey", "prompts"}
    BY <1>7, <1>q DEF Cancelled, At, Dialed
  <2>2. Whole(page') /\ Follows(page, page')
    BY <1>7, <2>1, FailStep DEF Cancelled
  <2>3. sess' \in [Sessions -> {"none", "detached", "closed"} \cup Open \cup Ended]
        /\ \A s \in Sessions : sess'[s] \notin Open
    <3> DEFINE sid == page.att.sid
    <3>1. sid \in Sessions /\ \A s \in Sessions : sess[s] \in Open => s = sid
      BY <1>w, <1>o, <2>1 DEF NoOrphanSession, PTypeOK, Sessions
    <3>2. sess' = [sess EXCEPT ![sid] = IF @ \in Open THEN "detached" ELSE @]
      BY <1>7 DEF Cancelled
    <3> HIDE DEF sid
    <3>3. "detached" \notin Open
      BY DEF Open
    <3> QED BY <1>w, <3>1, <3>2, <3>3 DEF PTypeOK
  <2> QED BY <1>7, <2>2, <2>3, LetGo DEF Cancelled
<1>8. CASE Credential
  <2>1. page.att.pc \in Dialed /\ page.sheet \notin {"hostkey", "prompts"}
    BY <1>8, <1>q DEF Credential, At, Dialed
  <2>2. CASE page' = Drained([Shown(page, "prompts") EXCEPT !.att.pc = "prompts"])
    <3> DEFINE q == [Shown(page, "prompts") EXCEPT !.att.pc = "prompts"]
    <3>1. Whole(q) /\ Follows(page, q)
      BY <1>w, <2>1, AskedKeeps
    <3> HIDE DEF q
    <3>2. Whole(page') /\ Follows(page, page')
      BY <2>2, <3>1, DrainedKeeps DEF Follows, q
    <3> QED BY <1>8, <1>k, <3>2, PageStep DEF Credential
  <2>3. CASE page' = [page EXCEPT !.att.pc = "poll"]
    BY <1>w, <2>1, <2>3, MovedOn, <1>8, <1>k, PageStep DEF Credential, Dialed
  <2>4. CASE Fail(TRUE, FALSE)
    BY <2>1, <2>4, FailStep, <1>8, <1>k, PageStep DEF Credential
  <2> QED BY <1>8, <2>2, <2>3, <2>4 DEF Credential
<1>9. CASE Prompted
  <2>1. page.att.pc \in Dialed
    BY <1>9 DEF Prompted, At, Dialed
  <2> DEFINE q == [Shown(page, "prompts") EXCEPT !.att.pc = "prompts"]
  <2>2. Whole(q) /\ Follows(page, q)
    BY <1>w, <2>1, AskedKeeps
  <2>3. page' = Drained(q)
    BY <1>9 DEF Prompted
  <2> HIDE DEF q
  <2>4. Whole(page') /\ Follows(page, page')
    BY <2>2, <2>3, DrainedKeeps DEF Follows
  <2> QED BY <1>9, <1>k, <2>4, PageStep DEF Prompted
<1>10. CASE Ceremony
  <2> DEFINE q == Shown(page, "ceremony")
  <2>1. Whole(q) /\ Follows(page, q)
    BY <1>w, ShownKeeps DEF Sheets
  <2>2. page' = Drained(q)
    BY <1>10 DEF Ceremony
  <2> HIDE DEF q
  <2>3. Whole(page') /\ Follows(page, page')
    BY <2>1, <2>2, DrainedKeeps DEF Follows
  <2> QED BY <1>10, <1>k, <2>3, PageStep DEF Ceremony
<1>11. CASE PollReady
  <2>1. page.att.pc \in Dialed /\ page.sheet \notin {"hostkey", "prompts"}
    BY <1>11, <1>q DEF PollReady, At, Dialed
  <2> QED BY <1>w, <2>1, MovedOn, <1>11, <1>k, PageStep DEF PollReady, Dialed
<1>12. CASE Start
  <2>1. page.att.pc \in Dialed /\ page.sheet \notin {"hostkey", "prompts"}
    BY <1>12, <1>q DEF Start, At, Dialed
  <2> DEFINE q == [page EXCEPT !.live = TRUE, !.screen = "none"]
  <2>2. Whole(q) /\ q.sheet = page.sheet
    BY <1>w DEF Whole, Owned, Pages
  <2>3. page' = [q EXCEPT !.att = NoAttempt]
    BY <1>12 DEF Start
  <2> HIDE DEF q
  <2>4. Whole(page') /\ Follows(page, page')
    BY <2>1, <2>2, <2>3, Forgotten DEF Follows
  <2>5. last' \in [method : Methods \cup {"none"}, command : BOOLEAN]
    BY <1>12, <1>w DEF Start, Whole, Pages, Attempts
  <2> QED BY <1>12, <1>k, <1>w, <2>4, <2>5, PageStep DEF Start, PTypeOK
<1>13. ASSUME NEW s \in Sessions, Dial(s) PROVE PInd'
  <2>1. page.sheet \notin {"hostkey", "prompts"}
    BY <1>13, <1>q DEF Dial, At
  <2> DEFINE a == [page.att EXCEPT !.pc = "settle", !.sid = s]
             q == [page EXCEPT !.att = a]
  <2>2. a \in Attempts /\ a.pc = "settle" /\ a.sid = s
    BY <1>w DEF Whole, Pages, Attempts, Dialed
  <2> HIDE DEF a
  <2>3. q \in Pages /\ q.sheet = page.sheet /\ q.att = a
    BY <1>w, <2>2 DEF Whole, Pages
  <2>4. page' = q
    BY <1>13, <1>w DEF Dial, a, Whole, Pages, Attempts
  <2> HIDE DEF q
  <2>5. Whole(page') /\ page'.att.sid = s
    BY <2>1, <2>2, <2>3, <2>4 DEF Whole, Owned
  <2>6. sess' \in [Sessions -> {"none", "detached", "closed"} \cup Open \cup Ended]
    BY <1>13, <1>w DEF Dial, Superseded, PTypeOK, Open
  <2>7. \A t \in Sessions : sess'[t] \in Open => t = s
    BY <1>13, <1>w DEF Dial, Superseded, PTypeOK, NoOrphanSession, Open
  <2>8. current' = s /\ UNCHANGED <<pinned, last>>
    BY <1>13 DEF Dial
  <2> QED
    BY <1>k, <2>5, <2>6, <2>7, <2>8
    DEF PInd, PTypeOK, AttemptOwnsCurrent, NoOrphanSession, Whole, Owned
<1> QED
  BY <1>1, <1>2, <1>3, <1>4, <1>5, <1>6, <1>7, <1>8, <1>9, <1>10, <1>11, <1>12, <1>13 DEF Attempt

\* How a session ends, and what the page does then.
LEMMA EndStep ==
  PInd /\ (SessionEnded \/ Disconnect \/ Disconnected \/ Rest \/ \E s \in Sessions : TailDone(s))
  => PInd'
<1>w. SUFFICES ASSUME PInd, Whole(page), PTypeOK, NoOrphanSession,
                      \/ SessionEnded \/ Disconnect \/ Disconnected \/ Rest
                      \/ \E s \in Sessions : TailDone(s)
               PROVE  PInd'
  BY DEF PInd
<1>k. UNCHANGED <<pinned, last>> => /\ pinned' \in BOOLEAN
                                  /\ last' \in [method : Methods \cup {"none"}, command : BOOLEAN]
  BY <1>w DEF PTypeOK
<1>s. UNCHANGED page => Whole(page') /\ Follows(page, page')
  BY <1>w DEF Follows
<1>1. CASE SessionEnded
  <2>1. \A s \in Sessions : sess'[s] \notin Open
    BY <1>1, <1>w DEF SessionEnded, NoOrphanSession, Open, Ended
  <2> QED BY <1>1, <1>w, <1>s, <2>1, LetGo DEF SessionEnded, PTypeOK
<1>2. CASE Disconnect
  <2> DEFINE p == [page EXCEPT !.sheet = "none"]
             c == [p EXCEPT !.closing = TRUE]
  <2>1. Whole(p) /\ Follows(page, p)
    BY <1>2, <1>w, PutDown DEF Disconnect, Follows
  <2>2. Whole(c) /\ Follows(page, c)
    <3> HIDE DEF p
    <3> QED BY <2>1 DEF Whole, Owned, Pages, Follows
  <2>3. page' = Drained(IF current = 0 THEN IdleHome(p) ELSE c)
    BY <1>2 DEF Disconnect
  <2> HIDE DEF p, c
  <2>4. Whole(IdleHome(p)) /\ Follows(page, IdleHome(p))
    BY <2>1, IdleHomeKeeps DEF Follows
  <2>5. Whole(page') /\ Follows(page, page')
    BY <2>2, <2>3, <2>4, DrainedKeeps DEF Follows
  <2>6. sess' \in [Sessions -> {"none", "detached", "closed"} \cup Open \cup Ended]
        /\ \A s \in Sessions : sess'[s] \notin Open
    BY <1>2, <1>w DEF Disconnect, PTypeOK, NoOrphanSession, Open
  <2> QED BY <1>2, <1>w, <2>5, <2>6, LetGo DEF Disconnect
<1>3. CASE Disconnected
  <2> DEFINE p == [page EXCEPT !.closing = FALSE]
  <2>1. Whole(p) /\ Follows(page, p)
    BY <1>w DEF Whole, Owned, Pages, Follows
  <2>2. page' = Drained(IdleHome(p))
    BY <1>3 DEF Disconnected
  <2> HIDE DEF p
  <2>3. Whole(page') /\ Follows(page, page')
    BY <2>1, <2>2, IdleHomeKeeps, DrainedKeeps DEF Follows
  <2> QED BY <1>3, <1>k, <1>w, <2>3, PageStep DEF Disconnected
<1>4. CASE Rest
  BY <1>4, <1>k, <1>s, <1>w, PageStep DEF Rest
<1>5. ASSUME NEW s \in Sessions, TailDone(s) PROVE PInd'
  <2> DEFINE h == IdleHome(page)
             e == Shown(h, "ended")
             d == DoConnect(page, "auto", last)
  <2>1. Whole(h) /\ Follows(page, h)
    BY <1>w, IdleHomeKeeps
  <2>2. Whole(e) /\ Follows(page, e)
    <3> HIDE DEF h
    <3> QED BY <2>1, ShownKeeps DEF Sheets, Follows
  <2>3. Whole(d) /\ Follows(page, d)
    BY <1>w, DoConnectKeeps DEF PTypeOK
  <2>4. page' = Drained(h) \/ page' = Drained(e) \/ page' = Drained(d)
    BY <1>5 DEF TailDone
  <2> HIDE DEF h, e, d
  <2>5. Whole(page') /\ Follows(page, page')
    BY <2>1, <2>2, <2>3, <2>4, DrainedKeeps DEF Follows
  <2> QED BY <1>5, <1>k, <1>w, <2>5, PageStep DEF TailDone
<1> QED BY <1>w, <1>1, <1>2, <1>3, <1>4, <1>5

\* What the component's sessions do of themselves.
LEMMA OutsideStep ==
  PInd /\ (Poison \/ \E s \in Sessions : Decided(s) \/ Component(s)) => PInd'
<1>w. SUFFICES ASSUME PInd, Whole(page), PTypeOK,
                      Poison \/ \E s \in Sessions : Decided(s) \/ Component(s)
               PROVE  PInd'
  BY DEF PInd
<1>s. UNCHANGED page => Whole(page') /\ Follows(page, page')
  BY <1>w DEF Follows
<1>1. CASE Poison
  BY <1>1, <1>w, <1>s, SessionStep DEF Poison, PTypeOK, Open, Ended
<1>2. ASSUME NEW s \in Sessions, Decided(s) \/ Component(s) PROVE PInd'
  <2>1. PICK to \in {"none", "detached", "closed"} \cup Open \cup Ended :
          sess' = [sess EXCEPT ![s] = to] /\ sess[s] \in Open
    BY <1>2 DEF Decided, Component, Becomes, Open, Ended
  <2>2. UNCHANGED <<page, current, pinned, last>>
    BY <1>2 DEF Decided, Component, Outside
  <2> QED BY <1>w, <1>s, <2>1, <2>2, SessionStep DEF PTypeOK
<1> QED BY <1>w, <1>1, <1>2

\* A handler that is one of the operators above, and nothing else.
LEMMA OperatorStep ==
  ASSUME PInd, NEW q, Whole(q), Follows(page, q), page' \in {q, Drained(q)},
         UNCHANGED <<sess, current, last>>, pinned' \in BOOLEAN
  PROVE  PInd'
<1>1. Whole(page') /\ Follows(page, page')
  BY DrainedKeeps DEF Follows
<1> QED BY <1>1, PageStep DEF PInd, PTypeOK

\* A dial from a sheet that has just been answered, or from no sheet at all.
LEMMA DialedFrom ==
  ASSUME PInd, NEW p, Whole(p), Follows(page, p),
         NEW from \in {"card", "sheet", "repair", "redial", "auto"},
         NEW with \in [method : Methods \cup {"none"}, command : BOOLEAN],
         page' = Drained(DoConnect(p, from, with)), PageOnly
  PROVE  PInd'
<1> DEFINE q == DoConnect(p, from, with)
<1>1. Whole(q) /\ Follows(page, q)
  BY DoConnectKeeps DEF Follows
<1> HIDE DEF q
<1> QED BY <1>1, OperatorStep DEF PageOnly, PInd, PTypeOK, q

\* A sheet that asks nothing of the attempt comes up over the page as it is.
LEMMA ShownFrom ==
  ASSUME PInd, NEW p, Whole(p), Follows(page, p), NEW ask \in Sheets \ {"hostkey", "prompts"},
         page' = Drained(Shown(p, ask)), PageOnly
  PROVE  PInd'
<1> DEFINE q == Shown(p, ask)
<1>1. Whole(q) /\ Follows(page, q)
  BY ShownKeeps DEF Follows
<1> HIDE DEF q
<1> QED BY <1>1, OperatorStep DEF PageOnly, PInd, PTypeOK, q

\* The user, the camera, and the countdown.
LEMMA UserStep ==
  PInd /\ ((User /\ ~Disconnect) \/ CountdownFires \/ CameraStarts \/ ScanFinds \/ ScanReturns)
  => PInd'
<1> SUFFICES ASSUME PInd,
                    (User /\ ~Disconnect) \/ CountdownFires \/ CameraStarts \/ ScanFinds
                    \/ ScanReturns
             PROVE  PInd'
  OBVIOUS
<1>w. Whole(page) /\ PTypeOK /\ Params \subseteq [method : Methods \cup {"none"}, command : BOOLEAN]
  BY DEF PInd, Params
<1> DEFINE c == CancelResume(page)
           n == [page EXCEPT !.sheet = "none"]
<1>c. Whole(c) /\ Follows(page, c)
  BY <1>w, CancelKeeps DEF Follows
<1>n. ASSUME page.sheet \notin {"hostkey", "prompts"} PROVE Whole(n) /\ Follows(page, n)
  BY <1>w, <1>n, PutDown DEF Follows
<1>h. Whole(HomeRendered(page)) /\ Follows(page, HomeRendered(page))
  BY <1>w, HomeKeeps DEF Follows
<1>s. Whole(Settled(page)) /\ Follows(page, Settled(page))
  BY <1>w, SettledKeeps
<1>p. pinned \in BOOLEAN /\ Follows(page, page)
  BY <1>w DEF PTypeOK, Follows
<1>1. CASE TapCard
  BY <1>1, <1>w, <1>c, DialedFrom DEF TapCard
<1>2. CASE PasteLink
  BY <1>2, <1>c, ShownFrom DEF PasteLink, Sheets
<1>3. CASE CountdownFires
  BY <1>3, <1>c, DialedFrom DEF CountdownFires, Methods
<1>4. CASE SubmitConnect
  BY <1>4, <1>w, <1>n, DialedFrom DEF SubmitConnect
<1>5. CASE Scan
  <2> DEFINE p == IF page.sheet = "repair" THEN n ELSE c
             r == Shown(p, "scan")
             q == [r EXCEPT !.scan = "starting"]
  <2>1. Whole(p) /\ Follows(page, p)
    BY <1>c, <1>n
  <2>2. page' = Drained(q) /\ PageOnly
    BY <1>5 DEF Scan
  <2> HIDE DEF p
  <2>3. Whole(r) /\ Follows(page, r)
    BY <2>1, ShownKeeps DEF Follows, Sheets
  <2> HIDE DEF r
  <2>4. Whole(q) /\ Follows(page, q)
    BY <2>3 DEF Whole, Owned, Pages, Follows
  <2> HIDE DEF q
  <2> QED BY <1>p, <2>2, <2>4, OperatorStep DEF PageOnly
<1>6. CASE CameraStarts
  <2>1. Whole(page') /\ page'.att = page.att
    BY <1>6, <1>w DEF CameraStarts, Whole, Owned, Pages
  <2> QED BY <1>6, <1>p, <1>w, <2>1, PageStep DEF CameraStarts, PageOnly, PTypeOK, Follows
<1>7. CASE ScanFinds
  <2> DEFINE p == [page EXCEPT !.sheet = "none", !.scan = "off"]
  <2>1. Whole(p) /\ Follows(page, p)
    BY <1>7, <1>w DEF ScanFinds, Whole, Owned, Pages, Sheets, Follows
  <2>2. page' = Drained(Shown(p, "connect")) /\ PageOnly
    BY <1>7 DEF ScanFinds
  <2> HIDE DEF p
  <2> QED BY <2>1, <2>2, ShownFrom DEF Sheets
<1>8. CASE ScanReturns
  <2> DEFINE p == [page EXCEPT !.scan = "off"]
  <2>1. Whole(p) /\ Follows(page, p)
    BY <1>w DEF Whole, Owned, Pages, Follows
  <2>2. page' = Drained(Settled(p)) /\ PageOnly
    BY <1>8 DEF ScanReturns
  <2> HIDE DEF p
  <2>3. Whole(Settled(p)) /\ Follows(page, Settled(p))
    BY <2>1, SettledKeeps DEF Follows
  <2> QED BY <1>p, <2>2, <2>3, OperatorStep DEF PageOnly
<1>9. CASE SessionsButton
  <2>1. CASE page' = Drained(Shown(page, "session"))
    BY <1>9, <1>w, <1>p, <2>1, ShownFrom DEF SessionsButton, Sheets
  <2>2. CASE page' = Drained(page)
    BY <1>9, <1>w, <1>p, <2>2, OperatorStep DEF SessionsButton, PageOnly
  <2>3. CASE page' = Drained(HomeRendered(page))
    BY <1>9, <1>h, <1>p, <2>3, OperatorStep DEF SessionsButton, PageOnly
  <2> QED BY <1>9, <2>1, <2>2, <2>3 DEF SessionsButton
<1>10. CASE AttachOther
  BY <1>10, <1>w, <1>n, DialedFrom DEF AttachOther, PTypeOK
<1>11. CASE SettingsFromSession
  <2>1. Whole(page') /\ page'.att = page.att
    BY <1>11, <1>w DEF SettingsFromSession, Whole, Owned, Pages, Sheets
  <2> QED BY <1>11, <1>p, <1>w, <2>1, PageStep DEF SettingsFromSession, PageOnly, PTypeOK, Follows
<1>12. CASE ForgetPin
  BY <1>12, <1>w, <1>p, PageStep DEF ForgetPin, PTypeOK
<1>13. CASE OpenPrefs
  <2> HIDE DEF c
  <2>1. page' = [c EXCEPT !.screen = "prefs"] /\ PageOnly
    BY <1>13 DEF OpenPrefs, c
  <2>2. Whole(page') /\ Follows(page, page')
    BY <1>c, <2>1 DEF Whole, Owned, Pages, Follows
  <2> QED BY <1>p, <1>w, <2>1, <2>2, PageStep DEF PageOnly, PTypeOK
<1>14. CASE LeavePrefs
  <2>1. CASE page' = [page EXCEPT !.screen = "none"]
    <3>1. Whole(page') /\ Follows(page, page')
      BY <1>w, <2>1 DEF Whole, Owned, Pages, Follows
    <3> QED BY <1>14, <1>p, <1>w, <3>1, PageStep DEF LeavePrefs, PageOnly, PTypeOK
  <2>2. CASE page' = HomeRendered(page)
    BY <1>14, <1>h, <1>p, <2>2, OperatorStep DEF LeavePrefs, PageOnly
  <2> QED BY <1>14, <2>1, <2>2 DEF LeavePrefs
<1>15. CASE Repaired
  BY <1>15, <1>w, <1>n, DialedFrom DEF Repaired
<1>16. CASE Reattach
  <2>1. PICK b \in BOOLEAN :
          page' = Drained(DoConnect(n, "redial", [last EXCEPT !.command = b]))
    BY <1>16 DEF Reattach
  <2>2. [last EXCEPT !.command = b] \in [method : Methods \cup {"none"}, command : BOOLEAN]
    BY <1>w DEF PTypeOK
  <2> QED BY <1>16, <1>n, <2>1, <2>2, DialedFrom DEF Reattach
<1>17. CASE Gesture
  BY <1>17, <1>n, <1>p, OperatorStep DEF Gesture, PageOnly
<1>18. CASE Dismiss
  BY <1>18, <1>s, <1>p, OperatorStep DEF Dismiss, PageOnly
<1>19. CASE Approve \/ AnswerPrompts
  <2>1. page.att.pc \in Dialed
    BY <1>19 DEF Approve, AnswerPrompts, At, Dialed
  <2>2. Whole(page') /\ Follows(page, page')
    <3>1. PICK pc \in {"cred", "poll"} : page' = [page EXCEPT !.sheet = "none", !.att.pc = pc]
      BY <1>19 DEF Approve, AnswerPrompts
    <3>2. pc \in Dialed \ {"hostkey", "prompts"}
      BY DEF Dialed
    <3> QED BY <1>w, <2>1, <3>1, <3>2, Answered
  <2> DEFINE sid == page.att.sid
  <2>3. sid \in Sessions
    BY <2>1 DEF PInd, AttemptOwnsCurrent
  <2>4. PICK to \in {"none", "detached", "closed"} \cup Open \cup Ended :
          sess' = [sess EXCEPT ![sid] = to] /\ (to \in Open => sess[sid] \in Open)
    BY <1>19, <1>w, <2>3 DEF Approve, AnswerPrompts, PTypeOK, Open
  <2>5. UNCHANGED <<current, last>> /\ pinned' \in BOOLEAN
    BY <1>19, <1>p DEF Approve, AnswerPrompts
  <2> QED BY <2>2, <2>3, <2>4, <2>5, SessionStep
<1> QED
  BY <1>1, <1>2, <1>3, <1>4, <1>5, <1>6, <1>7, <1>8, <1>9, <1>10, <1>11, <1>12, <1>13, <1>14,
     <1>15, <1>16, <1>17, <1>18, <1>19 DEF User

LEMMA NextPInd == PInd /\ [PNext]_pvars => PInd'
<1> SUFFICES ASSUME PInd, [PNext]_pvars PROVE PInd'
  OBVIOUS
<1>1. CASE UNCHANGED pvars
  BY <1>1 DEF pvars, PInd, PTypeOK, Whole, Owned, AttemptOwnsCurrent, NoOrphanSession
<1>2. CASE PNext
  BY <1>2, AttemptStep, EndStep, OutsideStep, UserStep DEF PNext, User
<1> QED BY <1>1, <1>2
-----------------------------------------------------------------------------
(* What the operators do to the screen.  Going home is the only thing that *)
(* takes the terminal away, and a dismissed repair sheet the only ask that *)
(* goes home by itself: it must not be up over a live terminal.            *)

\* Nothing that waits to go home is up over a live terminal, or over an attempt.
Asleep(p) ==
  /\ p.sheet = "repair" => ~p.live /\ ~Dialing(p)
  /\ "home" \in p.micro => ~p.live

\* From p to q no attempt ends or is about to start a terminal, and the terminal stays.
Mild(p, q) ==
  /\ q.closing = p.closing
  /\ Dialing(p) => Dialing(q)
  /\ Follows(p, q)
  /\ q.att.pc = "start" => q.att = p.att
  /\ Asleep(p) => Asleep(q) /\ q.live = p.live

\* No automatic reconnect begins either.
Unprompted(p, q) ==
  q.att.pc = "load" /\ q.att.from = "auto" => p.att.pc = "load" /\ p.att.from = "auto"
Gentle(p, q) == Mild(p, q) /\ Unprompted(p, q)

\* An ask that goes leaves the terminal where it is.
LEMMA SettledGentle ==
  ASSUME NEW p, Whole(p)
  PROVE  Gentle(p, Settled(p))
<1> DEFINE q == [p EXCEPT !.sheet = "none"]
<1>1. q \in Pages /\ q.att = p.att /\ q.sheet = "none" /\ q.live = p.live /\ q.closing = p.closing
      /\ q.micro = p.micro
  BY DEF Whole, Pages, Sheets
<1>2. ASSUME NEW pc \in {"rejected", "cancelled"}, p.sheet \in {"hostkey", "prompts"},
             Settled(p) = [q EXCEPT !.att.pc = pc]
      PROVE  Gentle(p, Settled(p))
  <2>1. p.att.pc \in {"hostkey", "prompts"}
    BY <1>2 DEF Whole, Owned
  <2> HIDE DEF q
  <2>2. Settled(p).att = [p.att EXCEPT !.pc = pc] /\ Settled(p).sheet = "none"
        /\ Settled(p).live = p.live /\ Settled(p).closing = p.closing
        /\ Settled(p).micro = p.micro
    BY <1>1, <1>2 DEF Pages
  <2>3. Settled(p).att.pc = pc /\ Settled(p).att.sid = p.att.sid
    BY <2>2 DEF Whole, Pages, Attempts
  <2> QED
    BY <2>1, <2>2, <2>3 DEF Gentle, Mild, Unprompted, Follows, Dialed, Dialing, Asleep
<1>3. ASSUME NEW m, m \subseteq p.micro \cup {"scanned", "home"},
             "home" \in m => "home" \in p.micro \/ p.sheet = "repair",
             NEW r, r.sheet = "none", r.live = p.live, r.closing = p.closing, r.att = p.att,
             r.micro = m
      PROVE  Gentle(p, r)
  BY <1>3 DEF Gentle, Mild, Unprompted, Follows, Dialing, Asleep
<1>4. CASE p.sheet \in {"hostkey", "prompts"}
  BY <1>2, <1>4 DEF Settled
<1>5. CASE p.sheet = "repair"
  <2>1. Settled(p) = [q EXCEPT !.micro = @ \cup {"home"}]
    BY <1>5 DEF Settled
  <2> HIDE DEF q
  <2> QED BY <1>1, <1>3, <1>5, <2>1 DEF Pages
<1>6. CASE p.sheet \notin {"hostkey", "prompts", "repair"}
  <2>1. \/ Settled(p) = q
        \/ Settled(p) = [q EXCEPT !.scan = "late"]
        \/ Settled(p) = [q EXCEPT !.scan = "off", !.micro = @ \cup {"scanned"}]
    BY <1>6 DEF Settled
  <2> HIDE DEF q
  <2>2. Settled(p).sheet = "none" /\ Settled(p).live = p.live /\ Settled(p).att = p.att
        /\ Settled(p).closing = p.closing
    BY <1>1, <2>1 DEF Pages
  <2>3. Settled(p).micro \subseteq p.micro \cup {"scanned"}
    BY <1>1, <2>1 DEF Pages
  <2> QED BY <1>3, <2>2, <2>3
<1> QED BY <1>4, <1>5, <1>6

\* Nor does another sheet take it away, unless it is the one that goes home.
LEMMA ShownGentle ==
  ASSUME NEW p, Whole(p), NEW ask \in Sheets \ {"repair"}
  PROVE  Gentle(p, Shown(p, ask))
<1> DEFINE q == Settled(p)
<1>1. Gentle(p, q) /\ q \in Pages
  BY SettledKeeps, SettledGentle DEF Whole
<1>2. Shown(p, ask) = [q EXCEPT !.sheet = ask]
  BY DEF Shown
<1> HIDE DEF q
<1> QED
  BY <1>1, <1>2 DEF Gentle, Mild, Unprompted, Follows, Asleep, Pages, Dialing

\* Nor does the attempt's own question.
LEMMA AskedGentle ==
  ASSUME NEW p, Whole(p), NEW ask \in {"hostkey", "prompts"}, p.att.pc \in Dialed
  PROVE  Gentle(p, [Shown(p, ask) EXCEPT !.att.pc = ask])
<1> DEFINE r == Settled(p)
           h == Shown(p, ask)
           q == [h EXCEPT !.att.pc = ask]
<1>1. Gentle(p, h)
  BY ShownGentle DEF Sheets
<1>2. h \in Pages /\ h.sheet = ask
  <2>1. r \in Pages
    BY SettledKeeps DEF Whole
  <2>2. h = [r EXCEPT !.sheet = ask]
    BY DEF Shown
  <2> HIDE DEF r, h
  <2> QED BY <2>1, <2>2 DEF Pages, Sheets
<1>3. Follows(p, q)
  BY AskedKeeps
<1> HIDE DEF h
<1>4. q.att.pc = ask /\ q.live = h.live /\ q.closing = h.closing /\ q.micro = h.micro
      /\ q.sheet = h.sheet
  BY <1>2 DEF Pages, Attempts
<1> HIDE DEF q
<1>5. Gentle(p, q)
  BY <1>1, <1>2, <1>3, <1>4 DEF Gentle, Mild, Unprompted, Asleep, Dialing
<1> QED BY <1>5 DEF q, h

\* Going home changes neither the ask nor what is live; the funnel of every end does.
LEMMA HomeGentle ==
  ASSUME NEW p, Whole(p)
  PROVE  /\ Gentle(p, HomeRendered(p))
         /\ HomeRendered(p).micro = p.micro
<1> DEFINE q == HomeRendered(p)
<1>1. q.closing = p.closing /\ q.att = p.att /\ q.live = p.live /\ q.micro = p.micro
      /\ q.sheet = p.sheet
  BY DEF HomeRendered, Whole, Pages
<1> HIDE DEF q
<1>2. Gentle(p, q)
  BY <1>1 DEF Gentle, Mild, Unprompted, Follows, Asleep, Dialing
<1> QED BY <1>1, <1>2 DEF q

LEMMA IdleHomeDark ==
  ASSUME NEW p, Whole(p)
  PROVE  LET q == IdleHome(p)
         IN /\ ~q.live /\ q.closing = p.closing
            /\ Dialing(p) => q.att = p.att /\ q.sheet = p.sheet /\ q.micro = p.micro
            /\ q.att.pc = "start" => q.att = p.att
            /\ Asleep(p) => Asleep(q)
            /\ Unprompted(p, q)
            /\ p.sheet \notin {"hostkey", "prompts"} => q.att = p.att
<1> DEFINE r == IF Dialing(p) THEN p ELSE Settled(p)
           h == [r EXCEPT !.live = FALSE]
           q == HomeRendered(h)
<1>1. Whole(r) /\ Gentle(p, r) /\ (Dialing(p) => r = p)
  BY SettledKeeps, SettledGentle DEF Gentle, Mild, Unprompted, Follows
<1>a. p.sheet \notin {"hostkey", "prompts"} => r.att = p.att
  BY DEF Settled, Whole, Pages
<1> HIDE DEF r
<1>2. Whole(h) /\ h.att = r.att /\ h.sheet = r.sheet /\ h.micro = r.micro /\ ~h.live
      /\ h.closing = r.closing
  BY <1>1 DEF Whole, Owned, Pages
<1> HIDE DEF h
<1>3. q.att = h.att /\ q.sheet = h.sheet /\ q.micro = h.micro /\ q.live = h.live
      /\ q.closing = h.closing
  BY <1>2 DEF HomeRendered, Whole, Pages
<1>4. IdleHome(p) = q
  BY DEF IdleHome, r, h
<1> HIDE DEF q
<1> QED
  BY <1>1, <1>a, <1>2, <1>3, <1>4 DEF Gentle, Mild, Unprompted, Asleep, Dialing

\* A dial begins with the terminal where it was.
LEMMA DoConnectGentle ==
  ASSUME NEW p, Whole(p), NEW from \in {"card", "sheet", "repair", "redial", "auto"},
         NEW with \in [method : Methods \cup {"none"}, command : BOOLEAN]
  PROVE  /\ Mild(p, DoConnect(p, from, with))
         /\ from # "auto" => Unprompted(p, DoConnect(p, from, with))
         /\ Dialing(DoConnect(p, from, with))
<1>1. CASE Dialing(p)
  BY <1>1 DEF DoConnect, Mild, Unprompted, Follows
<1>2. CASE ~Dialing(p)
  <2> DEFINE r == Settled(p)
             a == [pc |-> "load", sid |-> 0, from |-> from, with |-> with]
             q == [r EXCEPT !.screen = "none", !.att = a]
  <2>1. r \in Pages /\ r.sheet = "none" /\ Gentle(p, r)
    BY SettledKeeps, SettledGentle DEF Whole
  <2>2. DoConnect(p, from, with) = q
    BY <1>2 DEF DoConnect
  <2> HIDE DEF r
  <2>3. a.pc = "load" /\ a.from = from
    OBVIOUS
  <2> HIDE DEF a
  <2>4. q.att = a /\ q.sheet = r.sheet /\ q.micro = r.micro /\ q.live = r.live
        /\ q.closing = r.closing
    BY <2>1 DEF Pages
  <2> HIDE DEF q
  <2> QED
    BY <1>2, <2>1, <2>2, <2>3, <2>4
    DEF Gentle, Mild, Unprompted, Follows, Dialed, Asleep, Dialing
<1> QED BY <1>1, <1>2

\* The microtasks leave a live terminal alone, and nothing behind.
LEMMA DrainedGentle ==
  ASSUME NEW p, Whole(p)
  PROVE  /\ Gentle(p, Drained(p)) /\ Drained(p).micro = {}
         /\ ~p.live => ~Drained(p).live
         /\ p.micro = {} => Drained(p) = p
<1> DEFINE p1 == [p EXCEPT !.micro = @ \ {"scanned"}]
           s == IF "scanned" \in p.micro THEN Settled(p1) ELSE p
           s1 == [s EXCEPT !.micro = {}]
           h == IF "home" \in s.micro THEN IdleHome(s1) ELSE s
           q == [h EXCEPT !.micro = {}]
<1>1. Whole(p1) /\ p1.att = p.att /\ p1.sheet = p.sheet /\ p1.live = p.live
      /\ p1.closing = p.closing /\ p1.micro = p.micro \ {"scanned"}
  BY DEF Whole, Owned, Pages
<1>2. Whole(s) /\ Gentle(p, s) /\ (~p.live => ~s.live)
  <2>1. CASE "scanned" \in p.micro
    <3> DEFINE t == Settled(p1)
    <3>1. Whole(t) /\ Gentle(p1, t)
      BY <1>1, SettledKeeps, SettledGentle
    <3>2. t.live = p1.live
      <4> HIDE DEF p1
      <4> QED BY <1>1 DEF Settled, Whole, Pages
    <3>3. s = t
      BY <2>1
    <3> HIDE DEF s, t, p1
    <3> QED BY <1>1, <3>1, <3>2, <3>3 DEF Gentle, Mild, Unprompted, Follows, Asleep, Dialing
  <2>2. CASE "scanned" \notin p.micro
    BY <2>2 DEF Gentle, Mild, Unprompted, Follows
  <2> QED BY <2>1, <2>2
<1> HIDE DEF s
<1>3. Whole(s1) /\ s1.att = s.att /\ s1.sheet = s.sheet /\ s1.live = s.live
      /\ s1.closing = s.closing /\ s1.micro = {}
  BY <1>2 DEF Whole, Owned, Pages
<1>4. h \in Pages /\ Gentle(s, h) /\ (~s.live => ~h.live)
  <2>1. CASE "home" \in s.micro
    <3>1. h = IdleHome(s1)
      BY <2>1
    <3> HIDE DEF s1, h
    <3>2. Whole(h)
      BY <1>3, <3>1, IdleHomeKeeps
    <3>3. s.live \in BOOLEAN /\ h.live \in BOOLEAN
      BY <1>2, <3>2 DEF Whole, Pages
    <3>4. /\ ~h.live /\ h.closing = s.closing
          /\ Dialing(s) => h.att = s.att
          /\ h.att.pc = "start" => h.att = s.att
          /\ Asleep(s1) => Asleep(h)
          /\ Unprompted(s, h) /\ Follows(s, h)
      BY <1>3, <3>1, IdleHomeDark, IdleHomeKeeps DEF Unprompted, Follows, Dialing
    <3> QED
      BY <1>3, <2>1, <3>2, <3>3, <3>4 DEF Whole, Gentle, Mild, Asleep, Dialing
  <2>2. CASE "home" \notin s.micro
    BY <1>2, <2>2 DEF Whole, Gentle, Mild, Unprompted, Follows
  <2> QED BY <2>1, <2>2
<1>5. p.micro = {} => h = p
  BY DEF s, h
<1> HIDE DEF h
<1>6. q.micro = {} /\ q.att = h.att /\ q.sheet = h.sheet /\ q.live = h.live
      /\ q.closing = h.closing /\ (h.micro = {} => q = h)
  BY <1>4 DEF Pages
<1>7. Drained(p) = q
  BY DEF Drained, q, h, s, s1, p1
<1> HIDE DEF q
<1>8. Gentle(h, q)
  BY <1>6 DEF Gentle, Mild, Unprompted, Follows, Asleep, Dialing
<1>9. Gentle(p, q)
  BY <1>2, <1>4, <1>8 DEF Gentle, Mild, Unprompted, Follows
<1> QED BY <1>2, <1>4, <1>5, <1>6, <1>7, <1>9

\* A failed attempt leaves a home screen, or a repair sheet where there was one.
LEMMA FailedDark ==
  ASSUME NEW p, Whole(p), p.sheet \notin {"hostkey", "prompts"}, NEW pairing \in BOOLEAN
  PROVE  LET q == Failed(p, pairing)
         IN /\ q.closing = p.closing /\ q.att = NoAttempt
            /\ Asleep(p) /\ (pairing => ~p.live) => ~q.live /\ Asleep(q)
<1>n. NoAttempt.pc = "idle"
  BY DEF NoAttempt
<1>1. CASE p.att.from = "auto"
  <2> DEFINE q == [p EXCEPT !.att = NoAttempt]
  <2>1. Whole(q) /\ q.att = NoAttempt /\ q.closing = p.closing
        /\ (Asleep(p) => Asleep(q))
    BY Forgotten, <1>n DEF Whole, Pages, Asleep, Dialing
  <2>5. q.sheet \notin {"hostkey", "prompts"}
    BY DEF Whole, Pages
  <2> DEFINE h == IdleHome(q)
  <2>2. Failed(p, pairing) = h
    BY <1>1 DEF Failed
  <2> HIDE DEF q
  <2>3. h.closing = q.closing /\ ~h.live /\ (Asleep(q) => Asleep(h))
    BY <2>1, IdleHomeDark
  <2>4. h.att = NoAttempt
    BY <2>1, <2>5, IdleHomeDark
  <2> HIDE DEF h
  <2> QED BY <2>1, <2>2, <2>3, <2>4
<1>2. CASE p.att.from # "auto" /\ pairing
  <2> DEFINE r == Settled(p)
             h == [r EXCEPT !.sheet = "repair"]
             q == [h EXCEPT !.att = NoAttempt]
  <2>1. r \in Pages /\ Gentle(p, r)
    BY SettledKeeps, SettledGentle DEF Whole
  <2>2. Failed(p, pairing) = q
    BY <1>2 DEF Failed, Shown
  <2> HIDE DEF r
  <2>3. q.att = NoAttempt /\ q.closing = r.closing /\ q.live = r.live /\ q.micro = r.micro
        /\ q.sheet = "repair"
    BY <2>1 DEF Pages
  <2> HIDE DEF q
  <2> QED BY <1>2, <1>n, <2>1, <2>2, <2>3 DEF Gentle, Mild, Asleep, Dialing
<1>3. CASE p.att.from # "auto" /\ ~pairing
  <2> DEFINE i == IdleHome(p)
             home == [i EXCEPT !.att = NoAttempt]
             r == Settled(home)
             c == [r EXCEPT !.sheet = "connect"]
  <2>1. Whole(i) /\ i.sheet \notin {"hostkey", "prompts"} /\ ~i.live /\ i.closing = p.closing
        /\ (Asleep(p) => Asleep(i))
    BY IdleHomeKeeps, IdleHomeDark
  <2>2. Failed(p, pairing) = home \/ Failed(p, pairing) = c
    BY <1>3 DEF Failed, Shown
  <2> HIDE DEF i
  <2>3. home.att = NoAttempt /\ home.closing = i.closing /\ home.live = i.live
        /\ home.micro = i.micro /\ home.sheet = i.sheet /\ Whole(home)
    BY <2>1, Forgotten DEF Whole, Pages
  <2> HIDE DEF home
  <2>4. r.att = NoAttempt /\ r.closing = home.closing /\ r.live = home.live
        /\ r \in Pages /\ r.sheet = "none" /\ Gentle(home, r)
    <3>1. home.sheet \notin {"hostkey", "prompts"}
      BY <2>1, <2>3
    <3>2. r.att = home.att /\ r.closing = home.closing /\ r.live = home.live
      BY <2>3, <3>1 DEF Settled, Whole, Pages
    <3> QED BY <2>3, <3>2, SettledKeeps, SettledGentle DEF Whole
  <2> HIDE DEF r
  <2>5. c.att = r.att /\ c.closing = r.closing /\ c.live = r.live /\ c.micro = r.micro
        /\ c.sheet = "connect"
    BY <2>4 DEF Pages
  <2> HIDE DEF c
  <2> QED
    BY <1>n, <2>1, <2>2, <2>3, <2>4, <2>5 DEF Gentle, Mild, Asleep, Dialing
<1> QED BY <1>1, <1>2, <1>3
-----------------------------------------------------------------------------
(* What a step does to the screen and to the sessions.  Most turn the page *)
(* only; an attempt that fails goes home; the others are looked at singly. *)

\* The page turns, and the attempt's session may have got an answer.
Turns ==
  /\ Gentle(page, page') /\ page'.micro = {}
  /\ UNCHANGED <<current, pumped, instance, tails>>
  /\ \/ UNCHANGED sess
     \/ /\ page.att.pc \in Dialed \ {"start"} /\ sess[page.att.sid] \in Open
        /\ sess' = [sess EXCEPT ![page.att.sid] = "auth"]

\* The attempt is over: home, where nothing keeps the terminal.
Gone(pairing) ==
  /\ page'.closing = page.closing /\ page'.micro = {}
  /\ page'.att.pc \notin Dialed /\ ~(page'.att.pc = "load" /\ page'.att.from = "auto")
  /\ Asleep(page) /\ (pairing => ~page.live) => ~page'.live /\ Asleep(page')

LEMMA GentleTwice ==
  ASSUME NEW p, NEW q, NEW r, Gentle(p, q), Gentle(q, r) PROVE Gentle(p, r)
  BY DEF Gentle, Mild, Unprompted, Follows

\* What concerns neither the attempt nor the terminal.
LEMMA SameGentle ==
  ASSUME NEW p, NEW q, q.att = p.att, q.live = p.live, q.closing = p.closing,
         q.micro = p.micro, q.sheet = p.sheet \/ q.sheet # "repair"
  PROVE  Gentle(p, q)
  BY DEF Gentle, Mild, Unprompted, Follows, Asleep, Dialing

\* A handler that draws a page and lets the microtasks run.
LEMMA TurnBy ==
  ASSUME NEW q, Whole(q), Gentle(page, q), page' = Drained(q),
         UNCHANGED <<sess, current, pumped, instance, tails>>
  PROVE  Turns
  BY DrainedGentle, GentleTwice DEF Turns

\* A handler that only changes a field or two.
LEMMA TurnTo ==
  ASSUME page.micro = {}, page'.att = page.att, page'.live = page.live,
         page'.closing = page.closing, page'.micro = page.micro,
         page'.sheet = page.sheet \/ page'.sheet # "repair",
         UNCHANGED <<sess, current, pumped, instance, tails>>
  PROVE  Turns
  BY SameGentle DEF Turns

LEMMA DialTurn ==
  ASSUME NEW p, Whole(p), Gentle(page, p), NEW from \in {"card", "sheet", "repair", "redial"},
         NEW with \in [method : Methods \cup {"none"}, command : BOOLEAN],
         page' = Drained(DoConnect(p, from, with)), PageOnly
  PROVE  Turns
<1> DEFINE q == DoConnect(p, from, with)
<1>1. Whole(q) /\ Gentle(page, q)
  BY DoConnectKeeps, DoConnectGentle, GentleTwice DEF Gentle
<1>2. page' = Drained(q)
  OBVIOUS
<1> HIDE DEF q
<1> QED BY <1>1, <1>2, TurnBy DEF PageOnly

LEMMA ShowTurn ==
  ASSUME NEW p, Whole(p), Gentle(page, p),
         NEW ask \in Sheets \ {"hostkey", "prompts", "repair"},
         page' = Drained(Shown(p, ask)), PageOnly
  PROVE  Turns
<1> DEFINE q == Shown(p, ask)
<1>1. Whole(q) /\ Gentle(page, q)
  BY ShownKeeps, ShownGentle, GentleTwice
<1>2. page' = Drained(q)
  OBVIOUS
<1> HIDE DEF q
<1> QED BY <1>1, <1>2, TurnBy DEF PageOnly

\* The user, the camera, and the countdown turn the page, and no more.
LEMMA UserTurns ==
  /\ PInd /\ page.micro = {}
  /\ (User /\ ~Disconnect) \/ CountdownFires \/ CameraStarts \/ ScanFinds \/ ScanReturns
  => Turns
<1>w. SUFFICES ASSUME PInd, page.micro = {}, Whole(page), PTypeOK,
                      (User /\ ~Disconnect) \/ CountdownFires \/ CameraStarts \/ ScanFinds
                      \/ ScanReturns
               PROVE  Turns
  BY DEF PInd
<1>m. Params \subseteq [method : Methods \cup {"none"}, command : BOOLEAN]
  BY DEF Params
<1> DEFINE c == CancelResume(page)
           n == [page EXCEPT !.sheet = "none"]
<1>c. Whole(c) /\ Gentle(page, c)
  <2>1. Whole(c) /\ c.att = page.att
    BY <1>w, CancelKeeps
  <2>2. c.live = page.live /\ c.closing = page.closing /\ c.micro = page.micro
        /\ c.sheet = page.sheet
    BY <1>w DEF CancelResume, Whole, Pages
  <2> HIDE DEF c
  <2> QED BY <2>1, <2>2, SameGentle
<1>n. n.att = page.att /\ n.live = page.live /\ n.closing = page.closing
      /\ n.micro = page.micro /\ n.sheet = "none"
  BY <1>w DEF Whole, Pages
<1>g. Gentle(page, n)
  <2> HIDE DEF n
  <2> QED BY <1>n, SameGentle
<1>v. ASSUME page.sheet \notin {"hostkey", "prompts"} PROVE Whole(n)
  BY <1>w, <1>v, PutDown
<1>p. Gentle(page, page)
  BY SameGentle
<1> HIDE DEF c
<1>1. CASE TapCard
  BY <1>1, <1>m, <1>c, DialTurn DEF TapCard, c
<1>2. CASE PasteLink
  BY <1>2, <1>c, ShowTurn DEF PasteLink, Sheets, c
<1>3. CASE CountdownFires
  BY <1>3, <1>c, DialTurn DEF CountdownFires, Methods, c
<1>4. CASE SubmitConnect
  BY <1>4, <1>m, <1>g, <1>v, DialTurn DEF SubmitConnect
<1>5. CASE Scan
  <2> DEFINE p == IF page.sheet = "repair" THEN n ELSE c
             r == Shown(p, "scan")
             q == [r EXCEPT !.scan = "starting"]
  <2>1. Whole(p) /\ Gentle(page, p)
    BY <1>c, <1>g, <1>v
  <2>2. page' = Drained(q) /\ PageOnly
    BY <1>5 DEF Scan, c
  <2> HIDE DEF p
  <2>3. Whole(r) /\ Gentle(page, r) /\ r.sheet = "scan"
    BY <2>1, ShownKeeps, ShownGentle, GentleTwice DEF Sheets
  <2> HIDE DEF r
  <2>4. Whole(q) /\ q.att = r.att /\ q.live = r.live /\ q.closing = r.closing
        /\ q.micro = r.micro /\ q.sheet = r.sheet
    BY <2>3 DEF Whole, Owned, Pages
  <2> HIDE DEF q
  <2>5. Gentle(page, q)
    BY <2>3, <2>4, SameGentle, GentleTwice
  <2> QED BY <2>2, <2>4, <2>5, TurnBy DEF PageOnly
<1>6. CASE CameraStarts
  <2>1. page'.att = page.att /\ page'.live = page.live /\ page'.closing = page.closing
        /\ page'.micro = page.micro /\ page'.sheet = page.sheet
    BY <1>6, <1>w DEF CameraStarts, Whole, Pages
  <2> QED BY <1>6, <1>w, <2>1, TurnTo DEF CameraStarts, PageOnly
<1>7. CASE ScanFinds
  <2> DEFINE p == [page EXCEPT !.sheet = "none", !.scan = "off"]
  <2>1. Whole(p) /\ p.att = page.att /\ p.live = page.live /\ p.closing = page.closing
        /\ p.micro = page.micro /\ p.sheet = "none"
    BY <1>7, <1>w DEF ScanFinds, Whole, Owned, Pages, Sheets
  <2>2. page' = Drained(Shown(p, "connect")) /\ PageOnly
    BY <1>7 DEF ScanFinds
  <2> HIDE DEF p
  <2> QED BY <2>1, <2>2, SameGentle, ShowTurn DEF Sheets
<1>8. CASE ScanReturns
  <2> DEFINE p == [page EXCEPT !.scan = "off"]
             q == Settled(p)
  <2>1. Whole(p) /\ p.att = page.att /\ p.live = page.live /\ p.closing = page.closing
        /\ p.micro = page.micro /\ p.sheet = page.sheet
    BY <1>w DEF Whole, Owned, Pages
  <2>2. page' = Drained(q) /\ PageOnly
    BY <1>8 DEF ScanReturns
  <2> HIDE DEF p
  <2>3. Whole(q) /\ Gentle(page, q)
    BY <2>1, SettledKeeps, SettledGentle, SameGentle, GentleTwice
  <2> HIDE DEF q
  <2> QED BY <2>2, <2>3, TurnBy DEF PageOnly
<1>9. CASE SessionsButton
  <2>1. CASE page' = Drained(Shown(page, "session"))
    BY <1>9, <1>w, <1>p, <2>1, ShowTurn DEF SessionsButton, Sheets
  <2>2. CASE page' = Drained(page)
    BY <1>9, <1>w, <1>p, <2>2, TurnBy DEF SessionsButton, PageOnly
  <2>3. CASE page' = Drained(HomeRendered(page))
    <3>1. Whole(HomeRendered(page)) /\ Gentle(page, HomeRendered(page))
      BY <1>w, HomeKeeps, HomeGentle
    <3> QED BY <1>9, <2>3, <3>1, TurnBy DEF SessionsButton, PageOnly
  <2> QED BY <1>9, <2>1, <2>2, <2>3 DEF SessionsButton
<1>10. CASE AttachOther
  BY <1>10, <1>w, <1>g, <1>v, DialTurn DEF AttachOther, PTypeOK
<1>11. CASE SettingsFromSession
  <2>1. page'.att = page.att /\ page'.live = page.live /\ page'.closing = page.closing
        /\ page'.micro = page.micro /\ page'.sheet = "none"
    BY <1>11, <1>w DEF SettingsFromSession, Whole, Pages
  <2> QED BY <1>11, <1>w, <2>1, TurnTo DEF SettingsFromSession, PageOnly
<1>12. CASE ForgetPin
  BY <1>12, <1>w, TurnTo DEF ForgetPin
<1>13. CASE OpenPrefs
  <2>1. page'.att = page.att /\ page'.live = page.live /\ page'.closing = page.closing
        /\ page'.micro = page.micro /\ page'.sheet = page.sheet
    BY <1>13, <1>w DEF OpenPrefs, CancelResume, Whole, Pages
  <2> QED BY <1>13, <1>w, <2>1, TurnTo DEF OpenPrefs, PageOnly
<1>14. CASE LeavePrefs
  <2>1. page'.att = page.att /\ page'.live = page.live /\ page'.closing = page.closing
        /\ page'.micro = page.micro /\ page'.sheet = page.sheet
    BY <1>14, <1>w DEF LeavePrefs, HomeRendered, Whole, Pages
  <2> QED BY <1>14, <1>w, <2>1, TurnTo DEF LeavePrefs, PageOnly
<1>15. CASE Repaired
  BY <1>15, <1>m, <1>g, <1>v, DialTurn DEF Repaired
<1>16. CASE Reattach
  <2>1. PICK b \in BOOLEAN :
          page' = Drained(DoConnect(n, "redial", [last EXCEPT !.command = b]))
    BY <1>16 DEF Reattach
  <2>2. [last EXCEPT !.command = b] \in [method : Methods \cup {"none"}, command : BOOLEAN]
    BY <1>w DEF PTypeOK
  <2> QED BY <1>16, <1>g, <1>v, <2>1, <2>2, DialTurn DEF Reattach
<1>17. CASE Gesture
  <2>1. page' = n /\ PageOnly
    BY <1>17 DEF Gesture
  <2> QED BY <1>n, <1>w, <2>1, TurnTo DEF PageOnly
<1>18. CASE Dismiss
  BY <1>18, <1>w, SettledKeeps, SettledGentle, TurnBy DEF Dismiss, PageOnly
<1>19. CASE Approve \/ AnswerPrompts
  <2>1. page.att.pc \in Dialed \ {"start"}
    BY <1>19 DEF Approve, AnswerPrompts, At, Dialed
  <2>2. PICK pc \in {"cred", "poll"} : page' = [page EXCEPT !.sheet = "none", !.att.pc = pc]
    BY <1>19 DEF Approve, AnswerPrompts
  <2>3. page'.att.pc = pc /\ page'.att.sid = page.att.sid /\ page'.live = page.live /\ page'.closing = page.closing
        /\ page'.micro = page.micro /\ page'.sheet = "none"
    BY <1>w, <2>2 DEF Whole, Pages, Attempts
  <2>4. Gentle(page, page')
    BY <2>1, <2>3 DEF Gentle, Mild, Unprompted, Follows, Asleep, Dialing
  <2>5. sess' = [sess EXCEPT ![page.att.sid] = IF @ \in Open THEN "auth" ELSE @]
    BY <1>19 DEF Approve, AnswerPrompts
  <2>6. page.att.sid \in Sessions
    BY <1>w, <2>1 DEF PInd, AttemptOwnsCurrent
  <2>7. UNCHANGED sess \/ /\ sess[page.att.sid] \in Open
                          /\ sess' = [sess EXCEPT ![page.att.sid] = "auth"]
    BY <1>w, <2>5, <2>6 DEF PTypeOK
  <2>8. UNCHANGED <<current, pumped, instance, tails>>
    BY <1>19 DEF Approve, AnswerPrompts
  <2> QED BY <1>w, <2>1, <2>3, <2>4, <2>7, <2>8 DEF Turns
<1> QED
  BY <1>w, <1>1, <1>2, <1>3, <1>4, <1>5, <1>6, <1>7, <1>8, <1>9, <1>10, <1>11, <1>12, <1>13,
     <1>14, <1>15, <1>16, <1>17, <1>18, <1>19 DEF User

\* An attempt that fails.
LEMMA FailGone ==
  ASSUME Whole(page), page.sheet \notin {"hostkey", "prompts"}, NEW fatal,
         NEW pairing \in BOOLEAN, Fail(fatal, pairing)
  PROVE  Gone(pairing)
<1> DEFINE f == Failed(page, pairing)
           q == Drained(f)
<1>1. Whole(f)
  BY FailedKeeps
<1>2. f.closing = page.closing /\ f.att = NoAttempt
      /\ (Asleep(page) /\ (pairing => ~page.live) => ~f.live /\ Asleep(f))
  BY FailedDark
<1>3. page' = q
  BY DEF Fail
<1> HIDE DEF f
<1>4. Gentle(f, q) /\ q.micro = {} /\ (~f.live => ~q.live)
  BY <1>1, DrainedGentle
<1> HIDE DEF q
<1>5. NoAttempt.pc = "idle"
  BY DEF NoAttempt
<1> QED BY <1>2, <1>3, <1>4, <1>5 DEF Gone, Gentle, Mild, Unprompted, Follows, Dialed

\* A gate passed or put to the user, a credential sent, a batch of prompts, a ceremony.
LEMMA AttemptTurns ==
  ASSUME PInd, page.micro = {}, Gate \/ Credential \/ Prompted \/ Ceremony
  PROVE  \/ Turns
         \/ /\ Credential /\ Gone(FALSE) /\ page.att.pc \in Dialed
            /\ UNCHANGED <<sess, current, pumped, instance, tails>>
<1>w. Whole(page) /\ PTypeOK
  BY DEF PInd
<1>1. ASSUME NEW ask \in {"hostkey", "prompts"}, page.att.pc \in Dialed,
             page' = Drained([Shown(page, ask) EXCEPT !.att.pc = ask]),
             UNCHANGED <<sess, current, pumped, instance, tails>>
      PROVE  Turns
  <2> DEFINE q == [Shown(page, ask) EXCEPT !.att.pc = ask]
  <2>1. Whole(q) /\ Gentle(page, q)
    BY <1>1, <1>w, AskedKeeps, AskedGentle
  <2>2. page' = Drained(q)
    BY <1>1
  <2> HIDE DEF q
  <2> QED BY <1>1, <2>1, <2>2, TurnBy
<1>2. ASSUME NEW pc \in {"cred", "poll"}, page.att.pc \in Dialed,
             page' = [page EXCEPT !.att.pc = pc]
      PROVE  Gentle(page, page') /\ page'.micro = {}
  <2>1. page'.att.pc = pc /\ page'.att.sid = page.att.sid /\ page'.live = page.live /\ page'.closing = page.closing
        /\ page'.micro = page.micro /\ page'.sheet = page.sheet
    BY <1>w, <1>2 DEF Whole, Pages, Attempts
  <2> QED BY <1>2, <2>1 DEF Gentle, Mild, Unprompted, Follows, Asleep, Dialing, Dialed
<1>3. CASE Gate
  <2>1. page.att.pc \in Dialed \ {"start"} /\ sess[page.att.sid] \in Open
    BY <1>3 DEF Gate, At, Dialed, Mine, Open
  <2>2. UNCHANGED <<current, pumped, instance, tails>>
    BY <1>3 DEF Gate
  <2>3. CASE page' = [page EXCEPT !.att.pc = "cred"] /\ sess' = [sess EXCEPT ![page.att.sid] = "auth"]
    BY <1>2, <2>1, <2>2, <2>3 DEF Turns
  <2>4. CASE page' = Drained([Shown(page, "hostkey") EXCEPT !.att.pc = "hostkey"]) /\ UNCHANGED sess
    BY <1>1, <2>1, <2>2, <2>4
  <2> QED BY <1>3, <2>3, <2>4 DEF Gate
<1>4. CASE Credential
  <2>1. page.att.pc \in Dialed
    BY <1>4 DEF Credential, At, Dialed
  <2>2. UNCHANGED <<sess, current, pumped, instance, tails>>
    BY <1>4 DEF Credential
  <2>3. CASE page' = Drained([Shown(page, "prompts") EXCEPT !.att.pc = "prompts"])
    BY <1>1, <2>1, <2>2, <2>3
  <2>4. CASE page' = [page EXCEPT !.att.pc = "poll"]
    BY <1>2, <2>1, <2>2, <2>4 DEF Turns
  <2>5. CASE Fail(TRUE, FALSE)
    <3>1. page.sheet \notin {"hostkey", "prompts"}
      BY <1>4, <1>w DEF Credential, At, Whole, Owned
    <3> QED BY <1>4, <1>w, <2>1, <2>2, <2>5, <3>1, FailGone
  <2> QED BY <1>4, <2>3, <2>4, <2>5 DEF Credential
<1>5. CASE Prompted
  BY <1>1, <1>5 DEF Prompted, At, Dialed
<1>6. CASE Ceremony
  BY <1>6, <1>w, ShownKeeps, ShownGentle, TurnBy DEF Ceremony, Sheets
<1> QED BY <1>3, <1>4, <1>5, <1>6

\* An attempt that fails goes, wherever it was.
LEMMA AttemptGone ==
  ASSUME PInd
  PROVE  /\ DialFails \/ SettleTimeout \/ PollClosed \/ Cancelled \/ Rejected => Gone(FALSE)
         /\ SettleClosed => /\ page.att.pc \in Dialed
                            /\ \E pairing \in BOOLEAN : /\ Gone(pairing)
                                                        /\ pairing /\ page.live => "pairing" \in Known
<1>w. Whole(page)
  BY DEF PInd
<1>q. ASSUME page.att.pc \notin {"hostkey", "prompts"} PROVE page.sheet \notin {"hostkey", "prompts"}
  BY <1>w, <1>q DEF Whole, Owned
<1>1. ASSUME DialFails \/ SettleTimeout \/ PollClosed \/ Cancelled PROVE Gone(FALSE)
  <2>1. page.att.pc \notin {"hostkey", "prompts"}
    BY <1>1 DEF DialFails, SettleTimeout, PollClosed, Cancelled, At
  <2>2. Fail(FALSE, FALSE) \/ Fail(TRUE, FALSE)
    BY <1>1 DEF DialFails, SettleTimeout, PollClosed, Cancelled
  <2> QED BY <1>q, <1>w, <2>1, <2>2, FailGone
<1>2. ASSUME Rejected PROVE Gone(FALSE)
  <2>1. page.sheet \notin {"hostkey", "prompts"}
    BY <1>2, <1>q DEF Rejected, At
  <2> DEFINE q == [page EXCEPT !.att = NoAttempt]
             i == IdleHome(page)
             h == [i EXCEPT !.att = NoAttempt]
  <2>n. NoAttempt.pc = "idle"
    BY DEF NoAttempt
  <2>2. Whole(q) /\ q.att = NoAttempt /\ q.closing = page.closing /\ (Asleep(page) => Asleep(q))
        /\ q.sheet \notin {"hostkey", "prompts"}
    BY <1>w, <2>1, <2>n, Forgotten DEF Whole, Pages, Asleep, Dialing
  <2>3. Whole(i) /\ i.closing = page.closing /\ (Asleep(page) => Asleep(i)) /\ ~i.live
        /\ i.sheet \notin {"hostkey", "prompts"}
    BY <1>w, <2>1, IdleHomeKeeps, IdleHomeDark
  <2>4. page' = Drained(IdleHome(q)) \/ page' = Drained(h)
    BY <1>2 DEF Rejected
  <2> HIDE DEF q, i
  <2>5. Whole(h) /\ h.att = NoAttempt /\ h.closing = i.closing /\ h.live = i.live
        /\ (Asleep(i) => Asleep(h))
    BY <2>3, <2>n, Forgotten DEF Whole, Pages, Asleep, Dialing
  <2> HIDE DEF h
  <2>6. ASSUME NEW f, Whole(f), f.att = NoAttempt, f.closing = page.closing, ~f.live,
               Asleep(page) => Asleep(f), page' = Drained(f)
        PROVE  Gone(FALSE)
    <3>1. Gentle(f, page') /\ page'.micro = {} /\ ~page'.live
      BY <2>6, DrainedGentle
    <3> QED BY <2>6, <2>n, <3>1 DEF Gone, Gentle, Mild, Unprompted, Follows, Dialed
  <2>7. IdleHome(q).att = NoAttempt /\ IdleHome(q).closing = page.closing /\ ~IdleHome(q).live
        /\ (Asleep(page) => Asleep(IdleHome(q))) /\ Whole(IdleHome(q))
    BY <2>2, IdleHomeDark, IdleHomeKeeps
  <2> QED BY <2>3, <2>4, <2>5, <2>6, <2>7
<1>3. ASSUME SettleClosed
      PROVE  /\ page.att.pc \in Dialed
             /\ \E pairing \in BOOLEAN : /\ Gone(pairing)
                                         /\ pairing /\ page.live => "pairing" \in Known
  <2>1. page.att.pc \in Dialed /\ page.sheet \notin {"hostkey", "prompts"}
    BY <1>3, <1>q DEF SettleClosed, At, Dialed
  <2>2. PICK pairing \in BOOLEAN : /\ pairing /\ page.live => "pairing" \in Known
                                   /\ Fail(TRUE, pairing)
    BY <1>3 DEF SettleClosed
  <2> QED BY <1>w, <2>1, <2>2, FailGone
<1> QED BY <1>1, <1>2, <1>3

\* Home again, and no attempt begun or brought to its start.
Dark(closing) ==
  /\ page'.closing = closing /\ page'.micro = {} /\ ~page'.live
  /\ Follows(page, page') /\ (page'.att.pc = "start" => page'.att = page.att)
  /\ Unprompted(page, page')
  /\ Asleep(page) => Asleep(page')

\* A handler that goes home, and what it may show there.
LEMMA DarkBy ==
  ASSUME NEW p, Whole(p), p.att = page.att, Asleep(page) => Asleep(p),
         page' \in {Drained(IdleHome(p)), Drained(Shown(IdleHome(p), "ended"))}
  PROVE  Dark(p.closing)
<1> DEFINE i == IdleHome(p)
           e == Shown(i, "ended")
<1>1. Whole(i) /\ ~i.live /\ i.closing = p.closing /\ Unprompted(p, i) /\ Follows(p, i)
      /\ (i.att.pc = "start" => i.att = p.att) /\ (Asleep(p) => Asleep(i))
  BY IdleHomeKeeps, IdleHomeDark
<1> HIDE DEF i
<1>2. Whole(e) /\ Gentle(i, e)
  BY <1>1, ShownKeeps, ShownGentle DEF Sheets
<1>3. ~e.live
  <2>1. e.live = i.live
    BY <1>1 DEF e, Shown, Settled, Whole, Pages
  <2> QED BY <1>1, <2>1
<1>4. page' = Drained(i) \/ page' = Drained(e)
  BY DEF i, e
<1> HIDE DEF e
<1>5. PICK f \in {i, e} : page' = Drained(f)
  BY <1>4
<1>6. Whole(f) /\ ~f.live /\ f.closing = p.closing /\ Unprompted(p, f) /\ Follows(p, f)
      /\ (f.att.pc = "start" => f.att = p.att) /\ (Asleep(p) => Asleep(f))
  BY <1>1, <1>2, <1>3 DEF Gentle, Mild, Unprompted, Follows
<1>7. Gentle(f, page') /\ page'.micro = {} /\ ~page'.live
  BY <1>5, <1>6, DrainedGentle
<1> QED BY <1>6, <1>7 DEF Dark, Gentle, Mild, Unprompted, Follows

\* What an ending does to the page.
LEMMA EndTurns ==
  ASSUME PInd, page.micro = {}
  PROVE  /\ Disconnected => Dark(FALSE)
         /\ Disconnect => IF current = 0 THEN Dark(page.closing)
                          ELSE /\ page'.closing /\ page'.micro = {} /\ page'.att = page.att
                               /\ Asleep(page) => Asleep(page')
         /\ \A s \in Sessions :
              TailDone(s) =>
                \/ Dark(page.closing)
                \/ /\ Mild(page, page') /\ Dialing(page') /\ page'.micro = {}
                   /\ sess[s] \in {"lost", "poisoned"}
<1>w. Whole(page) /\ PTypeOK
  BY DEF PInd
<1>1. ASSUME Disconnected PROVE Dark(FALSE)
  <2> DEFINE p == [page EXCEPT !.closing = FALSE]
  <2>1. Whole(p) /\ p.att = page.att /\ (Asleep(page) => Asleep(p)) /\ p.closing = FALSE
    BY <1>w DEF Whole, Owned, Pages, Asleep, Dialing
  <2>2. page' = Drained(IdleHome(p))
    BY <1>1 DEF Disconnected
  <2> HIDE DEF p
  <2> QED BY <2>1, <2>2, DarkBy
<1>2. ASSUME Disconnect
      PROVE  IF current = 0 THEN Dark(page.closing)
             ELSE /\ page'.closing /\ page'.micro = {} /\ page'.att = page.att
                  /\ Asleep(page) => Asleep(page')
  <2> DEFINE p == [page EXCEPT !.sheet = "none"]
             c == [p EXCEPT !.closing = TRUE]
  <2>1. Whole(p) /\ p.att = page.att /\ (Asleep(page) => Asleep(p)) /\ p.closing = page.closing
        /\ p.micro = {} /\ p.sheet = "none" /\ p.live = page.live
    BY <1>2, <1>w DEF Disconnect, Whole, Owned, Pages, Sheets, Asleep, Dialing
  <2>2. page' = Drained(IF current = 0 THEN IdleHome(p) ELSE c)
    BY <1>2 DEF Disconnect
  <2> HIDE DEF p
  <2>3. Whole(c) /\ c.att = p.att /\ c.closing /\ c.micro = {} /\ c.sheet = "none"
        /\ c.live = p.live
    BY <2>1 DEF Whole, Owned, Pages
  <2> HIDE DEF c
  <2>4. Drained(c) = c
    BY <2>3, DrainedGentle
  <2>5. CASE current = 0
    BY <2>1, <2>2, <2>5, DarkBy
  <2>6. CASE current # 0
    BY <2>1, <2>2, <2>3, <2>4, <2>6 DEF Asleep
  <2> QED BY <2>5, <2>6
<1>3. ASSUME NEW s \in Sessions, TailDone(s)
      PROVE  \/ Dark(page.closing)
             \/ /\ Mild(page, page') /\ Dialing(page') /\ page'.micro = {}
                /\ sess[s] \in {"lost", "poisoned"}
  <2> DEFINE d == DoConnect(page, "auto", last)
  <2>1. CASE page' = Drained(d) /\ sess[s] \in {"lost", "poisoned"}
    <3>1. Whole(d) /\ Mild(page, d) /\ Dialing(d)
      BY <1>w, DoConnectKeeps, DoConnectGentle DEF PTypeOK
    <3> HIDE DEF d
    <3> QED BY <2>1, <3>1, DrainedGentle DEF Gentle, Mild, Follows, Dialing
  <2>2. CASE page' \in {Drained(IdleHome(page)), Drained(Shown(IdleHome(page), "ended"))}
    BY <1>w, <2>2, DarkBy
  <2> QED BY <1>3, <2>1, <2>2 DEF TailDone
<1> QED BY <1>1, <1>2, <1>3
-----------------------------------------------------------------------------
(* The automatic reconnect dials through a usable instance. *)

Upkeep ==
  /\ pumped \in {0} \cup Sessions /\ tails \subseteq Sessions
  /\ instance \in {"ok", "poisoned"}
  /\ page.micro = {}

\* A login is not decided while an earlier ending is still being dealt with.
ReadyIsQuiet == current # 0 /\ sess[current] = "ready" => tails = {} /\ ~page.closing

\* Only the poisoned session itself is ended through a poisoned instance.
PoisonIsKnown ==
  instance = "poisoned" => /\ current # 0 => sess[current] = "poisoned"
                           /\ \A s \in tails : sess[s] = "poisoned"

\* Nothing can poison the instance the reconnect is about to use.
AutoIsFresh ==
  At("load") /\ page.att.from = "auto" =>
    /\ instance = "ok"
    /\ current # 0 => sess[current] # "ready"

Settles == Upkeep /\ ReadyIsQuiet /\ PoisonIsKnown /\ AutoIsFresh

LEMMA InitSettles == PInit => Settles
<1> SUFFICES ASSUME PInit PROVE Settles
  OBVIOUS
<1> DEFINE p == [sheet |-> "none", screen |-> "none", live |-> FALSE,
                 scan |-> "off", resume |-> "pending", micro |-> {},
                 closing |-> FALSE, att |-> NoAttempt]
<1>1. page = HomeRendered(p)
  BY DEF PInit
<1>2. page.micro = {} /\ page.att = NoAttempt
  BY <1>1 DEF HomeRendered
<1> QED
  BY <1>2
  DEF PInit, Settles, Upkeep, ReadyIsQuiet, PoisonIsKnown, AutoIsFresh, At, NoAttempt

\* A page that turns.
LEMMA SettlesTurn == PInd /\ Settles /\ Turns => Settles'
<1> SUFFICES ASSUME PInd, Settles, Turns PROVE Settles'
  OBVIOUS
<1>1. /\ page.att.pc \in Dialed => page.att.sid \in Sessions /\ current \in {0, page.att.sid}
      /\ current \in {0} \cup Sessions
      /\ \A s \in Sessions : sess[s] \in Open => s = current
      /\ sess \in [Sessions -> {"none", "detached", "closed"} \cup Open \cup Ended]
  BY DEF PInd, AttemptOwnsCurrent, PTypeOK, NoOrphanSession
<1>2. UNCHANGED <<current, pumped, instance, tails>> /\ page'.micro = {}
      /\ page'.closing = page.closing /\ Unprompted(page, page')
  BY DEF Turns, Gentle, Mild
<1>3. \A s \in Sessions : sess'[s] # sess[s] => sess[s] \in Open /\ sess'[s] = "auth"
  BY <1>1 DEF Turns
<1>4. Upkeep'
  BY <1>2 DEF Settles, Upkeep
<1>5. ReadyIsQuiet'
  BY <1>1, <1>2, <1>3 DEF Settles, ReadyIsQuiet
<1>6. PoisonIsKnown'
  BY <1>1, <1>2, <1>3 DEF Settles, Upkeep, PoisonIsKnown, Open
<1>7. AutoIsFresh'
  BY <1>1, <1>2, <1>3 DEF Settles, AutoIsFresh, Unprompted, At
<1> QED BY <1>4, <1>5, <1>6, <1>7 DEF Settles

\* An attempt that goes, with or without its session.
LEMMA SettlesGone ==
  ASSUME PInd, Settles, NEW pairing, Gone(pairing), UNCHANGED <<pumped, instance, tails>>,
         UNCHANGED <<sess, current>> \/ (Rejected \/ Cancelled)
  PROVE  Settles'
<1>1. page'.micro = {} /\ page'.closing = page.closing
      /\ ~(page'.att.pc = "load" /\ page'.att.from = "auto")
  BY DEF Gone
<1>2. CASE UNCHANGED <<sess, current>>
  BY <1>1, <1>2 DEF Settles, Upkeep, ReadyIsQuiet, PoisonIsKnown, AutoIsFresh, At
<1>3. CASE Rejected \/ Cancelled
  <2>1. page.att.sid \in Sessions
    BY <1>3 DEF PInd, AttemptOwnsCurrent, Rejected, Cancelled, At, Dialed
  <2>2. current' = 0
    BY <1>3 DEF Rejected, Cancelled
  <2>3. \A s \in Sessions : sess[s] = "poisoned" => sess'[s] = "poisoned"
    BY <1>3, <2>1 DEF PInd, PTypeOK, Rejected, Cancelled, Open
  <2> QED
    BY <1>1, <2>2, <2>3 DEF Settles, Upkeep, ReadyIsQuiet, PoisonIsKnown, AutoIsFresh, At
<1> QED BY <1>2, <1>3

\* The attempt's own steps.
LEMMA SettlesAttempt == PInd /\ Settles /\ Attempt => Settles'
<1> SUFFICES ASSUME PInd, Settles, Attempt PROVE Settles'
  OBVIOUS
<1>u. page.micro = {}
  BY DEF Settles, Upkeep
<1>w. Whole(page) /\ PTypeOK
  BY DEF PInd
<1>1. CASE DialFails \/ SettleTimeout \/ PollClosed \/ SettleClosed
  <2>1. \E pairing : Gone(pairing)
    BY <1>1, AttemptGone
  <2> QED
    BY <1>1, <2>1, SettlesGone DEF DialFails, SettleTimeout, PollClosed, SettleClosed
<1>2. CASE Rejected \/ Cancelled
  <2>1. Gone(FALSE) /\ UNCHANGED <<pumped, instance, tails>>
    BY <1>2, AttemptGone DEF Rejected, Cancelled
  <2> QED BY <1>2, <2>1, SettlesGone
<1>3. CASE Gate \/ Credential \/ Prompted \/ Ceremony
  <2>1. \/ Turns
        \/ Gone(FALSE) /\ UNCHANGED <<sess, current, pumped, instance, tails>>
    BY <1>3, <1>u, AttemptTurns
  <2> QED BY <2>1, SettlesTurn, SettlesGone
<1>4. CASE PollReady
  <2>1. page'.att.pc = "start" /\ page'.closing = page.closing /\ page'.micro = page.micro
    BY <1>4, <1>w DEF PollReady, Whole, Pages, Attempts
  <2> QED
    BY <1>4, <2>1
    DEF PollReady, Settles, Upkeep, ReadyIsQuiet, PoisonIsKnown, AutoIsFresh, At
<1>5. CASE Start
  <2>1. page'.att = NoAttempt /\ page'.closing = page.closing /\ page'.micro = page.micro
    BY <1>5, <1>w DEF Start, Whole, Pages
  <2>2. page.att.sid \in Sessions
    BY <1>5 DEF PInd, AttemptOwnsCurrent, Start, At, Dialed
  <2> QED
    BY <1>5, <2>1, <2>2
    DEF Start, Settles, Upkeep, ReadyIsQuiet, PoisonIsKnown, AutoIsFresh, At, NoAttempt
<1>6. ASSUME NEW s \in Sessions, Dial(s) PROVE Settles'
  <2>1. page'.att.pc = "settle" /\ page'.closing = page.closing /\ page'.micro = page.micro
    BY <1>6, <1>w DEF Dial, Whole, Pages, Attempts
  <2>2. current' = s /\ sess'[s] = "connecting"
    BY <1>6, <1>w DEF Dial, Superseded
  <2> QED
    BY <1>6, <2>1, <2>2
    DEF Dial, Settles, Upkeep, ReadyIsQuiet, PoisonIsKnown, AutoIsFresh, At
<1> QED BY <1>1, <1>2, <1>3, <1>4, <1>5, <1>6 DEF Attempt

\* The endings, and what the component's sessions do of themselves.
LEMMA SettlesEnd ==
  /\ PInd /\ Settles
  /\ \/ SessionEnded \/ Disconnect \/ Disconnected \/ Rest \/ Poison
     \/ \E s \in Sessions : TailDone(s) \/ Decided(s) \/ Component(s)
  => Settles'
<1>w. SUFFICES ASSUME PInd, Settles, Whole(page), PTypeOK, page.micro = {},
                      \/ SessionEnded \/ Disconnect \/ Disconnected \/ Rest \/ Poison
                      \/ \E s \in Sessions : TailDone(s) \/ Decided(s) \/ Component(s)
               PROVE  Settles'
  BY DEF PInd, Settles, Upkeep
<1>1. CASE SessionEnded
  BY <1>1, <1>w
  DEF SessionEnded, PTypeOK, Settles, Upkeep, ReadyIsQuiet, PoisonIsKnown, AutoIsFresh, At
<1>2. CASE Disconnect
  <2>1. page'.micro = {} /\ (page'.att.pc = "load" => Unprompted(page, page'))
        /\ (current = 0 => page'.closing = page.closing)
    BY <1>2, <1>w, EndTurns DEF Dark, Unprompted
  <2>2. \A s \in Sessions : sess[s] = "poisoned" => sess'[s] = "poisoned"
    BY <1>2, <1>w DEF Disconnect, PTypeOK, Open
  <2> QED
    BY <1>2, <1>w, <2>1, <2>2
    DEF Disconnect, Settles, Upkeep, ReadyIsQuiet, PoisonIsKnown, AutoIsFresh, At, Unprompted
<1>3. CASE Disconnected
  <2>1. Dark(FALSE)
    BY <1>3, <1>w, EndTurns
  <2> QED
    BY <1>3, <1>w, <2>1
    DEF Disconnected, Dark, Settles, Upkeep, ReadyIsQuiet, PoisonIsKnown, AutoIsFresh, At,
        Unprompted
<1>4. CASE Rest
  BY <1>4, <1>w DEF Rest, Settles, Upkeep, ReadyIsQuiet, PoisonIsKnown, AutoIsFresh, At
<1>5. CASE Poison
  <2>1. page.att.pc = "load" => page.att.from # "auto"
    BY <1>5, <1>w DEF Poison, Settles, AutoIsFresh, At
  <2> QED
    BY <1>5, <1>w, <2>1
    DEF Poison, PTypeOK, Settles, Upkeep, ReadyIsQuiet, PoisonIsKnown, AutoIsFresh, At
<1>6. ASSUME NEW s \in Sessions, TailDone(s) PROVE Settles'
  <2>1. instance' = "ok" /\ UNCHANGED <<sess, current, pumped>> /\ tails' = tails \ {s}
    BY <1>6, <1>w DEF TailDone, Discarded, Settles, Upkeep, PoisonIsKnown
  <2>2. current # 0 => sess[current] # "ready"
    BY <1>6, <1>w DEF TailDone, Settles, ReadyIsQuiet
  <2>3. page'.micro = {}
    BY <1>6, <1>w, EndTurns DEF Dark
  <2> QED
    BY <1>w, <2>1, <2>2, <2>3
    DEF Settles, Upkeep, ReadyIsQuiet, PoisonIsKnown, AutoIsFresh, At
<1>7. ASSUME NEW s \in Sessions, Decided(s) \/ Component(s) PROVE Settles'
  <2>1. PICK to \in {"none", "detached", "closed"} \cup Open \cup Ended :
          /\ sess' = [sess EXCEPT ![s] = to] /\ sess[s] \in Open
          /\ to = "ready" => At("poll") /\ tails = {} /\ ~page.closing
    BY <1>7 DEF Decided, Component, Becomes, Open, Ended
  <2>2. UNCHANGED <<page, current, pumped, instance, tails>>
    BY <1>7 DEF Decided, Component, Outside
  <2> QED
    BY <1>w, <2>1, <2>2
    DEF PTypeOK, Settles, Upkeep, ReadyIsQuiet, PoisonIsKnown, AutoIsFresh, At, Open
<1> QED BY <1>w, <1>1, <1>2, <1>3, <1>4, <1>5, <1>6, <1>7

LEMMA NextSettles == PInd /\ Settles /\ [PNext]_pvars => Settles'
<1> SUFFICES ASSUME PInd, Settles, [PNext]_pvars PROVE Settles'
  OBVIOUS
<1>1. CASE UNCHANGED pvars
  BY <1>1 DEF pvars, Settles, Upkeep, ReadyIsQuiet, PoisonIsKnown, AutoIsFresh, At
<1>2. CASE PNext
  BY <1>2, SettlesAttempt, SettlesEnd, UserTurns, SettlesTurn DEF PNext, User, Settles, Upkeep
<1> QED BY <1>1, <1>2
-----------------------------------------------------------------------------
(* The screen is true. *)

Fed == current # 0 /\ current = pumped
Up == {"ready"} \cup Ended

\* What has been dialed since is not what feeds the screen.
PumpedIsPast ==
  /\ pumped # 0 => sess[pumped] # "none"
  /\ page.att.pc \in Dialed => pumped # page.att.sid /\ sess[page.att.sid] # "none"

\* An attempt about to start its terminal has the page's session, and no ending waits.
StartIsClear ==
  At("start") => /\ current = page.att.sid /\ sess[current] \in Up
                 /\ tails = {} /\ ~page.closing

\* A session that feeds the screen is up, no ending waits, and the terminal is shown.
FedIsLive ==
  Fed => /\ sess[current] \in Up /\ tails = {} /\ ~page.closing
         /\ sess[current] = "ready" => page.live

\* A terminal is shown for a session, or until what is in flight takes it away.
LiveIsFed == page.live /\ ~Dialing(page) /\ ~page.closing /\ tails = {} => Fed

Shows == Asleep(page) /\ PumpedIsPast /\ StartIsClear /\ FedIsLive /\ LiveIsFed

LEMMA InitShows == PInit => Shows
<1> SUFFICES ASSUME PInit PROVE Shows
  OBVIOUS
<1> DEFINE p == [sheet |-> "none", screen |-> "none", live |-> FALSE,
                 scan |-> "off", resume |-> "pending", micro |-> {},
                 closing |-> FALSE, att |-> NoAttempt]
<1>1. page = HomeRendered(p)
  BY DEF PInit
<1>2. page.micro = {} /\ page.att = NoAttempt /\ page.sheet = "none" /\ ~page.live
  BY <1>1 DEF HomeRendered
<1> QED
  BY <1>2
  DEF PInit, Shows, Asleep, PumpedIsPast, StartIsClear, FedIsLive, LiveIsFed, Fed, At,
      NoAttempt, Dialed

\* While an attempt has dialed, nothing feeds the screen.
LEMMA Unfed == PInd /\ Shows /\ page.att.pc \in Dialed => ~Fed
  BY DEF PInd, AttemptOwnsCurrent, Shows, PumpedIsPast, Fed

LEMMA ShowsTurn == PInd /\ Settles /\ Shows /\ Turns => Shows'
<1> SUFFICES ASSUME PInd, Settles, Shows, Turns PROVE Shows'
  OBVIOUS
<1>1. UNCHANGED <<current, pumped, instance, tails>> /\ page'.closing = page.closing
      /\ (Dialing(page) => Dialing(page')) /\ page'.live = page.live /\ Asleep(page')
      /\ (page'.att.pc = "start" => page'.att = page.att) /\ Follows(page, page')
  BY DEF Turns, Gentle, Mild, Shows
<1>2. sess \in [Sessions -> {"none", "detached", "closed"} \cup Open \cup Ended]
      /\ current \in {0} \cup Sessions /\ pumped \in {0} \cup Sessions
      /\ (page.att.pc \in Dialed => page.att.sid \in Sessions /\ current \in {0, page.att.sid})
  BY DEF PInd, PTypeOK, AttemptOwnsCurrent, Settles, Upkeep
<1>3. \A s \in Sessions : sess'[s] # sess[s] =>
        page.att.pc \in Dialed \ {"start"} /\ s = page.att.sid /\ sess[s] # "none" /\ sess'[s] = "auth"
  BY <1>2 DEF Turns, Open
<1>4. PumpedIsPast'
  <2>1. \A s \in Sessions : sess[s] # "none" => sess'[s] # "none"
    BY <1>3
  <2>2. pumped' = pumped /\ (page'.att.pc \in Dialed => page.att.pc \in Dialed
                                                     /\ page'.att.sid = page.att.sid)
    BY <1>1 DEF Follows
  <2>3. pumped # 0 => sess'[pumped] # "none"
    BY <1>2, <2>1 DEF Shows, PumpedIsPast
  <2>4. page.att.pc \in Dialed => sess'[page.att.sid] # "none" /\ pumped # page.att.sid
    BY <1>2, <2>1 DEF Shows, PumpedIsPast
  <2> QED BY <2>2, <2>3, <2>4 DEF PumpedIsPast
<1>5. StartIsClear'
  BY <1>1, <1>2, <1>3 DEF Turns, Shows, StartIsClear, At, Dialed, Up, Open, Ended
<1>6. FedIsLive'
  BY <1>1, <1>2, <1>3, Unfed DEF Turns, Shows, FedIsLive, Fed
<1>7. LiveIsFed'
  BY <1>1 DEF Shows, LiveIsFed, Fed, Dialing
<1> QED BY <1>1, <1>4, <1>5, <1>6, <1>7 DEF Shows

\* An attempt that goes leaves no terminal behind, unless one is fed.
LEMMA ShowsGone ==
  ASSUME PInd, Settles, Shows, NEW pairing, Gone(pairing), pairing => ~page.live,
         UNCHANGED <<pumped, tails>>,
         \/ UNCHANGED <<sess, current>> /\ (Fed => sess[current] # "ready")
         \/ Rejected \/ Cancelled
  PROVE  Shows'
<1>1. page'.closing = page.closing /\ page'.att.pc \notin Dialed /\ ~page'.live /\ Asleep(page')
  BY DEF Gone, Shows
<1>2. StartIsClear' /\ LiveIsFed'
  BY <1>1 DEF StartIsClear, LiveIsFed, At, Dialed
<1>3. pumped \in {0} \cup Sessions /\ (pumped # 0 => sess[pumped] # "none")
  BY DEF Settles, Upkeep, Shows, PumpedIsPast
<1>4. CASE UNCHANGED <<sess, current>> /\ (Fed => sess[current] # "ready")
  BY <1>1, <1>2, <1>3, <1>4 DEF Shows, PumpedIsPast, FedIsLive, Fed
<1>5. CASE Rejected \/ Cancelled
  <2>1. page.att.sid \in Sessions
    BY <1>5 DEF PInd, AttemptOwnsCurrent, Rejected, Cancelled, At, Dialed
  <2>2. current' = 0
    BY <1>5 DEF Rejected, Cancelled
  <2>3. \A s \in Sessions : sess[s] # "none" => sess'[s] # "none"
    BY <1>5, <2>1 DEF PInd, PTypeOK, Rejected, Cancelled
  <2> QED
    BY <1>1, <1>2, <1>3, <2>2, <2>3 DEF Shows, PumpedIsPast, FedIsLive, Fed
<1> QED BY <1>4, <1>5

\* The attempt's own steps.
LEMMA ShowsAttempt ==
  ASSUME Known = {}, PInd, Settles, Shows, Attempt
  PROVE  Shows'
<1>u. page.micro = {} /\ pumped \in {0} \cup Sessions
  BY DEF Settles, Upkeep
<1>w. Whole(page) /\ PTypeOK
  BY DEF PInd
<1>1. CASE DialFails
  <2>1. Fed => sess[current] # "ready"
    BY <1>1, <1>w DEF DialFails, Fed, PTypeOK
  <2> QED BY <1>1, <2>1, AttemptGone, ShowsGone DEF DialFails
<1>2. CASE SettleClosed
  <2>1. page.att.pc \in Dialed /\ \E pairing \in BOOLEAN : Gone(pairing) /\ (pairing => ~page.live)
    BY <1>2, AttemptGone
  <2> QED BY <1>2, <2>1, Unfed, ShowsGone DEF SettleClosed
<1>3. CASE SettleTimeout \/ PollClosed
  <2>1. page.att.pc \in Dialed
    BY <1>3 DEF SettleTimeout, PollClosed, At, Dialed
  <2> QED BY <1>3, <2>1, AttemptGone, Unfed, ShowsGone DEF SettleTimeout, PollClosed
<1>4. CASE Rejected \/ Cancelled
  <2>1. Gone(FALSE) /\ UNCHANGED <<pumped, tails>>
    BY <1>4, AttemptGone DEF Rejected, Cancelled
  <2> QED BY <1>4, <2>1, ShowsGone
<1>5. CASE Gate \/ Credential \/ Prompted \/ Ceremony
  <2>1. \/ Turns
        \/ /\ Gone(FALSE) /\ page.att.pc \in Dialed
           /\ UNCHANGED <<sess, current, pumped, instance, tails>>
    BY <1>5, <1>u, AttemptTurns
  <2> QED BY <2>1, ShowsTurn, Unfed, ShowsGone
<1>6. CASE PollReady
  <2>1. page'.att = [page.att EXCEPT !.pc = "start"] /\ page'.closing = page.closing
        /\ page'.micro = page.micro /\ page'.live = page.live /\ page'.sheet = page.sheet
    BY <1>6, <1>w DEF PollReady, Whole, Pages
  <2>2. page'.att.pc = "start" /\ page'.att.sid = page.att.sid
    BY <1>w, <2>1 DEF Whole, Pages, Attempts
  <2>3. page.att.pc \in Dialed /\ page.att.sid \in Sessions /\ sess[page.att.sid] = "ready"
        /\ UNCHANGED <<sess, current, pumped, tails>>
    BY <1>6 DEF PInd, AttemptOwnsCurrent, PollReady, At, Mine, Dialed
  <2>4. current = page.att.sid /\ tails = {} /\ ~page.closing
    BY <2>3 DEF PInd, NoOrphanSession, Open, Settles, ReadyIsQuiet, Sessions
  <2>5. Asleep(page') /\ PumpedIsPast'
    BY <1>u, <2>1, <2>2, <2>3 DEF Shows, Asleep, PumpedIsPast, Dialing, Dialed
  <2>6. StartIsClear'
    BY <2>1, <2>2, <2>3, <2>4 DEF StartIsClear, Up
  <2>7. ~Fed' /\ Dialing(page')
    BY <2>2, <2>3, Unfed DEF Fed, Dialing
  <2> QED BY <2>5, <2>6, <2>7 DEF Shows, FedIsLive, LiveIsFed
<1>7. CASE Start
  <2>1. page'.att = NoAttempt /\ page'.closing = page.closing /\ page'.micro = page.micro
        /\ page'.live /\ page'.sheet = page.sheet
    BY <1>7, <1>w DEF Start, Whole, Pages
  <2>2. page.att.pc \in Dialed /\ page.att.sid \in Sessions /\ At("start")
        /\ pumped' = page.att.sid /\ UNCHANGED <<sess, current, tails>>
    BY <1>7 DEF PInd, AttemptOwnsCurrent, Start, At, Dialed
  <2>3. page'.att.pc = "idle"
    BY <2>1 DEF NoAttempt
  <2>4. page'.sheet # "repair"
    BY <2>1, <2>2 DEF Shows, Asleep, Dialing, At
  <2>5. Fed'
    BY <2>2 DEF Shows, StartIsClear, Fed, Sessions
  <2>6. FedIsLive'
    BY <2>1, <2>2 DEF Shows, StartIsClear, FedIsLive
  <2>7. Asleep(page') /\ PumpedIsPast' /\ StartIsClear'
    BY <1>u, <2>1, <2>2, <2>3, <2>4
    DEF Shows, Asleep, PumpedIsPast, StartIsClear, At, Dialed
  <2> QED BY <2>5, <2>6, <2>7 DEF Shows, LiveIsFed
<1>8. ASSUME NEW s \in Sessions, Dial(s) PROVE Shows'
  <2>1. page'.att = [page.att EXCEPT !.pc = "settle", !.sid = s] /\ page'.micro = page.micro
        /\ page'.live = page.live /\ page'.sheet = page.sheet
    BY <1>8, <1>w DEF Dial, Whole, Pages
  <2>2. page'.att.pc = "settle" /\ page'.att.sid = s
    BY <1>w, <2>1 DEF Whole, Pages, Attempts
  <2>3. /\ current' = s /\ pumped' = pumped /\ sess[s] = "none" /\ sess'[s] = "connecting"
        /\ \A t \in Sessions : sess[t] # "none" => sess'[t] # "none"
    BY <1>8, <1>w DEF Dial, Superseded
  <2>4. page'.sheet # "repair" /\ Dialing(page')
    BY <1>8, <2>1, <2>2 DEF Dial, At, Shows, Asleep, Dialing
  <2>5. pumped # s /\ (pumped # 0 => sess'[pumped] # "none")
    BY <1>u, <2>3 DEF Shows, PumpedIsPast, Sessions
  <2>6. ~Fed'
    BY <2>3, <2>5 DEF Fed
  <2>7. Asleep(page') /\ PumpedIsPast' /\ StartIsClear'
    BY <1>u, <2>1, <2>2, <2>3, <2>4, <2>5 DEF Asleep, PumpedIsPast, StartIsClear, At
  <2> QED BY <2>4, <2>6, <2>7 DEF Shows, FedIsLive, LiveIsFed
<1> QED BY <1>1, <1>2, <1>3, <1>4, <1>5, <1>6, <1>7, <1>8 DEF Attempt

\* The endings, and what the component's sessions do of themselves.
LEMMA ShowsEnd ==
  ASSUME Known = {}, PInd, Settles, Shows,
         \/ SessionEnded \/ Disconnect \/ Disconnected \/ Rest \/ Poison
         \/ \E s \in Sessions : TailDone(s) \/ Decided(s) \/ Component(s)
  PROVE  Shows'
<1>w. /\ Whole(page) /\ page.micro = {} /\ pumped \in {0} \cup Sessions
      /\ sess \in [Sessions -> {"none", "detached", "closed"} \cup Open \cup Ended]
      /\ current \in {0} \cup Sessions
      /\ page.att.pc \in Dialed => page.att.sid \in Sessions
  BY DEF PInd, PTypeOK, AttemptOwnsCurrent, Settles, Upkeep
<1>s. At("start") => page.att.pc \in Dialed
  BY DEF At, Dialed
<1>1. CASE SessionEnded
  <2>1. Fed /\ ~At("start") /\ tails' # {} /\ current' = 0 /\ UNCHANGED <<page, sess, pumped>>
    BY <1>1, <1>s, Unfed DEF SessionEnded, Fed
  <2> QED
    BY <2>1 DEF Shows, PumpedIsPast, StartIsClear, FedIsLive, LiveIsFed, Fed, At
<1>2. CASE Disconnect
  <2>1. ~At("start") /\ current' = 0 /\ UNCHANGED <<pumped, tails>>
    BY <1>2 DEF Disconnect
  <2>2. \A s \in Sessions : sess[s] # "none" => sess'[s] # "none"
    BY <1>2, <1>w DEF Disconnect
  <2>3. /\ Follows(page, page') /\ (page'.att.pc = "start" => page'.att = page.att)
        /\ Asleep(page') /\ (page'.closing \/ ~page'.live)
    BY <1>2, <1>w, EndTurns DEF Dark, Follows, Shows
  <2> QED
    BY <1>w, <2>1, <2>2, <2>3
    DEF Shows, PumpedIsPast, StartIsClear, FedIsLive, LiveIsFed, Fed, At, Follows
<1>3. CASE Disconnected
  <2>1. Dark(FALSE) /\ page.closing /\ UNCHANGED <<sess, current, pumped, tails>>
    BY <1>3, <1>w, EndTurns DEF Disconnected
  <2> QED
    BY <2>1
    DEF Dark, Shows, PumpedIsPast, StartIsClear, FedIsLive, LiveIsFed, Fed, At, Follows
<1>4. CASE Rest
  BY <1>4 DEF Rest, Shows, PumpedIsPast, StartIsClear, FedIsLive, LiveIsFed, Fed, At
<1>5. CASE Poison
  <2>1. Fed /\ page.att.pc \notin Dialed /\ UNCHANGED <<page, current, pumped, tails>>
    BY <1>5, Unfed DEF Poison, Fed
  <2>2. sess'[current] = "poisoned" /\ current \in Sessions
    BY <1>5, <1>w DEF Poison
  <2> QED
    BY <1>s, <2>1, <2>2
    DEF Shows, PumpedIsPast, StartIsClear, FedIsLive, LiveIsFed, Fed, At, Up, Ended
<1>6. ASSUME NEW s \in Sessions, TailDone(s) PROVE Shows'
  <2>1. tails # {} /\ UNCHANGED <<sess, current, pumped>>
    BY <1>6 DEF TailDone
  <2>2. ~Fed /\ ~At("start")
    BY <2>1 DEF Shows, FedIsLive, StartIsClear
  <2>3. /\ Follows(page, page') /\ (page'.att.pc = "start" => page'.att = page.att)
        /\ Asleep(page') /\ (Dialing(page') \/ ~page'.live)
    BY <1>6, <1>w, EndTurns DEF Dark, Mild, Shows
  <2> QED
    BY <2>1, <2>2, <2>3
    DEF Shows, PumpedIsPast, StartIsClear, FedIsLive, LiveIsFed, Fed, At, Follows
<1>7. ASSUME NEW s \in Sessions, Decided(s) \/ Component(s) PROVE Shows'
  <2>1. PICK to : /\ sess' = [sess EXCEPT ![s] = to] /\ to # "none"
                  /\ sess[s] = "ready" => to \in Ended
                  /\ sess[s] \notin Ended
    BY <1>7 DEF Decided, Component, Becomes, Ended
  <2>2. UNCHANGED <<page, current, pumped, tails>>
    BY <1>7 DEF Decided, Component, Outside
  <2>3. \A t \in Sessions : /\ sess[t] # "none" => sess'[t] # "none"
                            /\ sess[t] \in Up => sess'[t] \in Up
                            /\ sess[t] \in Up /\ sess'[t] = "ready" => sess[t] = "ready"
    BY <1>w, <2>1 DEF Up, Ended
  <2>4. PumpedIsPast' /\ Asleep(page')
    BY <1>w, <2>2, <2>3 DEF Shows, PumpedIsPast
  <2>5. StartIsClear'
    BY <1>w, <1>s, <2>2, <2>3 DEF Shows, StartIsClear, At
  <2>6. FedIsLive'
    BY <1>w, <2>2, <2>3 DEF Shows, FedIsLive, Fed
  <2>7. LiveIsFed'
    BY <2>2 DEF Shows, LiveIsFed, Fed
  <2> QED BY <2>4, <2>5, <2>6, <2>7 DEF Shows
<1> QED BY <1>1, <1>2, <1>3, <1>4, <1>5, <1>6, <1>7

LEMMA NextShows == Known = {} /\ PInd /\ Settles /\ Shows /\ [PNext]_pvars => Shows'
<1> SUFFICES ASSUME Known = {}, PInd, Settles, Shows, [PNext]_pvars PROVE Shows'
  OBVIOUS
<1>1. CASE UNCHANGED pvars
  BY <1>1
  DEF pvars, Shows, PumpedIsPast, StartIsClear, FedIsLive, LiveIsFed, Fed, At
<1>2. CASE PNext
  BY <1>2, ShowsAttempt, ShowsEnd, UserTurns, ShowsTurn DEF PNext, User, Settles, Upkeep
<1> QED BY <1>1, <1>2

\* "an orphaned session keeps its SSH login and iroh connection alive on the target"
\* (app.mjs connect): however attempts fail, are cancelled, replaced and retried, an open
\* session is the page's own.
THEOREM NeverOrphaned == PSpec => []NoOrphanSession
<1>1. PInd => NoOrphanSession
  BY DEF PInd
<1> QED BY <1>1, InitPInd, NextPInd, PTL DEF PSpec

\* "buried prompts, zombie prompt rows" (boot.mjs, the sheet): whatever else takes the
\* sheet, the attempt waits for an answer exactly while its question is there.
THEOREM AsksAreOwned == PSpec => []AskOwned
<1>1. PInd => AskOwned
  BY DEF PInd, Whole, Owned, AskOwned, At
<1> QED BY <1>1, InitPInd, NextPInd, PTL DEF PSpec

\* "the automatic reconnect would dial through the same poisoned component and fail
\* forever" (app.mjs sessionEnded): whatever ends, and in whatever order the endings are
\* dealt with, the instance it is about to use is a usable one.
THEOREM ReconnectsAreFresh == PSpec => []FreshReconnect
<1>1. Settles => FreshReconnect
  BY DEF Settles, AutoIsFresh, FreshReconnect
<1> QED BY <1>1, InitPInd, NextPInd, InitSettles, NextSettles, PTL DEF PSpec

\* "the page can never strand a dead screen" (boot.mjs idleHome): but for the ways Known
\* names, the terminal is shown exactly while a session feeds it, as soon as nothing is
\* in flight.
THEOREM ScreenIsTrue == Known = {} => (PSpec => []ScreenTrue)
<1> SUFFICES ASSUME Known = {} PROVE PSpec => []ScreenTrue
  OBVIOUS
<1>1. PInd /\ Settles /\ Shows /\ [PNext]_pvars => Shows'
  BY NextShows
<1>2. Settles /\ Shows => ScreenTrue
  BY DEF Shows, LiveIsFed, FedIsLive, ScreenTrue, Fed, Up
<1> QED BY <1>1, <1>2, InitPInd, NextPInd, InitSettles, NextSettles, InitShows, PTL DEF PSpec

\* "A session dying is not a reason to withdraw an ask that belongs to the attempt
\* REPLACING it" (boot.mjs idleHome): the question stays on the sheet.
THEOREM AsksOutliveEndings == PSpec => EndingKeepsAsk
<1> DEFINE Kept == \A s \in Sessions :
             TailDone(s) /\ ~(sess[s] = "exited" /\ last.command) /\ At("hostkey")
               => page'.sheet = "hostkey"
<1>1. PInd /\ Settles => Kept
  <2> SUFFICES ASSUME PInd, Settles, NEW s \in Sessions, TailDone(s), At("hostkey"),
                      ~(sess[s] = "exited" /\ last.command)
               PROVE  page'.sheet = "hostkey"
    OBVIOUS
  <2>1. Whole(page) /\ page.micro = {} /\ Dialing(page) /\ page.sheet = "hostkey"
    BY DEF PInd, Whole, Owned, Settles, Upkeep, At, Dialing
  <2> DEFINE h == IdleHome(page)
  <2>2. Whole(h) /\ h.micro = {} /\ h.sheet = "hostkey"
    BY <2>1, IdleHomeKeeps, IdleHomeDark
  <2>3. page' = Drained(h)
    BY <2>1 DEF TailDone
  <2> HIDE DEF h
  <2> QED BY <2>2, <2>3, DrainedGentle
<1>2. PInd /\ Settles /\ [PNext]_pvars => [Kept]_pvars
  BY <1>1
<1> HIDE DEF Kept
<1>3. PSpec => [][Kept]_pvars
  BY <1>2, InitPInd, NextPInd, InitSettles, NextSettles, PTL DEF PSpec
<1> QED BY <1>3 DEF EndingKeepsAsk, Kept
=============================================================================
