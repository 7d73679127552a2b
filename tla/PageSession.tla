----------------------------- MODULE PageSession -----------------------------
(***************************************************************************)
(* The page around the terminal: the attempt (boot.mjs doConnect and       *)
(* app.mjs connect, one coroutine), the sheet with its one ask at a time,  *)
(* the current session, how a session ends and what the page does then.    *)
(* What the browser runs in one task is one step; a continuation left in   *)
(* the microtask queue runs before any other task.                         *)
(***************************************************************************)
EXTENDS Integers, FiniteSets

CONSTANTS MaxSessions,   \* bound: component sessions of one page load
          AutoResume,    \* the top card asked to be resumed when the page opens
          Known          \* the ways to a wrong screen that this instance lets happen

ASSUME PageAssumption ==
  MaxSessions \in Nat /\ AutoResume \in BOOLEAN
  /\ Known \subseteq {"refused", "pairing", "midstart"}

VARIABLES page,      \* the dialog, the chrome, and the attempt (dialing is att.pc # "idle")
          sess,      \* external: the component's sessions
          current,   \* app.mjs currentSession, or 0
          pumped,    \* the last session given a pump and the keyboard, or 0
          failure,   \* window.__wosh.failure
          instance,  \* clientLoad: a usable component instance, or a poisoned one
          tails,     \* sessions whose end is being classified (sessionEnded's tail)
          last,      \* lastConnected
          pinned,    \* the host key is pinned in this browser
          rested     \* the automatic reconnect's rate limit has run out

pvars == <<page, sess, current, pumped, failure, instance, tails, last, pinned, rested>>

Sessions == 1..MaxSessions
Open == {"connecting", "gate", "auth", "prompts", "ready"}
Ended == {"exited", "lost", "failed", "poisoned"}
Methods == {"silent", "typed"}   \* auto, publickey, passkey; password, interactive
Params == [method : Methods, command : BOOLEAN] \ {[method |-> "typed", command |-> TRUE]}
Never == [method |-> "none", command |-> FALSE]
NoAttempt == [pc |-> "idle", sid |-> 0, from |-> "none", with |-> Never]
Dialing(p) == p.att.pc # "idle"
-----------------------------------------------------------------------------
\* Mutant of Settled: the ask goes, whoever waits for it is not told.
SettledSilently(p) == [p EXCEPT !.sheet = "none"]

\* settleSheet(null): the ask leaves the screen and whoever waits for it gets null.
Settled(p) ==
  LET q == [p EXCEPT !.sheet = "none"]
  IN CASE p.sheet = "hostkey" -> [q EXCEPT !.att.pc = "rejected"]
       [] p.sheet = "prompts" -> [q EXCEPT !.att.pc = "cancelled"]
       [] p.sheet = "repair" -> [q EXCEPT !.micro = @ \cup {"home"}]
       [] p.sheet = "scan" /\ p.scan = "starting" -> [q EXCEPT !.scan = "late"]
       [] p.sheet = "scan" /\ p.scan = "on" ->
            [q EXCEPT !.scan = "off", !.micro = @ \cup {"scanned"}]
       [] OTHER -> q

\* showSheet: the old ask resolves null first.
Shown(p, ask) == [Settled(p) EXCEPT !.sheet = ask]

\* renderHome: the countdown is torn down, and armed again where it is still owed.
HomeRendered(p) ==
  [p EXCEPT !.screen = "home",
            !.resume = IF @ = "spent" THEN @
                       ELSE IF ~p.live /\ AutoResume /\ pinned THEN "armed" ELSE "pending"]

\* Mutant of IdleHome: the screen's question goes whoever asked it.
IdleHomeAlways(p) == HomeRendered([Settled(p) EXCEPT !.live = FALSE])

\* idleHome: the funnel of every end; an ask of the attempt in flight stays.
IdleHome(p) == HomeRendered([IF Dialing(p) THEN p ELSE Settled(p) EXCEPT !.live = FALSE])

\* Anything the user does on the page calls the countdown off.
CancelResume(p) == [p EXCEPT !.resume = "spent"]

\* doConnect up to the dial; a second one while an attempt runs does nothing.
DoConnect(p, from, with) ==
  IF Dialing(p) THEN p
  ELSE [Settled(p) EXCEPT !.screen = "none",
                          !.att = [pc |-> "load", sid |-> 0, from |-> from, with |-> with]]

\* The continuations the task left in the microtask queue: scanQr resolves null and its
\* done() settles the sheet there is; the dismissed repair goes home.
Drained(p) ==
  LET scanned == IF "scanned" \in p.micro THEN Settled([p EXCEPT !.micro = @ \ {"scanned"}])
                 ELSE p
      home == IF "home" \in scanned.micro THEN IdleHome([scanned EXCEPT !.micro = {}])
              ELSE scanned
  IN [home EXCEPT !.micro = {}]

\* Mutant of Failed: the listener does not go home when its own reconnect failed.
FailedUnseen(p, pairing) ==
  IF p.att.from = "auto" THEN [p EXCEPT !.att = NoAttempt]
  ELSE IF pairing THEN [Shown(p, "repair") EXCEPT !.att = NoAttempt]
  ELSE LET home == [IdleHome(p) EXCEPT !.att = NoAttempt]
       IN IF p.att.from = "redial" THEN home ELSE Shown(home, "connect")

\* The attempt failed: doConnect's catch, then what its caller does with the error.
Failed(p, pairing) ==
  IF p.att.from = "auto" THEN IdleHome([p EXCEPT !.att = NoAttempt])
  ELSE IF pairing THEN [Shown(p, "repair") EXCEPT !.att = NoAttempt]
  ELSE LET home == [IdleHome(p) EXCEPT !.att = NoAttempt]
       IN IF p.att.from = "redial" THEN home ELSE Shown(home, "connect")

\* Boot: home first, with the pins of earlier loads.
PInit ==
  /\ pinned \in BOOLEAN
  /\ page = HomeRendered([sheet |-> "none", screen |-> "none", live |-> FALSE,
                          scan |-> "off", resume |-> "pending", micro |-> {},
                          closing |-> FALSE, att |-> NoAttempt])
  /\ sess = [s \in Sessions |-> "none"]
  /\ current = 0 /\ pumped = 0 /\ failure = FALSE /\ instance = "ok"
  /\ tails = {} /\ last = Never /\ rested = TRUE
-----------------------------------------------------------------------------
(* The attempt. *)

At(pc) == page.att.pc = pc
Mine == sess[page.att.sid]

\* The error reaches doConnect; fatal() also records it.
Fail(fatal, pairing) ==
  /\ failure' = (failure \/ fatal)
  /\ page' = Drained(Failed(page, pairing))

\* api() or Session.connect throws: not loaded, or through a poisoned instance.
DialFails ==
  /\ At("load")
  /\ (\E s \in {current} \ {0} : sess[s] = "ready") => "refused" \in Known
  /\ Fail(FALSE, FALSE)
  /\ UNCHANGED <<sess, current, pumped, instance, tails, last, pinned, rested>>

\* Mutant of Superseded: the session it replaces is forgotten.
SupersededForgotten(s) == [sess EXCEPT ![s] = "connecting"]

\* The new session owns the page; the one it replaces is detached.
Superseded(s) ==
  [t \in Sessions |-> IF t = s THEN "connecting"
                      ELSE IF t = current /\ sess[t] \in Open THEN "detached" ELSE sess[t]]

Dial(s) ==
  /\ At("load") /\ instance = "ok"
  /\ sess[s] = "none" /\ \A t \in 1..s - 1 : sess[t] # "none"
  /\ sess' = Superseded(s)
  /\ current' = s
  /\ page' = [page EXCEPT !.att.pc = "settle", !.att.sid = s]
  /\ UNCHANGED <<pumped, failure, instance, tails, last, pinned, rested>>

\* settle: closed, or thirty seconds of connecting (no fatal: a plain throw).
SettleClosed ==
  /\ At("settle") /\ Mine \notin Open
  /\ \E pairing \in BOOLEAN :
       /\ pairing /\ page.live => "pairing" \in Known
       /\ Fail(TRUE, pairing)
  /\ UNCHANGED <<sess, current, pumped, instance, tails, last, pinned, rested>>

\* Mutant of SettleTimeout: no deadline.
SettleWaits == FALSE /\ UNCHANGED pvars

SettleTimeout ==
  /\ At("settle") /\ Mine = "connecting"
  /\ Fail(FALSE, FALSE)
  /\ UNCHANGED <<sess, current, pumped, instance, tails, last, pinned, rested>>

\* The host-key gate: a pinned key that still matches passes without a question.
Gate ==
  /\ At("settle") /\ Mine = "gate"
  /\ \/ /\ pinned
        /\ page' = [page EXCEPT !.att.pc = "cred"]
        /\ sess' = [sess EXCEPT ![page.att.sid] = "auth"]
     \/ /\ page' = Drained([Shown(page, "hostkey") EXCEPT !.att.pc = "hostkey"])
        /\ UNCHANGED sess
  /\ UNCHANGED <<current, pumped, failure, instance, tails, last, pinned, rested>>

\* The user approves, and may ask to remember it.
Approve ==
  /\ page.sheet = "hostkey" /\ At("hostkey")
  /\ page' = [page EXCEPT !.sheet = "none", !.att.pc = "cred"]
  /\ pinned' \in {pinned, TRUE}
  /\ sess' = [sess EXCEPT ![page.att.sid] = IF @ \in Open THEN "auth" ELSE @]
  /\ UNCHANGED <<current, pumped, failure, instance, tails, last, rested>>

\* A null answer to the host-key ask: confirmHostKey(false), and connect() is null.
Rejected ==
  /\ At("rejected")
  /\ sess' = [sess EXCEPT ![page.att.sid] = IF @ \in Open THEN "closed" ELSE @]
  /\ current' = 0
  /\ page' = Drained(IF page.att.from = "auto" THEN IdleHome([page EXCEPT !.att = NoAttempt])
             ELSE [IdleHome(page) EXCEPT !.att = NoAttempt])
  /\ UNCHANGED <<pumped, failure, instance, tails, last, pinned, rested>>

\* The credential: a password is collected first; authenticate-* may be refused.
Credential ==
  /\ At("cred")
  /\ \/ /\ page.att.with.method = "typed"
        /\ page' = Drained([Shown(page, "prompts") EXCEPT !.att.pc = "prompts"])
        /\ UNCHANGED failure
     \/ /\ Mine \in Open
        /\ page' = [page EXCEPT !.att.pc = "poll"]
        /\ UNCHANGED failure
     \/ /\ Mine \notin Open
        /\ Fail(TRUE, FALSE)
  /\ UNCHANGED <<sess, current, pumped, instance, tails, last, pinned, rested>>

\* The server's batch goes on the sheet.
Prompted ==
  /\ At("poll") /\ Mine = "prompts"
  /\ page' = Drained([Shown(page, "prompts") EXCEPT !.att.pc = "prompts"])
  /\ UNCHANGED <<sess, current, pumped, failure, instance, tails, last, pinned, rested>>

AnswerPrompts ==
  /\ page.sheet = "prompts" /\ At("prompts")
  /\ page' = [page EXCEPT !.sheet = "none", !.att.pc = "poll"]
  /\ sess' = [sess EXCEPT ![page.att.sid] = IF @ \in Open THEN "auth" ELSE @]
  /\ UNCHANGED <<current, pumped, failure, instance, tails, last, pinned, rested>>

\* A null answer to the prompts: the attempt is torn down.
Cancelled ==
  /\ At("cancelled")
  /\ sess' = [sess EXCEPT ![page.att.sid] = IF @ \in Open THEN "detached" ELSE @]
  /\ current' = 0
  /\ Fail(TRUE, FALSE)
  /\ UNCHANGED <<pumped, instance, tails, last, pinned, rested>>

\* The ceremony gate's sheet, up until the gesture; the poll goes on behind it.
Ceremony ==
  /\ At("poll") /\ Mine = "auth" /\ page.att.with.method = "silent" /\ page.sheet # "ceremony"
  /\ page' = Drained(Shown(page, "ceremony"))
  /\ UNCHANGED <<sess, current, pumped, failure, instance, tails, last, pinned, rested>>

PollClosed ==
  /\ At("poll") /\ Mine \notin Open
  /\ Fail(TRUE, FALSE)
  /\ UNCHANGED <<sess, current, pumped, instance, tails, last, pinned, rested>>

PollReady ==
  /\ At("poll") /\ Mine = "ready"
  /\ page' = [page EXCEPT !.att.pc = "start"]
  /\ UNCHANGED <<sess, current, pumped, failure, instance, tails, last, pinned, rested>>

\* The opening rule is drawn: the keyboard and the pump are wired, connect returns,
\* doConnect records the connection and shows the terminal.
Start ==
  /\ At("start")
  /\ pumped' = page.att.sid
  /\ last' = page.att.with
  /\ page' = [page EXCEPT !.live = TRUE, !.screen = "none", !.att = NoAttempt]
  /\ UNCHANGED <<sess, current, failure, instance, tails, pinned, rested>>
-----------------------------------------------------------------------------
(* The end of a session. *)

\* The pump, or a refused keystroke, finds the session over.
SessionEnded ==
  /\ current # 0 /\ current = pumped /\ sess[current] \in Ended
  /\ tails' = tails \cup {current}
  /\ current' = 0
  /\ UNCHANGED <<page, sess, pumped, failure, instance, last, pinned, rested>>

\* Mutant of Discarded: the poisoned instance is kept.
DiscardedNot(s) == instance

\* clientLoad = null: the next api() instantiates afresh.
Discarded(s) == IF sess[s] = "poisoned" THEN "ok" ELSE instance

MayReconnect ==
  /\ last # Never /\ last.method = "silent" /\ pinned /\ rested

\* The tail dispatches wosh:session-ended, and the listener routes it.
TailDone(s) ==
  /\ s \in tails
  /\ tails' = tails \ {s}
  /\ instance' = Discarded(s)
  /\ \/ /\ sess[s] \in {"lost", "poisoned"} /\ MayReconnect
        /\ rested' = FALSE
        /\ page' = Drained(IF Dialing(page) THEN IdleHome(page) ELSE DoConnect(page, "auto", last))
     \/ /\ sess[s] \in {"lost", "poisoned"} /\ ~MayReconnect
        /\ page' = Drained(IdleHome(page))
        /\ UNCHANGED rested
     \/ /\ sess[s] = "exited" /\ last.command
        /\ page' = Drained(Shown(IdleHome(page), "ended"))
        /\ UNCHANGED rested
     \/ /\ \/ sess[s] = "failed"
           \/ sess[s] = "exited" /\ ~last.command
        /\ page' = Drained(IdleHome(page))
        /\ UNCHANGED rested
  /\ UNCHANGED <<sess, current, pumped, failure, last, pinned>>

\* disconnect: the session is taken from the page, then detached.
Disconnect ==
  /\ page.sheet = "session" /\ (At("start") => "midstart" \in Known)
  /\ page' = Drained(IF current = 0 THEN IdleHome([page EXCEPT !.sheet = "none"])
             ELSE [page EXCEPT !.sheet = "none", !.closing = TRUE])
  /\ sess' = [s \in Sessions |-> IF s = current /\ sess[s] \in Open THEN "detached" ELSE sess[s]]
  /\ current' = 0
  /\ UNCHANGED <<pumped, failure, instance, tails, last, pinned, rested>>

Disconnected ==
  /\ page.closing
  /\ page' = Drained(IdleHome([page EXCEPT !.closing = FALSE]))
  /\ UNCHANGED <<sess, current, pumped, failure, instance, tails, last, pinned, rested>>

Rest ==
  /\ ~rested
  /\ rested' = TRUE
  /\ UNCHANGED <<page, sess, current, pumped, failure, instance, tails, last, pinned>>
-----------------------------------------------------------------------------
(* The user.  A sheet is modal: nothing behind it can be tapped. *)

PageOnly == UNCHANGED <<sess, current, pumped, failure, instance, tails, last, pinned, rested>>
Left == \E s \in Sessions : sess[s] = "none"   \* bound: a session is left to dial
OnHome == page.sheet = "none" /\ page.screen = "home"

TapCard ==
  /\ OnHome
  /\ \E with \in Params : page' = Drained(DoConnect(CancelResume(page), "card", with))
  /\ PageOnly

\* A pasted link, or the fragment the page was opened with.
PasteLink ==
  /\ OnHome
  /\ page' = Drained(Shown(CancelResume(page), "connect"))
  /\ PageOnly

CountdownFires ==
  /\ page.resume = "armed"
  /\ page' = Drained(DoConnect(CancelResume(page), "card", [method |-> "silent", command |-> TRUE]))
  /\ PageOnly

SubmitConnect ==
  /\ page.sheet = "connect" /\ Left
  /\ \E with \in Params : page' = Drained(DoConnect([page EXCEPT !.sheet = "none"], "sheet", with))
  /\ PageOnly

Scan ==
  /\ OnHome \/ page.sheet = "repair"
  /\ page.scan = "off"
  /\ page' = Drained([Shown(IF page.sheet = "repair" THEN [page EXCEPT !.sheet = "none"]
                    ELSE CancelResume(page), "scan") EXCEPT !.scan = "starting"])
  /\ PageOnly

\* External: the camera comes on, or the user refuses it; the sheet stays to say why.
CameraStarts ==
  /\ page.sheet = "scan" /\ page.scan = "starting"
  /\ \E now \in {"on", "off"} : page' = [page EXCEPT !.scan = now]
  /\ PageOnly

ScanFinds ==
  /\ page.sheet = "scan" /\ page.scan = "on"
  /\ page' = Drained(Shown([page EXCEPT !.sheet = "none", !.scan = "off"], "connect"))
  /\ PageOnly

\* scanQr of a sheet long gone resolves null, and its done() settles the sheet there is.
ScanReturns ==
  /\ page.scan = "late"
  /\ page' = Drained(Settled([page EXCEPT !.scan = "off"]))
  /\ PageOnly

SessionsButton ==
  /\ page.sheet = "none"
  /\ page' = Drained(IF ~page.live THEN HomeRendered(page)
             ELSE IF last = Never THEN page ELSE Shown(page, "session"))
  /\ PageOnly

\* Attach to another session of the manager: the same dial, another command.
AttachOther ==
  /\ page.sheet = "session" /\ last.command
  /\ Left
  /\ page' = Drained(DoConnect([page EXCEPT !.sheet = "none"], "redial", last))
  /\ PageOnly

SettingsFromSession ==
  /\ page.sheet = "session"
  /\ page' = [page EXCEPT !.sheet = "none", !.screen = "prefs"]
  /\ PageOnly

ForgetPin ==
  /\ page.sheet = "none" /\ page.screen = "prefs" /\ pinned
  /\ pinned' = FALSE
  /\ UNCHANGED <<page, sess, current, pumped, failure, instance, tails, last, rested>>

OpenPrefs ==
  /\ OnHome
  /\ page' = [CancelResume(page) EXCEPT !.screen = "prefs"]
  /\ PageOnly

LeavePrefs ==
  /\ page.sheet = "none" /\ page.screen = "prefs"
  /\ page' = IF page.live THEN [page EXCEPT !.screen = "none"] ELSE HomeRendered(page)
  /\ PageOnly

\* "re-pair and connect".
Repaired ==
  /\ Left /\ page.sheet = "repair"
  /\ \E with \in Params : page' = Drained(DoConnect([page EXCEPT !.sheet = "none"], "repair", with))
  /\ PageOnly

\* After a command's session has ended: "reattach", or a plain shell instead.
Reattach ==
  /\ Left /\ page.sheet = "ended"
  /\ \E c \in BOOLEAN :
       page' = Drained(DoConnect([page EXCEPT !.sheet = "none"], "redial", [last EXCEPT !.command = c]))
  /\ PageOnly

\* The gesture the authenticator wanted.
Gesture ==
  /\ page.sheet = "ceremony"
  /\ page' = [page EXCEPT !.sheet = "none"]
  /\ PageOnly

\* Esc, the x, a tap on the backdrop, a cancel button.
Dismiss ==
  /\ page.sheet # "none"
  /\ page' = Drained(Settled(page))
  /\ PageOnly
-----------------------------------------------------------------------------
(* External: the component's sessions. *)

Becomes(s, states) == \E a \in states : sess' = [sess EXCEPT ![s] = a]
Outside == UNCHANGED <<page, current, pumped, failure, instance, tails, last, pinned, rested>>

\* The dial, the key exchange or the login is decided, one way or the other; the two
\* quick calls of an earlier ending do not outlast a whole login.
Decided(s) ==
  /\ \/ sess[s] = "connecting" /\ Becomes(s, {"gate", "closed"})
     \/ sess[s] \in {"gate", "auth", "prompts"} /\ Becomes(s, {"closed"})
     \/ /\ sess[s] = "auth" /\ At("poll") /\ tails = {} /\ ~page.closing
        /\ Becomes(s, {"ready"})
  /\ Outside

\* The server asks; a session that is up ends.
Component(s) ==
  /\ \/ sess[s] = "auth" /\ Becomes(s, {"prompts"})
     \/ sess[s] = "ready" /\ Becomes(s, {"exited", "lost", "failed"})
  /\ Outside

\* The instance refuses every call from here on; its sessions go with it.
Poison ==
  /\ instance = "ok" /\ current # 0 /\ current = pumped /\ sess[current] = "ready"
  /\ instance' = "poisoned"
  /\ sess' = [sess EXCEPT ![current] = "poisoned"]
  /\ UNCHANGED <<page, current, pumped, failure, tails, last, pinned, rested>>
-----------------------------------------------------------------------------
Attempt ==
  \/ DialFails \/ SettleClosed \/ SettleTimeout \/ Gate \/ Rejected \/ Credential
  \/ Prompted \/ Cancelled \/ Ceremony \/ PollClosed \/ PollReady \/ Start
  \/ \E s \in Sessions : Dial(s)

User ==
  \/ TapCard \/ PasteLink \/ SubmitConnect \/ Scan \/ SessionsButton \/ AttachOther
  \/ SettingsFromSession \/ ForgetPin \/ OpenPrefs \/ LeavePrefs \/ Repaired \/ Reattach
  \/ Disconnect \/ Gesture \/ Dismiss \/ Approve \/ AnswerPrompts

PNext ==
  \/ Attempt \/ User \/ Poison
  \/ SessionEnded \/ Disconnected \/ Rest \/ CountdownFires
  \/ CameraStarts \/ ScanFinds \/ ScanReturns
  \/ \E s \in Sessions : TailDone(s) \/ Decided(s) \/ Component(s)

PSpec == PInit /\ [][PNext]_pvars

\* A task that is ready gets its turn; the user deals with the sheet that is up; the
\* server decides a login; nothing makes the component's own dial come to an end.
PFairness ==
  /\ WF_pvars(Attempt)
  /\ WF_pvars(Dismiss \/ Approve \/ AnswerPrompts \/ Gesture)
  /\ WF_pvars(Dialing(page) /\ current # 0 /\ sess[current] # "connecting" /\ Decided(current))
-----------------------------------------------------------------------------
\* "buried prompts, zombie prompt rows" (boot.mjs, the sheet): the attempt waits for
\* an answer exactly while its question is the one on screen.
AskOwned ==
  /\ page.sheet = "hostkey" <=> At("hostkey")
  /\ page.sheet = "prompts" <=> At("prompts")

\* "an orphaned session keeps its SSH login and iroh connection alive on the target"
\* (app.mjs connect): every open session is the page's current one.
NoOrphanSession == \A s \in Sessions : sess[s] \in Open => s = current

\* "the page can never strand a dead screen" (boot.mjs idleHome): with no attempt, no
\* disconnect and no ending in flight, the page is live iff a session feeds it.
ScreenTrue ==
  /\ ~Dialing(page) /\ ~page.closing /\ tails = {}
  /\ current # 0 => sess[current] \notin Ended
  => (page.live <=> current # 0 /\ current = pumped)

\* "the automatic reconnect would dial through the same poisoned component and fail
\* forever" (app.mjs sessionEnded): it dials through a usable instance.
FreshReconnect == At("load") /\ page.att.from = "auto" => instance = "ok"

\* "A session dying is not a reason to withdraw an ask that belongs to the attempt
\* REPLACING it" (boot.mjs idleHome), but for the sheet a command's own end puts up.
EndingKeepsAsk ==
  [][\A s \in Sessions :
       TailDone(s) /\ ~(sess[s] = "exited" /\ last.command) /\ At("hostkey")
         => page'.sheet = "hostkey"]_pvars

\* An attempt that is dialed comes to an end, whatever the server and the user do.
DialEnds == Dialing(page) ~> ~Dialing(page)

\* "The page feeds keystrokes" (app.mjs:8): a session that is shown gets them.
KeyboardLive == page.live /\ current # 0 /\ current = pumped => ~failure
=============================================================================
