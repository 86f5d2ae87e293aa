------------------------------ MODULE Console -------------------------------
(***************************************************************************)
(* The serial console of a VM in the browser (anyterm.js): a transmit      *)
(* channel that batches the typed keys, a receive loop that polls for edit *)
(* scripts of the screen, and the life of the page around them.  The       *)
(* anyterm module of the web server is external; it is modelled by what    *)
(* the page expects of it.  Requests are asynchronous and may fail before  *)
(* or after the server has handled them.                                   *)
(***************************************************************************)
EXTENDS Naturals, Sequences, FiniteSets

CONSTANTS
  Chars,          \* what a position of the screen may show
  MaxScreen,      \* positions of the screen
  MaxKeys,        \* bound: keys typed
  MaxBatch,       \* bound: keys of one paste
  MaxChanges,     \* bound: changes of the screen
  MaxFailures,    \* bound: requests that fail
  None

ASSUME ConsoleAssumption ==
  /\ MaxScreen \in Nat /\ MaxKeys \in Nat /\ MaxBatch \in Nat \ {0}
  /\ MaxChanges \in Nat /\ MaxFailures \in Nat
  /\ None \notin {"ok", "E", "", "status"}

VARIABLES
  phase,             \* of the page: fresh, opening, running, closing, closed
  open,              \* the global of that name
  controls,          \* the key handlers and the buttons are installed
  kb_buf,            \* typed keys that wait for a send
  send_in_progress,
  sends,             \* send requests: their keys and the answer, if any
  refused,           \* the last send came back with an error
  disp,              \* the text shown
  rcvs,              \* poll requests: the answer, if any
  typed,             \* number of keys typed so far
  session,           \* server: none, up or over
  received,          \* server: the keys its terminal was given
  screen,            \* server: the terminal's text
  sent,              \* server: the text the page was last told
  changes, failures

pageVars   == <<phase, open, controls>>
sendVars   == <<kb_buf, send_in_progress, sends, refused>>
rcvVars    == <<disp, rcvs>>
serverVars == <<session, received, screen, sent, changes>>
vars == <<pageVars, sendVars, rcvVars, serverVars, typed, failures>>

Screens == UNION {[1..n -> Chars] : n \in 0..MaxScreen}

-----------------------------------------------------------------------------
(* Edit scripts: d drops, k keeps and i inserts.                           *)

Command == [cmd : {"d", "k"}, num : 0..MaxScreen] \cup [cmd : {"i"}, text : Screens]

\* What is left of old after its first dp positions, at most num of them.
Substr(old, dp, num) ==
  SubSeq(old, dp + 1, IF dp + num < Len(old) THEN dp + num ELSE Len(old))

\* Mutant: keeping a run does not move the position in the old text.
DoCommandNoAdvance(a, c, old) ==
  CASE c.cmd = "d" -> [a EXCEPT !.dp = @ + c.num]
    [] c.cmd = "k" -> [a EXCEPT !.ndisp = @ \o Substr(old, a.dp, c.num)]
    [] c.cmd = "i" -> [a EXCEPT !.ndisp = @ \o c.text]

\* One command, when the page is at dp in the old text and has made ndisp so far.
DoCommand(a, c, old) ==
  CASE c.cmd = "d" -> [a EXCEPT !.dp = @ + c.num]
    [] c.cmd = "k" -> [dp |-> a.dp + c.num, ndisp |-> a.ndisp \o Substr(old, a.dp, c.num)]
    [] c.cmd = "i" -> [a EXCEPT !.ndisp = @ \o c.text]

ProcessEditscript(edscr, old) ==
  LET after[i \in 0..Len(edscr)] ==
        IF i = 0 THEN [dp |-> 0, ndisp |-> <<>>] ELSE DoCommand(after[i - 1], edscr[i], old)
  IN after[Len(edscr)].ndisp

\* Mutant: a screen sent in full is added to the old one.
DisplayAppends(answer, old) ==
  CASE answer.kind = "n" -> old
    [] answer.kind = "R" -> old \o answer.text
    [] answer.kind = "edit" -> ProcessEditscript(answer.script, old)

\* The text after an answer: unchanged, sent in full, or edited.
Display(answer, old) ==
  CASE answer.kind = "n" -> old
    [] answer.kind = "R" -> answer.text
    [] answer.kind = "edit" -> ProcessEditscript(answer.script, old)

\* The scripts with which the server may describe new to a page that shows
\* old: a common beginning and end are kept, the middle is replaced.
Scripts(old, new) ==
  LET Kept(n) == IF n = 0 THEN <<>> ELSE <<[cmd |-> "k", num |-> n]>>
      Replaced(b, e) ==
        LET gone == Len(old) - b - e
            text == SubSeq(new, b + 1, Len(new) - e)
        IN (IF gone = 0 THEN <<>> ELSE <<[cmd |-> "d", num |-> gone]>>)
             \o (IF text = <<>> THEN <<>> ELSE <<[cmd |-> "i", text |-> text]>>)
      Ends == {be \in (0..MaxScreen) \X (0..MaxScreen) :
                 /\ be[1] + be[2] <= Len(old) /\ be[1] + be[2] <= Len(new)
                 /\ SubSeq(old, 1, be[1]) = SubSeq(new, 1, be[1])
                 /\ SubSeq(old, Len(old) - be[2] + 1, Len(old))
                      = SubSeq(new, Len(new) - be[2] + 1, Len(new))}
  IN {Kept(be[1]) \o Replaced(be[1], be[2]) \o Kept(be[2]) : be \in Ends}

-----------------------------------------------------------------------------
(* Key events.  A key is sent by keydown, or passed on to keypress.        *)

KeyEvent == [key : {"page", "special", "letter", "sign", "modifier"},
             ctrl : BOOLEAN, alt : BOOLEAN, shift : BOOLEAN]

Keydown(ev) ==
  CASE ev.key = "page" /\ ev.shift -> "stop"           \* scrolls locally
    [] ev.key \in {"page", "special"} /\ ~(ev.key = "page" /\ ev.shift) -> "send"
    [] ev.key \in {"letter", "sign", "modifier"} ->
         IF ~ev.ctrl \/ ev.alt \/ ev.key = "modifier" THEN "pass"
         ELSE IF ev.shift = (ev.key = "sign") THEN "send" ELSE "pass"

Keypress(ev) == IF (ev.ctrl /\ ~ev.alt) \/ ev.key = "modifier" THEN "stop" ELSE "send"

Sends(ev) == Keydown(ev) = "send" \/ (Keydown(ev) = "pass" /\ Keypress(ev) = "send")

-----------------------------------------------------------------------------
(* The transmit channel.                                                   *)

\* send(): the whole buffer in one request.
Send(buf) ==
  /\ sends' = sends \cup {[keys |-> buf, answer |-> None]}
  /\ send_in_progress' = TRUE
  /\ kb_buf' = <<>>
  /\ refused' = FALSE

NoSend(buf) == kb_buf' = buf /\ UNCHANGED <<send_in_progress, sends, refused>>

\* Mutant: a key is sent at once, whether or not a request is under way.
MaybeSendAlways(isOpen, buf) ==
  IF isOpen /\ buf # <<>> THEN Send(buf) ELSE NoSend(buf)

MaybeSend(isOpen, buf) ==
  IF ~send_in_progress /\ isOpen /\ buf # <<>> THEN Send(buf) ELSE NoSend(buf)

\* process_key(k) for a string of n characters.
ProcessKey(n) ==
  /\ typed + n <= MaxKeys
  /\ typed' = typed + n
  /\ MaybeSend(open, kb_buf \o [i \in 1..n |-> typed + i])
  /\ UNCHANGED <<pageVars, rcvVars, serverVars, failures>>

\* A key press, handled by keydown and keypress; on the ones that send nothing
\* the page does not change.
Press(ev) == controls /\ Sends(ev) /\ ProcessKey(1)

\* paste_from_clipboard, or an entry of the menu of control keys.
Paste(n) == controls /\ ProcessKey(n)

\* The server has handled a request, or it failed before or after that.
ServeSend(r) ==
  /\ r.answer = None
  /\ received' = IF session = "up" THEN received \o r.keys ELSE received
  /\ \/ /\ sends' = (sends \ {r}) \cup
             {[r EXCEPT !.answer = IF session = "up" THEN "ok" ELSE "E"]}
        /\ UNCHANGED failures
     \/ /\ failures < MaxFailures
        /\ failures' = failures + 1
        /\ \E a \in {"", "status"} : sends' = (sends \ {r}) \cup {[r EXCEPT !.answer = a]}
  /\ UNCHANGED <<pageVars, kb_buf, send_in_progress, refused, rcvVars, session,
                 screen, sent, changes, typed>>

SendLost(r) ==
  /\ r.answer = None /\ failures < MaxFailures
  /\ failures' = failures + 1
  /\ \E a \in {"", "status"} : sends' = (sends \ {r}) \cup {[r EXCEPT !.answer = a]}
  /\ UNCHANGED <<pageVars, kb_buf, send_in_progress, refused, rcvVars, serverVars, typed>>

\* Mutant: what was typed during a request waits for the next key.
SendDoneNoFlush(r) ==
  /\ r.answer # None
  /\ send_in_progress' = FALSE
  /\ sends' = sends \ {r}
  /\ refused' = (r.answer \in {"E", "status"})
  /\ UNCHANGED <<pageVars, kb_buf, rcvVars, serverVars, typed, failures>>

\* send_done: an E answer is shown, a status other than 200 raises in
\* handle_resp_error; either way what is left in the buffer stays there.  An
\* empty answer counts as success.  Whether the terminal is still open is not
\* looked at.
SendDone(r) ==
  LET failed == r.answer \in {"E", "status"}
      again  == ~failed /\ kb_buf # <<>>
  IN /\ r.answer # None
     /\ send_in_progress' = again
     /\ sends' = (sends \ {r}) \cup
                   (IF again THEN {[keys |-> kb_buf, answer |-> None]} ELSE {})
     /\ kb_buf' = IF again THEN <<>> ELSE kb_buf
     /\ refused' = failed
     /\ UNCHANGED <<pageVars, rcvVars, serverVars, typed, failures>>

-----------------------------------------------------------------------------
(* The receive loop.                                                       *)

Poll == [answer |-> None]

Answer == [kind : {"n", "E", "", "status"}] \cup [kind : {"R"}, text : Screens]
            \cup [kind : {"edit"}, script : Seq(Command)]

ASSUME NullAssumption == None \notin Answer

\* The server answers a poll with what changed since its last answer.
ServeRcv(r) ==
  /\ r.answer = None
  /\ IF session # "up" THEN rcvs' = (rcvs \ {r}) \cup {[answer |-> [kind |-> "E"]]}
     ELSE \E a \in {[kind |-> "R", text |-> screen]}
                   \cup {[kind |-> "edit", script |-> s] : s \in Scripts(sent, screen)}
                   \cup (IF sent = screen THEN {[kind |-> "n"]} ELSE {}) :
            /\ (a.kind = "edit" => a.script # <<>>)
            /\ rcvs' = (rcvs \ {r}) \cup {[answer |-> a]}
  /\ sent' = IF session = "up" THEN screen ELSE sent
  /\ UNCHANGED <<pageVars, sendVars, disp, session, received, screen, changes, typed, failures>>

RcvLost(r) ==
  /\ r.answer = None /\ failures < MaxFailures
  /\ failures' = failures + 1
  /\ \E k \in {"", "status"} : rcvs' = (rcvs \ {r}) \cup {[answer |-> [kind |-> k]]}
  /\ UNCHANGED <<pageVars, sendVars, disp, serverVars, typed>>

\* Mutant: an answer that reports no change ends the loop.
RcvStops(r) ==
  /\ r.answer # None
  /\ IF open /\ r.answer.kind \notin {"E", "", "status", "n"}
     THEN /\ disp' = Display(r.answer, disp)
          /\ rcvs' = (rcvs \ {r}) \cup {Poll}
     ELSE /\ rcvs' = rcvs \ {r}
          /\ UNCHANGED disp
  /\ UNCHANGED <<pageVars, sendVars, serverVars, typed, failures>>

\* rcv: after close nothing is shown; an error of any kind ends the loop.
Rcv(r) ==
  /\ r.answer # None
  /\ IF open /\ r.answer.kind \notin {"E", "", "status"}
     THEN /\ disp' = Display(r.answer, disp)
          /\ rcvs' = (rcvs \ {r}) \cup {Poll}
     ELSE /\ rcvs' = rcvs \ {r}
          /\ UNCHANGED disp
  /\ UNCHANGED <<pageVars, sendVars, serverVars, typed, failures>>

-----------------------------------------------------------------------------
(* Opening and closing.  Both wait for the server; keys typed meanwhile    *)
(* are buffered.                                                           *)

CreateTerm ==
  /\ phase = "fresh"
  /\ phase' = "opening" /\ controls' = TRUE
  /\ UNCHANGED <<open, sendVars, rcvVars, serverVars, typed, failures>>

\* open_term has its session: the receive loop starts, the buffer is sent.
OpenTerm ==
  /\ phase = "opening"
  /\ phase' = "running" /\ open' = TRUE /\ session' = "up"
  /\ rcvs' = rcvs \cup {Poll}
  /\ MaybeSend(TRUE, kb_buf)
  /\ UNCHANGED <<controls, disp, received, screen, sent, changes, typed, failures>>

\* open_term got an error: the page stays as it is, with nothing behind it.
OpenFails ==
  /\ phase = "opening" /\ failures < MaxFailures
  /\ failures' = failures + 1
  /\ phase' = "running"
  /\ UNCHANGED <<open, controls, sendVars, rcvVars, serverVars, typed>>

CloseTerm ==
  /\ phase = "running" /\ open
  /\ phase' = "closing" /\ open' = FALSE
  /\ UNCHANGED <<controls, sendVars, rcvVars, serverVars, typed, failures>>

\* The answer to the close request; one with another status than 200 raises
\* in handle_resp_error and leaves the handlers and the buttons in place.
CloseDone ==
  /\ phase = "closing"
  /\ phase' = "closed"
  /\ session' = "over"
  /\ \/ controls' = FALSE /\ UNCHANGED failures
     \/ failures < MaxFailures /\ failures' = failures + 1 /\ UNCHANGED controls
  /\ UNCHANGED <<open, sendVars, rcvVars, received, screen, sent, changes, typed>>

-----------------------------------------------------------------------------
(* The terminal behind the server.                                         *)

ScreenChanges ==
  /\ session = "up" /\ changes < MaxChanges
  /\ changes' = changes + 1
  /\ \E s \in Screens \ {screen} : screen' = s
  /\ UNCHANGED <<pageVars, sendVars, rcvVars, session, received, sent, typed, failures>>

SessionEnds ==
  /\ session = "up" /\ failures < MaxFailures
  /\ failures' = failures + 1
  /\ session' = "over"
  /\ UNCHANGED <<pageVars, sendVars, rcvVars, received, screen, sent, changes, typed>>

-----------------------------------------------------------------------------
Init ==
  /\ phase = "fresh" /\ open = FALSE /\ controls = FALSE
  /\ kb_buf = <<>> /\ send_in_progress = FALSE /\ sends = {} /\ refused = FALSE
  /\ disp = <<>> /\ rcvs = {}
  /\ typed = 0
  /\ session = "none" /\ received = <<>> /\ screen = <<>> /\ sent = <<>>
  /\ changes = 0 /\ failures = 0

Input == (\E ev \in KeyEvent : Press(ev)) \/ (\E n \in 1..MaxBatch : Paste(n))

Network ==
  \/ \E r \in sends : ServeSend(r) \/ SendLost(r) \/ SendDone(r)
  \/ \E r \in rcvs : ServeRcv(r) \/ RcvLost(r) \/ Rcv(r)

Next ==
  \/ Input \/ Network
  \/ CreateTerm \/ OpenTerm \/ OpenFails \/ CloseTerm \/ CloseDone
  \/ ScreenChanges \/ SessionEnds

Spec == Init /\ [][Next]_vars

\* The network answers every request in the end, and the browser calls the
\* handler of every answer.
Fairness ==
  /\ WF_vars(\E r \in sends : ServeSend(r) \/ SendLost(r))
  /\ WF_vars(\E r \in sends : SendDone(r))
  /\ WF_vars(\E r \in rcvs : ServeRcv(r) \/ RcvLost(r))
  /\ WF_vars(\E r \in rcvs : Rcv(r))
  /\ WF_vars(OpenTerm \/ OpenFails)

FairSpec == Spec /\ Fairness

-----------------------------------------------------------------------------
(* Properties.                                                             *)

\* The variables have their types (the globals of anyterm.js).
TypeOK ==
  /\ phase \in {"fresh", "opening", "running", "closing", "closed"}
  /\ open \in BOOLEAN /\ controls \in BOOLEAN
  /\ kb_buf \in Seq(1..MaxKeys) /\ send_in_progress \in BOOLEAN /\ refused \in BOOLEAN
  /\ \A r \in sends : /\ DOMAIN r = {"keys", "answer"} /\ r.keys \in Seq(1..MaxKeys)
                      /\ r.answer \in {None, "ok", "E", "", "status"}
  /\ disp \in Screens
  /\ \A r \in rcvs : DOMAIN r = {"answer"} /\ (r.answer = None \/ r.answer \in Answer)
  /\ typed \in 0..MaxKeys
  /\ session \in {"none", "up", "over"} /\ received \in Seq(1..MaxKeys)
  /\ screen \in Screens /\ sent \in Screens
  /\ changes \in 0..MaxChanges /\ failures \in 0..MaxFailures

\* Keys that have left the buffer and have not been handled by the server.
OnTheWay == IF \E r \in sends : r.answer = None
            THEN (CHOOSE r \in sends : r.answer = None).keys ELSE <<>>

Channel == INSTANCE KeyChannel WITH pending <- OnTheWay \o kb_buf

\* The page and the server together are a channel of keys: however requests,
\* answers and failures interleave, no key overtakes another and none is
\* received twice, because send() is only called when no request is under way.
KeysInOrder == Channel!Spec

\* Keys typed into an open terminal do not lie in kb_buf unattended: a request
\* is under way whose answer will send them, or the user was shown an error.
NothingForgotten == open /\ kb_buf # <<>> => send_in_progress \/ refused

\* As long as no request failed and no answer is in flight, an open terminal
\* shows what the server believes it shows, so that its next edit script fits.
ScreenAgrees ==
  open /\ failures = 0 /\ (\A r \in rcvs : r.answer = None) => disp = sent

\* A key that waits in an open terminal reaches it, unless the user closes the
\* terminal or something fails.
KeysArrive ==
  \A k \in 1..MaxKeys :
    (open /\ typed >= k) ~>
      ((\E i \in DOMAIN received : received[i] = k) \/ ~open \/ failures > 0)

\* The receive loop goes on: an open terminal comes to show the screen.
ScreenArrives == (open /\ failures = 0) ~> (disp = screen \/ ~open \/ failures > 0)
=============================================================================
