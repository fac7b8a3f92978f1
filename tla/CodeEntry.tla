------------------------------ MODULE CodeEntry ------------------------------
(***************************************************************************)
(* "Enter the 6-digit code we emailed" on the phone and on the web          *)
(* (components/auth/use-code-entry.tsx, one hook in each app), with the     *)
(* server's side of it (backend/app/shared/codes.py): one active code, a    *)
(* wait between codes, and a lock after too many wrong tries.               *)
(***************************************************************************)
EXTENDS CodeParams

VARIABLES
  otp,          \* server: the newest code, how many went out this hour, wrong tries, whether it works
  cool,         \* server: ticks left before the account may have another code
  gate,         \* server: ticks left for the address, in the flows anyone can call
  flow,         \* which screen uses the hook, fixed at the start
  step,         \* the form before the code, the code, or through
  boxes,        \* the six digits: a code's number, or 0
  lastSent,     \* the digits sent last
  wait,         \* ticks left in "Send a new code in 0:42"
  since,        \* the wait as a reload of the sign-up page finds it
  checking,     \* the request that checks the digits
  asking,       \* the request for a code
  mishap        \* history: what may have parted the wait from the server's

vars == <<otp, cool, gate, flow, step, boxes, lastSent, wait, since, checking, asking, mishap>>

Screens == {"signup", "reset", "admin", "change", "phone change"}
Codes == 0..MaxMade
WrongDigits == MaxMade + 1             \* six digits that no email holds
Digits == Codes \union {WrongDigits}
Ticks == 0..Wait
Idle == [at |-> "idle", digits |-> 0]
NotAsking == [at |-> "idle", left |-> 0]

TypeOK ==
  /\ otp \in [newest : Codes, sent : 0..MaxCodes, wrong : 0..Tries, works : BOOLEAN]
  /\ cool \in Ticks /\ gate \in Ticks /\ wait \in Ticks /\ since \in Ticks
  /\ flow \in Screens
  /\ step \in {"form", "code", "through"}
  /\ boxes \in Digits /\ lastSent \in Digits
  /\ checking \in [at : {"idle", "sent", "right", "wrong"}, digits : Digits]
  /\ asking \in [at : {"idle", "asked", "new", "nothing", "unsent", "wait", "many"}, left : Ticks]
  /\ mishap \subseteq {"lost", "early", "reload"}

\* On the phone's change screens the hook, and its wait, start with the form.
Init ==
  /\ otp = [newest |-> 0, sent |-> 0, wrong |-> 0, works |-> FALSE]
  /\ cool = 0 /\ gate = 0 /\ since = 0
  /\ flow \in Screens
  /\ step = "form" /\ boxes = 0 /\ lastSent = 0
  /\ wait = IF flow = "phone change" THEN Wait ELSE 0
  /\ checking = Idle /\ asking = NotAsking
  /\ mishap = {}

-----------------------------------------------------------------------------
(* shared/codes.py *)

\* throttle_public: sign-up's "Send a new code" and every request of a reset.
Gated == flow = "reset" \/ (flow = "signup" /\ step = "code")

\* Told to wait by issue_code; where it is quiet the answer is as for a new code.
Quiet == Gated \/ (flow = "admin" /\ step = "form")

\* A code is made; the older ones end with it.
Made(sent) == [newest |-> otp.newest + 1, sent |-> sent, wrong |-> 0, works |-> TRUE]

\* The code goes out or not.  One that does not is not counted and starts no wait,
\* and the flows anyone can call do not tell.
IssueCode ==
  /\ otp.newest < MaxMade
  /\ \/ /\ otp' = Made(otp.sent + 1)
        /\ cool' = Wait
        /\ gate' = IF Gated THEN Wait ELSE gate
        /\ asking' = [asking EXCEPT !.at = "new"]
     \/ /\ otp' = Made(otp.sent)
        /\ cool' = 0
        /\ gate' = IF Gated THEN 0 ELSE gate
        /\ asking' = [asking EXCEPT !.at = IF Gated THEN "nothing" ELSE "unsent"]

\* throttle_public lets the request through.
Passed == Gated => gate = 0

\* The maximum of the hour (the model's one) is counted twice in a gated flow: aloud
\* at the gate and quietly behind it.
ServeAsk ==
  /\ asking.at = "asked"
  /\ \/ /\ Gated /\ gate > 0
        /\ asking' = [at |-> "wait", left |-> gate]
        /\ UNCHANGED <<otp, cool, gate>>
     \/ /\ Passed /\ Quiet
        /\ cool > 0 \/ otp.sent = MaxCodes
        /\ gate' = IF Gated THEN Wait ELSE gate
        /\ asking' = [asking EXCEPT !.at = "nothing"]
        /\ UNCHANGED <<otp, cool>>
     \/ /\ ~Quiet /\ cool > 0
        /\ asking' = [at |-> "wait", left |-> cool]
        /\ UNCHANGED <<otp, cool, gate>>
     \/ /\ Passed /\ (Gated \/ (~Quiet /\ cool = 0))
        /\ otp.sent = MaxCodes
        /\ asking' = [asking EXCEPT !.at = "many"]
        /\ UNCHANGED <<otp, cool, gate>>
     \/ /\ Passed /\ cool = 0 /\ otp.sent < MaxCodes
        /\ IssueCode
  /\ UNCHANGED <<flow, step, boxes, lastSent, wait, since, checking, mishap>>

\* Mutant: a code that never locks.
NeverLocked ==
  /\ checking.at = "sent"
  /\ \/ /\ otp.works /\ checking.digits = otp.newest
        /\ otp' = [otp EXCEPT !.works = FALSE]
        /\ checking' = [checking EXCEPT !.at = "right"]
     \/ /\ ~(otp.works /\ checking.digits = otp.newest)
        /\ otp' = [otp EXCEPT !.wrong = @ + 1]
        /\ checking' = [checking EXCEPT !.at = "wrong"]
  /\ UNCHANGED <<cool, gate, flow, step, boxes, lastSent, wait, since, asking, mishap>>

\* check_code
ServeCheck ==
  /\ checking.at = "sent"
  /\ \/ /\ otp.works /\ otp.wrong < Tries /\ checking.digits = otp.newest
        /\ otp' = [otp EXCEPT !.works = FALSE]
        /\ checking' = [checking EXCEPT !.at = "right"]
     \/ /\ otp.works /\ otp.wrong < Tries /\ checking.digits # otp.newest
        /\ otp' = [otp EXCEPT !.wrong = @ + 1]
        /\ checking' = [checking EXCEPT !.at = "wrong"]
     \/ /\ ~otp.works \/ otp.wrong = Tries
        /\ checking' = [checking EXCEPT !.at = "wrong"]
        /\ UNCHANGED otp
  /\ UNCHANGED <<cool, gate, flow, step, boxes, lastSent, wait, since, asking, mishap>>

-----------------------------------------------------------------------------
(* The digits *)

Send(digits) ==
  /\ checking' = [at |-> "sent", digits |-> digits]
  /\ lastSent' = digits

\* Typed, pasted or suggested: six digits are sent by themselves, unless they were
\* the last ones sent or a check is under way.
Type(digits) ==
  /\ step = "code"
  /\ boxes' = digits
  /\ IF checking.at = "idle" /\ digits # lastSent THEN Send(digits) ELSE UNCHANGED <<checking, lastSent>>
  /\ UNCHANGED <<otp, cool, gate, flow, step, wait, since, asking, mishap>>

\* The button.
Confirm ==
  /\ step = "code" /\ boxes # 0 /\ checking.at = "idle"
  /\ Send(boxes)
  /\ UNCHANGED <<otp, cool, gate, flow, step, boxes, wait, since, asking, mishap>>

Checked ==
  /\ checking.at = "right"
  /\ step' = "through" /\ checking' = Idle
  /\ UNCHANGED <<otp, cool, gate, flow, boxes, lastSent, wait, since, asking, mishap>>

\* Refused, or no answer: the boxes empty, with whatever was typed meanwhile.
NotChecked ==
  /\ checking.at # "idle"
  /\ boxes' = 0 /\ checking' = Idle
  /\ UNCHANGED <<otp, cool, gate, flow, step, lastSent, wait, since, asking, mishap>>

-----------------------------------------------------------------------------
(* The codes *)

\* The form before the step, or "Send a new code" when its wait is over.
AskForCode ==
  /\ asking.at = "idle"
  /\ step = "form" \/ (step = "code" /\ wait = 0)
  /\ asking' = [NotAsking EXCEPT !.at = "asked"]
  /\ UNCHANGED <<otp, cool, gate, flow, step, boxes, lastSent, wait, since, checking, mishap>>

\* The code step opens; its hook starts with it, but on the phone's change screens.
Opened(w) ==
  /\ step' = "code" /\ boxes' = 0 /\ lastSent' = 0
  /\ IF flow = "phone change"
     THEN /\ UNCHANGED <<wait, since>>
          /\ mishap' = mishap \union {"early"}
     ELSE /\ wait' = w /\ since' = w
          /\ UNCHANGED mishap

StepOpens ==
  /\ step = "form"
  /\ \/ asking.at \in {"new", "nothing"} /\ Opened(Wait)
     \/ asking.at = "unsent" /\ flow \in {"signup", "admin"} /\ Opened(0)
  /\ asking' = NotAsking
  /\ UNCHANGED <<otp, cool, gate, flow, checking>>

\* The form shows why there is no code, or that the server was not reached.
StaysOnForm ==
  /\ step = "form"
  /\ asking.at \notin {"idle"}
  /\ asking.at # "unsent" \/ flow \notin {"signup", "admin"}
  /\ asking' = NotAsking
  /\ mishap' = mishap \union (IF asking.at \in {"asked", "new"} THEN {"lost"} ELSE {})
  /\ UNCHANGED <<otp, cool, gate, flow, step, boxes, lastSent, wait, since, checking>>

\* Mutant of Restarted: the link is ready again once a code has gone out.
ReadyAgain(w) == 0

\* wait.restart(w)
Restarted(w) == w

\* "New code sent"
CodeResent ==
  /\ step = "code" /\ asking.at \in {"new", "nothing"}
  /\ boxes' = 0 /\ lastSent' = 0
  /\ wait' = Restarted(Wait)
  /\ asking' = NotAsking
  /\ UNCHANGED <<otp, cool, gate, flow, step, since, checking, mishap>>

\* "Wait N seconds" restarts the wait at N; a code that did not go out, at nothing.
NotResent ==
  /\ step = "code" /\ asking.at \in {"unsent", "wait", "many"}
  /\ wait' = CASE asking.at = "wait" -> Restarted(asking.left)
               [] asking.at = "unsent" -> 0
               [] OTHER -> wait
  /\ asking' = NotAsking
  /\ UNCHANGED <<otp, cool, gate, flow, step, boxes, lastSent, since, checking, mishap>>

\* No answer: a code may have gone out, and the link is as ready as it was.
AnswerLost ==
  /\ step = "code" /\ asking.at # "idle"
  /\ asking' = NotAsking
  /\ mishap' = mishap \union {"lost"}
  /\ UNCHANGED <<otp, cool, gate, flow, step, boxes, lastSent, wait, since, checking>>

\* The sign-up page is reloaded: it saved when the first code went out, not the later ones.
Reload ==
  /\ flow = "signup" /\ step = "code"
  /\ boxes' = 0 /\ lastSent' = 0 /\ wait' = since
  /\ checking' = Idle /\ asking' = NotAsking
  /\ mishap' = mishap \union (IF since < wait THEN {"reload"} ELSE {})
                      \union (IF asking.at = "idle" THEN {} ELSE {"lost"})
  /\ UNCHANGED <<otp, cool, gate, flow, step, since>>

-----------------------------------------------------------------------------

Less(n) == IF n = 0 THEN 0 ELSE n - 1

\* The clocks of the server and of the screen run alike (useCountdown reads the clock).
Tick ==
  /\ cool + gate + wait + since > 0
  /\ cool' = Less(cool) /\ gate' = Less(gate) /\ wait' = Less(wait) /\ since' = Less(since)
  /\ UNCHANGED <<otp, flow, step, boxes, lastSent, checking, asking, mishap>>

\* Ten minutes: the code no longer works.
CodeEnds ==
  /\ otp.works
  /\ otp' = [otp EXCEPT !.works = FALSE]
  /\ UNCHANGED <<cool, gate, flow, step, boxes, lastSent, wait, since, checking, asking, mishap>>

Next ==
  \/ ServeAsk \/ ServeCheck
  \/ \E d \in {c \in Digits : c # 0 /\ (c <= otp.newest \/ c = WrongDigits)} : Type(d)
  \/ Confirm \/ Checked \/ NotChecked
  \/ AskForCode \/ StepOpens \/ StaysOnForm \/ CodeResent \/ NotResent \/ AnswerLost \/ Reload
  \/ Tick \/ CodeEnds

Spec == Init /\ [][Next]_vars

-----------------------------------------------------------------------------
(* Properties *)

\* A tap on "Send a new code" has the server make a code: the link is ready only
\* when the waits of the server are over too.  Not so at the maximum of the hour,
\* which the screen does not know, nor when an answer was lost, the wait began
\* before the code was sent, or a reload took the wait of an earlier code.
ReadyLinkServed ==
  (/\ step = "code" /\ asking.at = "asked" /\ asking'.at # "asked"
   /\ otp.sent < MaxCodes /\ mishap' = {})
    => otp'.newest = otp.newest + 1

=============================================================================
