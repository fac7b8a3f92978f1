---------------------------- MODULE ScreenProofs ----------------------------
(***************************************************************************)
(* Proofs about what the screens show.  First the code step, for waits,    *)
(* tries and hourly maximums of any size: its types, and that a ready      *)
(* "Send a new code" gets a code.  Then a person's own change, for any       *)
(* tables of screens, operations and queries (Screens): it reaches every   *)
(* screen whose query the operation invalidates (Arrives), and only old    *)
(* rows are refused.  Last the types of every part of Clients, from the    *)
(* invariants of the parts' own proofs.                                    *)
(***************************************************************************)
EXTENDS SessionProofs, PhoneProofs, CheckoutProofs, ConsoleProofs

USE WaitAssumption, TriesAssumption, CodesAssumption

-----------------------------------------------------------------------------
(* The steps of the screen, by what they are about *)

\* A code is asked for, and the answer shown or lost.
Asking ==
  \/ Code!AskForCode \/ Code!StepOpens \/ Code!StaysOnForm
  \/ Code!CodeResent \/ Code!NotResent \/ Code!AnswerLost

\* Digits are typed, sent, and answered.
Entry == Code!Confirm \/ Code!Checked \/ Code!NotChecked \/ \E d \in Code!Digits : Code!Type(d)

\* The code is checked, or its time is over.
Checking == Entry \/ Code!ServeCheck \/ Code!CodeEnds

-----------------------------------------------------------------------------
(* Types *)

LEMMA LessLemma ==
  ASSUME NEW n \in Code!Ticks
  PROVE  Code!Less(n) \in Code!Ticks
BY SMT DEF Code!Less, Code!Ticks

LEMMA TypeInit == Code!Init => Code!TypeOK
<1> SUFFICES ASSUME Code!Init PROVE Code!TypeOK
  OBVIOUS
<1>1. /\ 0 \in Code!Ticks /\ Wait \in Code!Ticks
      /\ 0 \in Code!Codes /\ 0 \in 0..MaxCodes /\ 0 \in 0..Tries /\ 0 \in Code!Digits
  BY SMT DEF Code!Ticks, Code!Codes, Code!Digits
<1>2. otp \in [newest : Code!Codes, sent : 0..MaxCodes, wrong : 0..Tries, works : BOOLEAN]
  BY <1>1 DEF Code!Init
<1>3. checking \in [at : {"idle", "sent", "right", "wrong"}, digits : Code!Digits]
  BY <1>1 DEF Code!Init, Code!Idle
<1>4. asking \in [at : {"idle", "asked", "new", "nothing", "unsent", "wait", "many"},
                 left : Code!Ticks]
  BY <1>1 DEF Code!Init, Code!NotAsking
<1>5. wait \in Code!Ticks
  BY <1>1 DEF Code!Init
<1>6. flow \in Code!Screens /\ mishap \subseteq {"lost", "early", "reload"}
  BY DEF Code!Init
<1> QED
  BY <1>1, <1>2, <1>3, <1>4, <1>5, <1>6 DEF Code!Init, Code!TypeOK

LEMMA TypeServeAsk == Code!TypeOK /\ Code!ServeAsk => Code!TypeOK'
<1> SUFFICES ASSUME Code!TypeOK, Code!ServeAsk PROVE Code!TypeOK'
  OBVIOUS
<1>1. UNCHANGED <<flow, step, boxes, lastSent, wait, since, checking, mishap>>
  BY DEF Code!ServeAsk
<1>2. otp' \in [newest : Code!Codes, sent : 0..MaxCodes, wrong : 0..Tries, works : BOOLEAN]
  <2>1. CASE otp.sent < MaxCodes /\ Code!IssueCode
    <3>1. /\ otp.newest + 1 \in Code!Codes /\ 0 \in 0..Tries
          /\ otp.sent \in 0..MaxCodes /\ otp.sent + 1 \in 0..MaxCodes
      BY <2>1, SMT DEF Code!TypeOK, Code!Codes, Code!IssueCode
    <3>2. otp' = Code!Made(otp.sent) \/ otp' = Code!Made(otp.sent + 1)
      BY <2>1 DEF Code!IssueCode
    <3>3. \A n \in 0..MaxCodes : Code!Made(n) \in [newest : Code!Codes, sent : 0..MaxCodes, wrong : 0..Tries,
                                                works : BOOLEAN]
      BY <3>1 DEF Code!Made
    <3> QED
      BY <3>1, <3>2, <3>3
  <2>2. CASE UNCHANGED otp
    BY <2>2 DEF Code!TypeOK
  <2> QED
    BY <2>1, <2>2 DEF Code!ServeAsk
<1>3. cool' \in Code!Ticks /\ gate' \in Code!Ticks
  BY SMT DEF Code!ServeAsk, Code!IssueCode, Code!TypeOK, Code!Ticks
<1>4. asking' \in [at : {"idle", "asked", "new", "nothing", "unsent", "wait", "many"},
                 left : Code!Ticks]
  BY SMT DEF Code!ServeAsk, Code!IssueCode, Code!TypeOK, Code!Ticks
<1> QED
  BY <1>1, <1>2, <1>3, <1>4 DEF Code!TypeOK

LEMMA TypeServeCheck == Code!TypeOK /\ Code!ServeCheck => Code!TypeOK'
<1> SUFFICES ASSUME Code!TypeOK, Code!ServeCheck PROVE Code!TypeOK'
  OBVIOUS
<1>1. checking' \in [at : {"idle", "sent", "right", "wrong"}, digits : Code!Digits]
  BY DEF Code!ServeCheck, Code!TypeOK
<1>2. otp' \in [newest : Code!Codes, sent : 0..MaxCodes, wrong : 0..Tries, works : BOOLEAN]
  <2>1. CASE otp.wrong < Tries /\ otp' = [otp EXCEPT !.wrong = @ + 1]
    <3>1. otp.wrong + 1 \in 0..Tries
      BY <2>1, SMT DEF Code!TypeOK
    <3> QED
      BY <2>1, <3>1 DEF Code!TypeOK
  <2>2. CASE otp' = [otp EXCEPT !.works = FALSE] \/ UNCHANGED otp
    BY <2>2 DEF Code!TypeOK
  <2> QED
    BY <2>1, <2>2 DEF Code!ServeCheck
<1> QED
  BY <1>1, <1>2 DEF Code!ServeCheck, Code!TypeOK

LEMMA TypeDigits ==
  Code!TypeOK /\ Entry => Code!TypeOK'
<1>1. 0 \in Code!Digits
  BY SMT DEF Code!Digits, Code!Codes
<1>2. Code!Idle \in [at : {"idle", "sent", "right", "wrong"}, digits : Code!Digits]
  BY <1>1 DEF Code!Idle
<1>3. Code!TypeOK /\ Code!Checked => Code!TypeOK'
  BY <1>2 DEF Code!Checked, Code!TypeOK
<1>4. Code!TypeOK /\ Code!NotChecked => Code!TypeOK'
  BY <1>1, <1>2 DEF Code!NotChecked, Code!TypeOK
<1>5. Code!TypeOK /\ Code!Confirm => Code!TypeOK'
  BY DEF Code!Confirm, Code!Send, Code!TypeOK
<1>6. ASSUME Code!TypeOK, NEW d \in Code!Digits, Code!Type(d) PROVE Code!TypeOK'
  BY <1>6 DEF Code!Type, Code!Send, Code!TypeOK
<1> QED
  BY <1>3, <1>4, <1>5, <1>6 DEF Entry

LEMMA TypeCodes ==
  Code!TypeOK /\ (Asking \/ Code!Reload) => Code!TypeOK'
<1> SUFFICES ASSUME Code!TypeOK PROVE Asking \/ Code!Reload => Code!TypeOK'
  OBVIOUS
<1>0. 0 \in Code!Digits /\ 0 \in Code!Ticks /\ Wait \in Code!Ticks
  BY SMT DEF Code!Digits, Code!Codes, Code!Ticks
<1>1. ASSUME Code!AskForCode PROVE Code!TypeOK'
  BY <1>0, <1>1 DEF Code!AskForCode, Code!NotAsking, Code!TypeOK
<1>2. ASSUME Code!StepOpens PROVE Code!TypeOK'
  BY <1>0, <1>2 DEF Code!StepOpens, Code!Opened, Code!NotAsking, Code!TypeOK
<1>3. ASSUME Code!StaysOnForm PROVE Code!TypeOK'
  BY <1>0, <1>3 DEF Code!StaysOnForm, Code!NotAsking, Code!TypeOK
<1>4. ASSUME Code!CodeResent PROVE Code!TypeOK'
  BY <1>0, <1>4 DEF Code!CodeResent, Code!Restarted, Code!NotAsking, Code!TypeOK
<1>5. ASSUME Code!NotResent PROVE Code!TypeOK'
  BY <1>0, <1>5 DEF Code!NotResent, Code!Restarted, Code!NotAsking, Code!TypeOK
<1>6. ASSUME Code!AnswerLost PROVE Code!TypeOK'
  BY <1>0, <1>6 DEF Code!AnswerLost, Code!NotAsking, Code!TypeOK
<1>7. ASSUME Code!Reload PROVE Code!TypeOK'
  BY <1>0, <1>7 DEF Code!Reload, Code!NotAsking, Code!Idle, Code!TypeOK
<1> QED
  BY <1>1, <1>2, <1>3, <1>4, <1>5, <1>6, <1>7 DEF Asking

LEMMA TypeTick == Code!TypeOK /\ (Code!Tick \/ Code!CodeEnds) => Code!TypeOK'
<1>1. Code!TypeOK /\ Code!Tick => Code!TypeOK'
  BY LessLemma DEF Code!Tick, Code!TypeOK
<1>2. Code!TypeOK /\ Code!CodeEnds => Code!TypeOK'
  BY DEF Code!CodeEnds, Code!TypeOK
<1> QED
  BY <1>1, <1>2

LEMMA TypeNext == Code!TypeOK /\ [Code!Next]_Code!vars => Code!TypeOK'
<1> SUFFICES ASSUME Code!TypeOK, [Code!Next]_Code!vars PROVE Code!TypeOK'
  OBVIOUS
<1>1. CASE Code!ServeAsk
  BY <1>1, TypeServeAsk
<1>2. CASE Code!ServeCheck
  BY <1>2, TypeServeCheck
<1>3. CASE Entry
  BY <1>3, TypeDigits
<1>4. CASE Asking \/ Code!Reload
  BY <1>4, TypeCodes
<1>5. CASE Code!Tick \/ Code!CodeEnds
  BY <1>5, TypeTick
<1>6. CASE UNCHANGED Code!vars
  BY <1>6 DEF Code!vars, Code!TypeOK
<1> QED
  BY <1>1, <1>2, <1>3, <1>4, <1>5, <1>6 DEF Asking, Entry, Code!Next

-----------------------------------------------------------------------------
(* The ready link *)

\* The wait on the screen covers both waits of the server; a request goes out
\* only when they are over, and the answers that are still to be shown keep to that.
WaitCovers ==
  mishap = {} /\ step = "code" =>
    /\ asking.at \notin {"new", "nothing"} => cool <= wait /\ (Code!Gated => gate <= wait)
    /\ asking.at = "asked" => cool = 0 /\ (Code!Gated => gate = 0)
    /\ asking.at # "wait"

\* A code that did not go out leaves no wait behind.
UnsentIsFree == asking.at = "unsent" => cool = 0 /\ (Code!Gated => gate = 0)

\* Sign-up passes no gate before its code step opens.
SignupUngated == flow = "signup" /\ step = "form" => gate = 0

\* The change screens of the phone open with their wait already running.
EarlyIsTold == flow = "phone change" /\ step = "code" => "early" \in mishap

LinkInv == WaitCovers /\ UnsentIsFree /\ SignupUngated /\ EarlyIsTold

LEMMA LinkInit == Code!Init => LinkInv
BY DEF Code!Init, LinkInv, WaitCovers, UnsentIsFree, SignupUngated, EarlyIsTold,
       Code!NotAsking, Code!Screens

\* The other parts of the invariant: each step keeps them whatever the waits.
LEMMA UnsentNext == Code!TypeOK /\ LinkInv /\ [Code!Next]_Code!vars => UnsentIsFree'
<1> SUFFICES ASSUME Code!TypeOK, LinkInv, [Code!Next]_Code!vars PROVE UnsentIsFree'
  OBVIOUS
<1> USE DEF LinkInv, UnsentIsFree, SignupUngated, Code!Gated
<1>1. CASE Code!ServeAsk
  BY <1>1, SMT DEF Code!ServeAsk, Code!IssueCode, Code!Passed, Code!TypeOK
<1>2. CASE Checking
  BY <1>2, SMT DEF Checking, Entry, Code!ServeCheck, Code!Confirm, Code!Checked,
              Code!NotChecked, Code!CodeEnds, Code!Type
<1>3. CASE Asking \/ Code!Reload
  BY <1>3, SMT DEF Asking, Code!AskForCode, Code!StepOpens, Code!StaysOnForm,
                   Code!CodeResent, Code!NotResent, Code!AnswerLost, Code!Reload,
                   Code!NotAsking, Code!TypeOK
<1>4. CASE Code!Tick
  BY <1>4, SMT DEF Code!Tick, Code!Less, Code!TypeOK, Code!Ticks
<1>5. CASE UNCHANGED Code!vars
  BY <1>5 DEF Code!vars
<1> QED
  BY <1>1, <1>2, <1>3, <1>4, <1>5 DEF Asking, Checking, Entry, Code!Next

LEMMA SignupNext == Code!TypeOK /\ LinkInv /\ [Code!Next]_Code!vars => SignupUngated'
<1> SUFFICES ASSUME Code!TypeOK, LinkInv, [Code!Next]_Code!vars PROVE SignupUngated'
  OBVIOUS
<1> USE DEF LinkInv, SignupUngated
<1>1. CASE Code!ServeAsk
  BY <1>1, SMT DEF Code!ServeAsk, Code!IssueCode, Code!Gated
<1>2. CASE Checking
  BY <1>2 DEF Checking, Entry, Code!ServeCheck, Code!Confirm, Code!Checked,
              Code!NotChecked, Code!CodeEnds, Code!Type
<1>3. CASE Asking \/ Code!Reload
  BY <1>3 DEF Asking, Code!AskForCode, Code!StepOpens, Code!Opened, Code!StaysOnForm,
                   Code!CodeResent, Code!NotResent, Code!AnswerLost, Code!Reload
<1>4. CASE Code!Tick
  BY <1>4, SMT DEF Code!Tick, Code!Less
<1>5. CASE UNCHANGED Code!vars
  BY <1>5 DEF Code!vars
<1> QED
  BY <1>1, <1>2, <1>3, <1>4, <1>5 DEF Asking, Checking, Entry, Code!Next

LEMMA EarlyNext == LinkInv /\ [Code!Next]_Code!vars => EarlyIsTold'
<1> SUFFICES ASSUME LinkInv, [Code!Next]_Code!vars PROVE EarlyIsTold'
  OBVIOUS
<1> USE DEF LinkInv, EarlyIsTold
<1>1. CASE Code!ServeAsk \/ Code!Tick \/ UNCHANGED Code!vars
  BY <1>1 DEF Code!ServeAsk, Code!Tick, Code!vars
<1>2. CASE Checking
  BY <1>2 DEF Checking, Entry, Code!ServeCheck, Code!Confirm, Code!Checked,
              Code!NotChecked, Code!CodeEnds, Code!Type
<1>3. CASE Asking \/ Code!Reload
  BY <1>3 DEF Asking, Code!AskForCode, Code!StepOpens, Code!Opened, Code!StaysOnForm,
                   Code!CodeResent, Code!NotResent, Code!AnswerLost, Code!Reload
<1> QED
  BY <1>1, <1>2, <1>3 DEF Asking, Checking, Entry, Code!Next

LEMMA CoversServeAsk == Code!TypeOK /\ LinkInv /\ Code!ServeAsk => WaitCovers'
<1> SUFFICES ASSUME Code!TypeOK, LinkInv, Code!ServeAsk, mishap' = {}, step' = "code"
             PROVE  WaitCovers'
  BY DEF WaitCovers
<1>1. mishap = {} /\ step = "code" /\ asking.at = "asked" /\ wait' = wait /\ flow' = flow
  BY DEF Code!ServeAsk
<1>2. cool = 0 /\ (Code!Gated => gate = 0)
  BY <1>1 DEF LinkInv, WaitCovers
<1>3. wait \in Nat /\ asking.left \in Nat
  BY SMT DEF Code!TypeOK, Code!Ticks
<1>4. Code!Gated' = Code!Gated
  BY <1>1, step' = "code" DEF Code!Gated
<1>5. CASE /\ Code!Passed /\ Code!Quiet /\ asking' = [asking EXCEPT !.at = "nothing"]
           /\ UNCHANGED <<otp, cool>>
  <2>1. asking'.at = "nothing"
    BY <1>5 DEF Code!TypeOK
  <2> QED
    BY <2>1 DEF WaitCovers
<1>6. CASE asking' = [asking EXCEPT !.at = "many"] /\ UNCHANGED <<otp, cool, gate>>
  <2>1. asking'.at = "many"
    BY <1>6 DEF Code!TypeOK
  <2> QED
    BY <2>1, <1>1, <1>2, <1>3, <1>4, <1>6, SMT DEF WaitCovers
<1>7. CASE Code!Passed /\ cool = 0 /\ Code!IssueCode
  <2>1. CASE asking' = [asking EXCEPT !.at = "new"]
    <3>1. asking'.at = "new"
      BY <2>1 DEF Code!TypeOK
    <3> QED
      BY <3>1 DEF WaitCovers
  <2>2. CASE cool' = 0 /\ gate' = (IF Code!Gated THEN 0 ELSE gate)
             /\ asking' = [asking EXCEPT !.at = IF Code!Gated THEN "nothing" ELSE "unsent"]
    <3>1. asking'.at \in {"nothing", "unsent"}
      BY <2>2 DEF Code!TypeOK
    <3> QED
      BY <3>1, <2>2, <1>1, <1>3, <1>4, SMT DEF WaitCovers
  <2> QED
    BY <1>7, <2>1, <2>2 DEF Code!IssueCode
<1> QED
  BY <1>1, <1>2, <1>3, <1>5, <1>6, <1>7, SMT DEF Code!ServeAsk

LEMMA CoversCodes ==
  Code!TypeOK /\ LinkInv /\ Asking => WaitCovers'
<1> SUFFICES ASSUME Code!TypeOK, LinkInv PROVE Asking => WaitCovers'
  OBVIOUS
<1> USE DEF Code!TypeOK, LinkInv, WaitCovers, Code!Gated, Code!Ticks, Code!NotAsking
<1>1. ASSUME Code!AskForCode PROVE WaitCovers'
  BY <1>1, SMT DEF Code!AskForCode
<1>2. ASSUME Code!StepOpens PROVE WaitCovers'
  <2>1. CASE flow = "phone change"
    <3>1. "early" \in mishap'
      BY <1>2, <2>1 DEF Code!StepOpens, Code!Opened
    <3> QED
      BY <3>1
  <2>2. CASE flow # "phone change"
    <3>1. asking'.at = "idle" /\ step' = "code" /\ UNCHANGED <<cool, gate, flow>>
      BY <1>2 DEF Code!StepOpens, Code!Opened
    <3>2. cool \in Nat /\ gate \in Nat /\ cool <= Wait /\ gate <= Wait
      BY SMT
    <3>3. CASE wait' = Wait
      BY <3>1, <3>2, <3>3
    <3>4. CASE asking.at = "unsent" /\ flow \in {"signup", "admin"} /\ wait' = 0
      <4>1. cool = 0 /\ (flow = "signup" => gate = 0) /\ flow # "reset"
        BY <1>2, <3>4 DEF Code!StepOpens, UnsentIsFree, SignupUngated
      <4>2. Code!Gated' => gate = 0
        BY <3>1, <4>1
      <4> QED
        BY <3>1, <3>4, <4>1, <4>2, SMT
    <3> QED
      BY <1>2, <2>2, <3>3, <3>4 DEF Code!StepOpens, Code!Opened
  <2> QED
    BY <2>1, <2>2
<1>3. ASSUME Code!StaysOnForm PROVE WaitCovers'
  BY <1>3, SMT DEF Code!StaysOnForm
<1>4. ASSUME Code!CodeResent PROVE WaitCovers'
  BY <1>4, SMT DEF Code!CodeResent, Code!Restarted
<1>5. ASSUME Code!NotResent PROVE WaitCovers'
  <2>1. CASE asking.at = "wait"
    BY <1>5, <2>1 DEF Code!NotResent
  <2>2. CASE asking.at = "unsent"
    BY <1>5, <2>2, SMT DEF Code!NotResent, UnsentIsFree
  <2>3. CASE asking.at = "many"
    BY <1>5, <2>3, SMT DEF Code!NotResent
  <2> QED
    BY <1>5, <2>1, <2>2, <2>3 DEF Code!NotResent
<1>6. ASSUME Code!AnswerLost PROVE WaitCovers'
  <2>1. mishap' # {}
    BY <1>6 DEF Code!AnswerLost
  <2> QED
    BY <2>1
<1> QED
  BY <1>1, <1>2, <1>3, <1>4, <1>5, <1>6 DEF Asking

\* A reload of the sign-up page that takes the wait back says so.
LEMMA CoversReload == Code!TypeOK /\ LinkInv /\ Code!Reload => WaitCovers'
<1> SUFFICES ASSUME Code!TypeOK, LinkInv, Code!Reload, mishap' = {} PROVE WaitCovers'
  BY DEF WaitCovers
<1>1. mishap = {} /\ asking.at = "idle" /\ ~(since < wait)
  BY DEF Code!Reload
<1>2. cool <= wait /\ (Code!Gated => gate <= wait) /\ step = "code"
  BY <1>1 DEF Code!Reload, LinkInv, WaitCovers
<1>3. wait \in Nat /\ since \in Nat /\ cool \in Nat /\ gate \in Nat
  BY SMT DEF Code!TypeOK, Code!Ticks
<1>4. cool <= since /\ (Code!Gated => gate <= since)
  BY <1>1, <1>2, <1>3, SMT
<1>5. asking'.at = "idle" /\ wait' = since /\ UNCHANGED <<cool, gate, flow, step>>
  BY DEF Code!Reload, Code!NotAsking
<1> QED
  BY <1>4, <1>5 DEF WaitCovers, Code!Gated

\* The waits run down together.
LEMMA CoversTick == Code!TypeOK /\ LinkInv /\ Code!Tick => WaitCovers'
BY SMT DEF Code!Tick, Code!Less, Code!TypeOK, LinkInv, WaitCovers, Code!Gated, Code!Ticks

\* Checking the digits does not touch the waits; it may leave the code step.
LEMMA CoversDigits ==
  LinkInv /\ Checking => WaitCovers'
BY SMT DEF Checking, Entry, Code!ServeCheck, Code!Confirm, Code!Checked, Code!NotChecked,
           Code!CodeEnds, Code!Type, LinkInv, WaitCovers, Code!Gated

LEMMA LinkNext == Code!TypeOK /\ LinkInv /\ [Code!Next]_Code!vars => LinkInv'
<1> SUFFICES ASSUME Code!TypeOK, LinkInv, [Code!Next]_Code!vars PROVE LinkInv'
  OBVIOUS
<1>0. UnsentIsFree' /\ SignupUngated' /\ EarlyIsTold'
  BY UnsentNext, SignupNext, EarlyNext
<1>1. CASE Code!ServeAsk
  BY <1>0, <1>1, CoversServeAsk DEF LinkInv
<1>2. CASE Asking
  BY <1>0, <1>2, CoversCodes DEF LinkInv
<1>3. CASE Code!Reload
  BY <1>0, <1>3, CoversReload DEF LinkInv
<1>4. CASE Code!Tick
  BY <1>0, <1>4, CoversTick DEF LinkInv
<1>5. CASE Checking
  BY <1>0, <1>5, CoversDigits DEF LinkInv
<1>6. CASE UNCHANGED Code!vars
  BY <1>6 DEF Code!vars, LinkInv, WaitCovers, UnsentIsFree,
              SignupUngated, EarlyIsTold, Code!Gated
<1> QED
  BY <1>1, <1>2, <1>3, <1>4, <1>5, <1>6 DEF Asking, Checking, Entry, Code!Next

-----------------------------------------------------------------------------
(* In the clients side by side *)

\* A step of the clients is one of the code step, or leaves it.
LEMMA CodeMoves ==
  ASSUME [Next]_vars
  PROVE  UNCHANGED part /\ (part = "code" => [Code!Next]_Code!vars)
BY DEF Next, Only, vars, codeVars, Code!vars

\* The invariant of the clients, as far as the code step goes.
CodeInv == part = "code" => Code!TypeOK /\ LinkInv

LEMMA CodeHolds == Spec => []CodeInv
<1>1. Init => CodeInv
  BY TypeInit, LinkInit DEF Init, CodeInv
<1>2. CodeInv /\ [Next]_vars => CodeInv'
  BY CodeMoves, TypeNext, LinkNext DEF CodeInv
<1> QED
  BY <1>1, <1>2, PTL DEF Spec

\* The server makes a code for a request that meets neither wait, below the hour's maximum.
LEMMA AskedIsMade ==
  Code!TypeOK /\ LinkInv /\ [Code!Next]_Code!vars => Code!ReadyLinkServed
<1> SUFFICES ASSUME Code!TypeOK, LinkInv, [Code!Next]_Code!vars, step = "code",
                    asking.at = "asked", asking'.at # "asked", otp.sent < MaxCodes, mishap' = {}
             PROVE  otp'.newest = otp.newest + 1
  BY DEF Code!ReadyLinkServed
<1>1. CASE Code!ServeAsk
  <2>1. mishap = {} /\ otp.sent # MaxCodes
    BY <1>1, SMT DEF Code!ServeAsk, Code!TypeOK
  <2>2. cool = 0 /\ (Code!Gated => gate = 0)
    BY <2>1 DEF LinkInv, WaitCovers
  <2>3. Code!IssueCode
    BY <1>1, <2>1, <2>2, SMT DEF Code!ServeAsk
  <2> QED
    BY <2>3 DEF Code!IssueCode, Code!Made
<1>2. CASE Checking \/ Code!Tick \/ UNCHANGED Code!vars
  BY <1>2 DEF Checking, Entry, Code!ServeCheck, Code!Confirm, Code!Send, Code!Checked, Code!NotChecked,
              Code!CodeEnds, Code!Type, Code!Tick, Code!vars
<1>3. CASE Asking \/ Code!Reload
  BY <1>3 DEF Asking, Code!AskForCode, Code!StepOpens, Code!StaysOnForm, Code!CodeResent,
              Code!NotResent, Code!AnswerLost, Code!Reload
<1> QED
  BY <1>1, <1>2, <1>3 DEF Asking, Checking, Entry, Code!Next

\* components/auth/use-code-entry.tsx: whatever the length of the wait, a tap on "Send a
\* new code" has the server make a code, unless the hour's maximum is reached, an
\* answer was lost, the wait began early or a reload took an older one.
THEOREM ReadyLinks == Spec => ReadyLinkIsServed
<1>1. CodeInv /\ [Next]_vars => [part = "code" => Code!ReadyLinkServed]_vars
  BY CodeMoves, AskedIsMade DEF CodeInv
<1> QED
  BY <1>1, CodeHolds, PTL DEF Spec, ReadyLinkIsServed

-----------------------------------------------------------------------------
(* The screens: the person's own change *)

Loads == [at : {"idle", "asked", "served"}, answer : View!Copies \union {View!NoData}]
Works == [at : {"idle", "asked", "served", "refused", "done", "failed"},
          seen : View!Copies \union {View!NoData}, change : 0..2, wasSeen : BOOLEAN]

\* The row changes at most once by the operation and once by others.
ChangesCounted ==
  row.changes <= (IF moved THEN 1 ELSE 0) + (IF work.at \in {"idle", "asked"} THEN 0 ELSE 1)

ScreensTyped == View!TypeOK /\ View!Subject(subject) /\ ChangesCounted

\* What a choice of operation, screens and query is.
LEMMA SubjectIs ==
  ASSUME View!Subject(subject)
  PROVE  \E o \in Operations :
           /\ subject.client = o.client /\ subject.op = o.op
           /\ subject.query \in DOMAIN Reads[o.client]
           /\ o.op.touches \intersect Reads[o.client][subject.query] # {}
           /\ subject.on \in {p \in Pages : p.client = o.client}
           /\ subject.query \in subject.at.shows
BY DEF View!Subject

LEMMA Statuses ==
  ASSUME View!Subject(subject)
  PROVE  /\ \A s \in DOMAIN subject.op.gives : subject.op.gives[s] \in View!Every(subject.op.row)
         /\ \A m \in View!Rows[subject.op.row].moves : m[2] \in View!Every(subject.op.row)
BY SubjectIs, RowsAssumption DEF View!RowsKnown

LEMMA CopyIs ==
  /\ View!NoData.changes = 0 /\ View!NoData \in View!Copies \union {View!NoData}
  /\ \A c \in View!Copies \union {View!NoData} : c.changes \in 0..2
BY DEF View!NoData, View!Copies

LEMMA LoadIs ==
  /\ View!NoLoad \in Loads /\ View!NoLoad.at = "idle"
  /\ View!Asked \in Loads /\ View!Asked.at = "asked"
BY CopyIs DEF Loads, View!NoLoad, View!Asked

LEMMA ScreensInit == View!Init => ScreensTyped
<1> SUFFICES ASSUME View!Init PROVE ScreensTyped
  OBVIOUS
<1>1. row \in View!Copies /\ row.changes = 0
  BY DEF View!Init, View!Copies
<1>2. load \in Loads
  <2>1. load = View!Asked \/ load = [View!NoLoad EXCEPT !.at = "idle"]
    BY DEF View!Init, View!Asked
  <2> QED
    BY <2>1, LoadIs DEF Loads
<1>3. work \in Works /\ work.at = "idle"
  BY CopyIs DEF View!Init, View!NoWork, Works
<1>4. mounted \subseteq {subject.on, subject.at} /\ cached = View!NoData /\ View!Subject(subject)
      /\ outdated \in BOOLEAN /\ moved = FALSE /\ excused = {}
  BY DEF View!Init
<1>5. ChangesCounted
  BY <1>1, <1>3, <1>4 DEF ChangesCounted
<1> QED
  BY <1>1, <1>2, <1>3, <1>4, <1>5 DEF ScreensTyped, View!TypeOK, Loads, Works

LEMMA InvalidatedIs ==
  ASSUME NEW keys, View!Invalidated(keys), load \in Loads, outdated \in BOOLEAN,
         excused \subseteq {"failed", "lost", "raced"}
  PROVE  /\ load' \in Loads /\ outdated' \in BOOLEAN
         /\ excused \subseteq excused' /\ excused' \subseteq {"failed", "lost", "raced"}
         /\ subject.query \in keys /\ excused' = {} =>
              /\ outdated' /\ load'.at # "served"
              /\ cached = View!NoData \/ (View!Shown(mounted) => load'.at # "idle")
<1>1. CASE subject.query \notin keys
  BY <1>1 DEF View!Invalidated
<1>2. CASE subject.query \in keys
  <2>1. /\ outdated' = TRUE
        /\ load' = IF View!Restarts THEN View!Asked ELSE load
        /\ excused' = IF load.at = "served" /\ ~View!Restarts THEN excused \union {"raced"} ELSE excused
    BY <1>2 DEF View!Invalidated
  <2>2. View!Restarts \/ cached = View!NoData \/ ~View!Shown(mounted)
    BY DEF View!Restarts
  <2> QED
    BY <2>1, <2>2, LoadIs
<1> QED
  BY <1>1, <1>2

\* The row and the request of the operation.
LEMMA ServeTyped ==
  ASSUME ScreensTyped, View!Serve
  PROVE  ScreensTyped'
<1>1. /\ work.at = "asked" /\ work \in Works /\ row \in View!Copies /\ moved \in BOOLEAN
      /\ UNCHANGED <<subject, mounted, cached, outdated, load, moved, excused>>
  BY DEF View!Serve, ScreensTyped, View!TypeOK, Works
<1>2. row.changes \in 0..1 /\ row.changes <= IF moved THEN 1 ELSE 0
  BY <1>1 DEF ScreensTyped, ChangesCounted, View!Copies
<1>3. CASE row.status \in DOMAIN subject.op.gives
  <2>1. /\ row' = [status |-> subject.op.gives[row.status], changes |-> row.changes + 1]
        /\ work' = [work EXCEPT !.at = "served", !.seen = row', !.change = row'.changes]
    BY <1>3 DEF View!Serve
  <2>2. row' \in View!Copies /\ row'.changes = row.changes + 1 /\ row'.changes \in 0..2
    BY <1>2, <1>3, <2>1, Statuses DEF View!Copies, ScreensTyped
  <2>3. work' \in Works /\ work'.at = "served"
    BY <1>1, <2>1, <2>2 DEF Works
  <2>4. ChangesCounted'
    BY <1>1, <1>2, <2>2, <2>3 DEF ChangesCounted
  <2> QED
    BY <1>1, <2>2, <2>3, <2>4 DEF ScreensTyped, View!TypeOK, Works, View!Copies
<1>4. CASE row.status \notin DOMAIN subject.op.gives
  <2>1. work' = [work EXCEPT !.at = "refused", !.wasSeen = (row = work.seen)] /\ row' = row
    BY <1>4 DEF View!Serve
  <2>3. work' \in Works /\ work'.at = "refused"
    BY <1>1, <2>1 DEF Works
  <2>4. ChangesCounted'
    BY <1>1, <1>2, <2>1, <2>3 DEF ChangesCounted
  <2> QED
    BY <1>1, <2>1, <2>3, <2>4 DEF ScreensTyped, View!TypeOK, Works, View!Copies
<1> QED
  BY <1>3, <1>4

LEMMA OthersTyped ==
  ASSUME ScreensTyped, View!OthersMove
  PROVE  ScreensTyped'
<1>1. /\ ~moved /\ moved' = TRUE /\ row \in View!Copies
      /\ UNCHANGED <<subject, mounted, cached, outdated, load, work, excused>>
  BY DEF View!OthersMove, ScreensTyped, View!TypeOK
<1>2. row.changes \in 0..1 /\ row.changes <= IF work.at \in {"idle", "asked"} THEN 0 ELSE 1
  BY <1>1 DEF ScreensTyped, ChangesCounted, View!Copies
<1>3. PICK m \in View!Rows[subject.op.row].moves :
        row' = [status |-> m[2], changes |-> row.changes + 1]
  BY DEF View!OthersMove
<1>4. row' \in View!Copies /\ row'.changes = row.changes + 1
  BY <1>2, <1>3, Statuses DEF View!Copies, ScreensTyped
<1>5. ChangesCounted'
  BY <1>1, <1>2, <1>4 DEF ChangesCounted
<1> QED
  BY <1>1, <1>4, <1>5 DEF ScreensTyped, View!TypeOK, View!Copies

\* Steps of the cache: whatever happens to the fetch, the row is left.
CacheStep ==
  \/ \E p \in {subject.on, subject.at} : View!Open(p) \/ View!Close(p)
  \/ View!GoesStale \/ View!Refetch \/ View!ServeLoad \/ View!Loaded \/ View!LoadFails

LEMMA CacheTyped ==
  ASSUME ScreensTyped, CacheStep
  PROVE  ScreensTyped'
<1>1. UNCHANGED <<subject, row, work, moved>>
  BY DEF CacheStep, View!Open, View!Close, View!GoesStale, View!Refetch, View!ServeLoad, View!Loaded,
         View!LoadFails
<1>2. /\ row \in View!Copies /\ mounted \subseteq {subject.on, subject.at} /\ load \in Loads
      /\ cached \in View!Copies \union {View!NoData} /\ outdated \in BOOLEAN
      /\ excused \subseteq {"failed", "lost", "raced"}
  BY DEF ScreensTyped, View!TypeOK, Loads
<1>3. mounted' \subseteq {subject.on, subject.at}
  BY <1>2 DEF CacheStep, View!Open, View!Close, View!GoesStale, View!Refetch, View!ServeLoad, View!Loaded,
         View!LoadFails
<1>4. load' \in Loads
  <2>1. CASE View!ServeLoad
    BY <1>2, <2>1 DEF View!ServeLoad, Loads
  <2>2. CASE ~View!ServeLoad
    <3>1. load' \in {load, View!Asked, View!NoLoad}
      BY <2>2 DEF CacheStep, View!Open, View!Close, View!GoesStale, View!Refetch, View!Loaded,
                  View!LoadFails
    <3> QED
      BY <1>2, <3>1, LoadIs
  <2> QED
    BY <2>1, <2>2
<1>5. cached' \in View!Copies \union {View!NoData} /\ outdated' \in BOOLEAN
      /\ excused' \subseteq {"failed", "lost", "raced"}
  BY <1>2 DEF CacheStep, View!Open, View!Close, View!GoesStale, View!Refetch, View!ServeLoad, View!Loaded,
         View!LoadFails, Loads
<1> QED
  BY <1>1, <1>3, <1>4, <1>5 DEF ScreensTyped, View!TypeOK, Loads, ChangesCounted, View!Copies

\* Steps of the operation on the screen.
ButtonStep == View!Press \/ View!Succeeds \/ View!Fails \/ View!Loses

LEMMA ButtonTyped ==
  ASSUME ScreensTyped, ButtonStep
  PROVE  ScreensTyped'
<1>1. UNCHANGED <<subject, row, moved>> /\ mounted' \subseteq mounted
  BY DEF ButtonStep, View!Press, View!Succeeds, View!Fails, View!Loses
<1>2. /\ row \in View!Copies /\ mounted \subseteq {subject.on, subject.at} /\ load \in Loads
      /\ cached \in View!Copies \union {View!NoData} /\ outdated \in BOOLEAN /\ work \in Works
      /\ excused \subseteq {"failed", "lost", "raced"} /\ moved \in BOOLEAN
  BY DEF ScreensTyped, View!TypeOK, Loads, Works
<1>3. work' \in Works /\ (work'.at \in {"idle", "asked"} => work.at \in {"idle", "asked"})
  <2>1. CASE View!Press
    <3>1. PICK f \in View!OffersOf(subject.on, subject.op) :
            /\ work.at = "idle"
            /\ work' = [View!NoWork EXCEPT !.at = "asked", !.seen = IF f.from = subject.query THEN cached ELSE row]
      BY <2>1 DEF View!Press
    <3>2. View!NoWork \in Works
      BY CopyIs DEF View!NoWork, Works
    <3> QED
      BY <1>2, <3>1, <3>2 DEF Works
  <2>2. CASE View!Succeeds
    BY <1>2, <2>2 DEF View!Succeeds, Works
  <2>3. CASE View!Fails
    BY <1>2, <2>3 DEF View!Fails, Works
  <2>4. CASE View!Loses
    BY <1>2, <2>4 DEF View!Loses, Works
  <2> QED
    BY <2>1, <2>2, <2>3, <2>4 DEF ButtonStep
<1>4. /\ load' \in Loads /\ cached' \in View!Copies \union {View!NoData} /\ outdated' \in BOOLEAN
      /\ excused' \subseteq {"failed", "lost", "raced"}
  <2>1. CASE View!Press \/ View!Loses
    BY <1>2, <2>1 DEF View!Press, View!Loses
  <2>2. CASE View!Fails
    <3>1. View!Invalidated(subject.op.onError) /\ UNCHANGED cached
      BY <2>2 DEF View!Fails
    <3> QED
      BY <1>2, <3>1, InvalidatedIs
  <2>3. CASE View!Succeeds
    <3>1. CASE subject.query \in subject.op.puts
      BY <1>2, <2>3, <3>1 DEF View!Succeeds, Works
    <3>2. CASE subject.query \notin subject.op.puts
      <4>1. View!Invalidated(subject.op.drops) /\ UNCHANGED cached
        BY <2>3, <3>2 DEF View!Succeeds
      <4> QED
        BY <1>2, <4>1, InvalidatedIs
    <3> QED
      BY <3>1, <3>2
  <2> QED
    BY <2>1, <2>2, <2>3 DEF ButtonStep
<1>5. ChangesCounted'
  BY <1>1, <1>2, <1>3 DEF ScreensTyped, ChangesCounted, View!Copies
<1> QED
  BY <1>1, <1>2, <1>3, <1>4, <1>5 DEF ScreensTyped, View!TypeOK, Loads, Works, View!Copies

LEMMA ViewSteps ==
  ASSUME View!Next
  PROVE  CacheStep \/ ButtonStep \/ View!Serve \/ View!OthersMove
BY DEF View!Next, CacheStep, ButtonStep

LEMMA ScreensTypedStep ==
  ASSUME ScreensTyped, [View!Next]_View!vars
  PROVE  ScreensTyped'
<1>1. CASE UNCHANGED View!vars
  BY <1>1 DEF View!vars, ScreensTyped, View!TypeOK, ChangesCounted, View!Copies
<1> QED
  BY <1>1, ViewSteps, CacheTyped, ButtonTyped, ServeTyped, OthersTyped

-----------------------------------------------------------------------------
(* What was served is what the row became; later changes only add to it. *)
ServedFirst ==
  work.at \in {"served", "done"} => work.seen.changes = work.change /\ work.change <= row.changes

Refreshed == subject.query \in subject.op.puts \union subject.op.drops

\* Once the operation is done the query has its change, or is about to have it:
\* marked, with a fetch out that was not served before if a screen shows it.
Arrives ==
  work.at = "done" /\ excused = {} /\ Refreshed =>
    /\ load.at = "served" => work.change <= load.answer.changes
    /\ \/ cached = View!NoData
       \/ work.change <= cached.changes
       \/ outdated /\ (subject.at \in mounted => load.at # "idle")

\* The request is one that a screen offered, and a refusal is by the status.
Pressed ==
  /\ work.at \in {"asked", "refused"} =>
       \E f \in View!OffersOf(subject.on, subject.op) : work.seen.status \in f.when
  /\ work.at = "refused" /\ work.wasSeen => work.seen.status \notin DOMAIN subject.op.gives

ScreensInv == ScreensTyped /\ ServedFirst /\ Arrives /\ Pressed

LEMMA ScreenTypes ==
  ASSUME ScreensTyped
  PROVE  /\ work \in Works /\ load \in Loads /\ row.changes \in Nat /\ cached.changes \in Nat
         /\ work.change \in Nat /\ load.answer.changes \in Nat /\ outdated \in BOOLEAN
         /\ excused \subseteq {"failed", "lost", "raced"}
         /\ \A keys : View!Invalidated(keys) => excused \subseteq excused'
<1>1. /\ work \in Works /\ load \in Loads /\ row \in View!Copies /\ outdated \in BOOLEAN
      /\ cached \in View!Copies \union {View!NoData}
      /\ excused \subseteq {"failed", "lost", "raced"}
  BY DEF ScreensTyped, View!TypeOK, Works, Loads
<1>2. work.change \in Nat
  BY <1>1 DEF Works
<1>3. load.answer \in View!Copies \union {View!NoData}
  BY <1>1 DEF Loads
<1> QED
  BY <1>1, <1>2, <1>3, CopyIs, InvalidatedIs

LEMMA CacheArrives ==
  ASSUME ScreensInv, CacheStep
  PROVE  ScreensInv'
<1>1. /\ UNCHANGED <<subject, row, work, moved>> /\ (excused' = {} => excused = {} /\ ~View!LoadFails)
  BY DEF CacheStep, View!Open, View!Close, View!GoesStale, View!Refetch, View!ServeLoad, View!Loaded,
         View!LoadFails
<1>2. ServedFirst' /\ Pressed'
  BY <1>1 DEF ScreensInv, ServedFirst, Pressed, View!OffersOf
<1>3. ASSUME work.at = "done", excused' = {}, Refreshed
      PROVE  /\ load'.at = "served" => work.change <= load'.answer.changes
             /\ \/ cached' = View!NoData
                \/ work.change <= cached'.changes
                \/ outdated' /\ (subject.at \in mounted' => load'.at # "idle")
  <2>1. /\ load.at = "served" => work.change <= load.answer.changes
        /\ \/ cached = View!NoData
           \/ work.change <= cached.changes
           \/ outdated /\ (subject.at \in mounted => load.at # "idle")
        /\ work.change <= row.changes
    BY <1>1, <1>3 DEF ScreensInv, Arrives, ServedFirst
  <2>2. subject.query \in subject.at.shows
    BY SubjectIs DEF ScreensInv, ScreensTyped
  <2>3. ASSUME NEW p \in {subject.on, subject.at}, View!Open(p) \/ View!Close(p)
        PROVE  /\ load'.at = "served" => work.change <= load'.answer.changes
               /\ \/ cached' = View!NoData
                  \/ work.change <= cached'.changes
                  \/ outdated' /\ (subject.at \in mounted' => load'.at # "idle")
    BY <2>1, <2>2, <2>3, LoadIs DEF View!Open, View!Close
  <2>4. CASE View!GoesStale \/ View!Refetch
    BY <2>1, <2>4, LoadIs DEF View!GoesStale, View!Refetch
  <2>5. CASE View!ServeLoad
    BY <2>1, <2>5 DEF View!ServeLoad
  <2>6. CASE View!Loaded
    BY <2>1, <2>6, LoadIs DEF View!Loaded
  <2> QED
    BY <1>1, <1>3, <2>3, <2>4, <2>5, <2>6 DEF CacheStep
<1> QED
  BY <1>1, <1>2, <1>3, CacheTyped DEF ScreensInv, Arrives, Refreshed

LEMMA SucceedsArrives ==
  ASSUME ScreensInv, View!Succeeds
  PROVE  ScreensInv'
<1>1. /\ work.at = "served" /\ work' = [work EXCEPT !.at = "done"] /\ UNCHANGED <<subject, row, moved>>
      /\ mounted' \subseteq mounted
  BY DEF View!Succeeds
<1>2. /\ work'.at = "done" /\ work'.seen = work.seen /\ work'.change = work.change
      /\ work.seen.changes = work.change /\ work.change <= row.changes /\ work.change \in Nat
  BY <1>1, ScreenTypes DEF ScreensInv, Works, ServedFirst
<1>3. ServedFirst' /\ Pressed'
  BY <1>1, <1>2 DEF ServedFirst, Pressed
<1>4. ASSUME excused' = {}, Refreshed
      PROVE  /\ load'.at = "served" => work.change <= load'.answer.changes
             /\ \/ cached' = View!NoData
                \/ work.change <= cached'.changes
                \/ outdated' /\ (subject.at \in mounted' => load'.at # "idle")
  <2>1. CASE subject.query \in subject.op.puts
    <3>1. cached' = work.seen /\ load' = load /\ load.at # "served"
      BY <1>4, <2>1 DEF View!Succeeds
    <3> QED
      BY <1>2, <3>1
  <2>2. CASE subject.query \notin subject.op.puts
    <3>1. View!Invalidated(subject.op.drops) /\ cached' = cached /\ subject.query \in subject.op.drops
      BY <1>4, <2>2 DEF View!Succeeds, Refreshed
    <3>2. /\ outdated' /\ load'.at # "served"
          /\ cached = View!NoData \/ (View!Shown(mounted) => load'.at # "idle")
      BY <1>4, <3>1, ScreenTypes, InvalidatedIs DEF ScreensInv
    <3>3. subject.at \in mounted => View!Shown(mounted)
      BY SubjectIs DEF ScreensInv, ScreensTyped, View!Shown
    <3> QED
      BY <1>1, <3>1, <3>2, <3>3
  <2> QED
    BY <2>1, <2>2
<1> QED
  BY <1>1, <1>2, <1>3, <1>4, ButtonTyped DEF ButtonStep, ScreensInv, Arrives, Refreshed

LEMMA OthersArrive ==
  ASSUME ScreensInv, View!Press \/ View!Fails \/ View!Loses \/ View!Serve \/ View!OthersMove
  PROVE  ScreensInv'
<1>1. ScreensTyped' /\ subject' = subject
  BY ButtonTyped, ServeTyped, OthersTyped
     DEF ButtonStep, ScreensInv, View!Press, View!Fails, View!Loses, View!Serve, View!OthersMove
<1>2. CASE View!Press
  <2>1. PICK f \in View!OffersOf(subject.on, subject.op) :
          LET seen == IF f.from = subject.query THEN cached ELSE row
          IN seen.status \in f.when /\ work' = [View!NoWork EXCEPT !.at = "asked", !.seen = seen]
    BY <1>2 DEF View!Press
  <2>2. work'.at = "asked" /\ work'.seen.status \in f.when
    BY <2>1 DEF View!NoWork
  <2> QED
    BY <1>1, <2>2 DEF ScreensInv, ServedFirst, Arrives, Pressed
<1>3. CASE View!Fails \/ View!Loses
  <2>1. work'.at = "failed"
    BY <1>3, ScreenTypes DEF View!Fails, View!Loses, ScreensInv, Works
  <2> QED
    BY <1>1, <2>1 DEF ScreensInv, ServedFirst, Arrives, Pressed
<1>4. CASE View!Serve
  <2>1. CASE row.status \in DOMAIN subject.op.gives
    <3>1. work'.at = "served" /\ work'.seen = row' /\ work'.change = row'.changes
      BY <1>4, <2>1, ScreenTypes DEF View!Serve, ScreensInv, Works
    <3>2. row'.changes \in Nat
      BY <1>4, <2>1, ScreenTypes DEF View!Serve, ScreensInv
    <3> QED
      BY <1>1, <3>1, <3>2 DEF ScreensInv, ServedFirst, Arrives, Pressed
  <2>2. CASE row.status \notin DOMAIN subject.op.gives
    <3>1. /\ work'.at = "refused" /\ work'.seen = work.seen /\ work'.wasSeen = (row = work.seen)
          /\ work.at = "asked"
      BY <1>4, <2>2, ScreenTypes DEF View!Serve, ScreensInv, Works
    <3> QED
      BY <1>1, <2>2, <3>1 DEF ScreensInv, ServedFirst, Arrives, Pressed
  <2> QED
    BY <2>1, <2>2
<1>5. CASE View!OthersMove
  <2>1. /\ UNCHANGED <<mounted, cached, outdated, load, work, excused>>
        /\ row'.changes = row.changes + 1
    BY <1>5 DEF View!OthersMove
  <2> QED
    BY <1>1, <2>1, ScreenTypes DEF ScreensInv, ServedFirst, Arrives, Pressed, Refreshed
<1> QED
  BY <1>2, <1>3, <1>4, <1>5

LEMMA ScreensStep ==
  ASSUME ScreensInv, [View!Next]_View!vars
  PROVE  ScreensInv'
<1>1. CASE UNCHANGED View!vars
  BY <1>1, ScreensTypedStep DEF View!vars, ScreensInv, ServedFirst, Arrives, Refreshed, Pressed
<1> QED
  BY <1>1, ViewSteps, CacheArrives, SucceedsArrives, OthersArrive DEF ButtonStep

-----------------------------------------------------------------------------
(* In the clients side by side *)

LEMMA PagesMove ==
  ASSUME [Next]_vars
  PROVE  UNCHANGED part /\ (part = "pages" => [View!Next]_View!vars)
BY DEF Next, Only, vars, pagesVars, View!vars

\* The invariant of the clients, as far as the screens go.
PagesInv == part = "pages" => ScreensInv

LEMMA PagesHold == Spec => []PagesInv
<1>1. View!Init => ScreensInv
  BY ScreensInit DEF View!Init, View!NoWork, ScreensInv, ServedFirst, Arrives, Pressed
<1>2. Init => PagesInv
  BY <1>1 DEF Init, PagesInv
<1>3. PagesInv /\ [Next]_vars => PagesInv'
  BY PagesMove, ScreensStep DEF PagesInv
<1> QED
  BY <1>2, <1>3, PTL DEF Spec

\* The query hooks: whatever the screens, the queries and the order of the fetches, if every
\* operation invalidates or writes each query that shows a row it changes, but for
\* Lagging, then the person's own change reaches every screen at rest that shows it.
THEOREM OwnChangesArrive == ASSUME View!Covered PROVE Spec => []OwnChangeShows
<1>1. PagesInv => OwnChangeShows
  <2> SUFFICES ASSUME ScreensInv, work.at = "done", subject.at \in mounted, load.at = "idle",
                      cached # View!NoData, excused = {},
                      <<subject.client, subject.op.name, subject.query>> \notin Lagging
               PROVE  cached.changes >= work.change
    BY DEF PagesInv, OwnChangeShows, View!OwnChangeShows
  <2>1. Refreshed
    BY SubjectIs DEF ScreensInv, ScreensTyped, View!Covered, Refreshed
  <2>2. work.change <= cached.changes
    BY <2>1 DEF ScreensInv, Arrives
  <2> QED
    BY <2>2, ScreenTypes DEF ScreensInv
<1> QED
  BY <1>1, PagesHold, PTL

\* The screens of the four clients: if the server accepts every offer in the statuses
\* it is made in, but for Unchecked, then nobody is refused a button their screen
\* showed them on the row as it is, however the row, the cache and the request move.
THEOREM OffersAreKept == ASSUME View!Accepted PROVE Spec => []OnlyOldRowsRefused
<1>1. PagesInv => OnlyOldRowsRefused
  <2> SUFFICES ASSUME ScreensInv, work.at = "refused", work.wasSeen
               PROVE  <<subject.client, subject.op.name, work.seen.status>> \in Unchecked
    BY DEF PagesInv, OnlyOldRowsRefused, View!OnlyOldRowsRefused
  <2>1. PICK f \in View!OffersOf(subject.on, subject.op) : work.seen.status \in f.when
    BY DEF ScreensInv, Pressed
  <2>2. work.seen.status \notin DOMAIN subject.op.gives
    BY DEF ScreensInv, Pressed
  <2>3. PICK o \in Operations : /\ subject.client = o.client /\ subject.op = o.op
                                /\ subject.on \in {p \in Pages : p.client = o.client}
    BY SubjectIs DEF ScreensInv, ScreensTyped
  <2>4. f \in subject.on.offers /\ f.op = o.op.name
    BY <2>1, <2>3 DEF View!OffersOf
  <2> QED
    BY <2>1, <2>2, <2>3, <2>4 DEF View!Accepted
<1> QED
  BY <1>1, PagesHold, PTL

-----------------------------------------------------------------------------
(* The types of every part *)

OnePart == part \in {"session", "web", "code", "checkout", "slots", "liked", "settings", "pages"}

\* The toast names hours.
HoursNamed == part = "slots" => announced \subseteq Slots!Hours

LEMMA NamedStep == HourListInv /\ HoursNamed /\ [Next]_vars => HoursNamed'
<1> SUFFICES ASSUME HourListInv, HoursNamed, [Next]_vars, part' = "slots"
             PROVE  announced' \subseteq Slots!Hours
  BY DEF HoursNamed
<1>1. /\ part = "slots" /\ (Slots!Next \/ UNCHANGED slotsVars)
      /\ announced \subseteq Slots!Hours /\ picked \subseteq Slots!Hours
  BY SlotsMove DEF HoursNamed, HourListInv, HourInv, SlotsTyped
<1>2. announced' \subseteq announced \union picked
  <2>1. ASSUME NEW h \in Slots!Hours,
               \/ Slots!Take(h) \/ Slots!AnnounceRelease(h) \/ Slots!Choose(h)
               \/ \E ok \in BOOLEAN : Slots!EndRelease(h, ok)
        PROVE  announced' = announced
    BY <2>1 DEF Slots!Take, Slots!AnnounceRelease, Slots!Choose, Slots!EndRelease
  <2>2. CASE \/ Slots!Refetch \/ Slots!ServeFetch \/ Slots!FetchFails \/ Slots!SocketOpens
             \/ Slots!SocketCloses \/ Slots!Reconnect \/ UNCHANGED slotsVars
    BY <2>2 DEF Slots!Refetch, Slots!ServeFetch, Slots!FetchFails, Slots!SocketOpens,
                Slots!SocketCloses, Slots!Reconnect, slotsVars
  <2>3. CASE Slots!Fetched \/ Slots!Receive
    BY <2>3 DEF Slots!Fetched, Slots!Receive, Slots!Noticed
  <2>4. CASE Slots!Switch
    BY <2>4 DEF Slots!Switch
  <2> QED
    BY <1>1, <2>1, <2>2, <2>3, <2>4 DEF Slots!Next
<1> QED
  BY <1>1, <1>2

LEMMA NamesHold == Spec => []HoursNamed
<1>1. Init => HoursNamed
  BY DEF Init, HoursNamed, Slots!Init
<1> QED
  BY <1>1, NamedStep, HourListHolds, PTL DEF Spec

\* The stores, hooks and screens of both front ends: every variable of every part has its
\* type, for any accounts, tabs, tokens, waits, bookings, hours, arenas, sections and
\* tables; among the types, wrong tries of a code never pass the lock (codes.py).
THEOREM ClientTypes == Spec => []TypesOK
<1>1. PhoneInv => (part = "session" => Session!TypeOK)
  <2> SUFFICES ASSUME Based PROVE Session!TypeOK
    BY DEF PhoneInv
  <2>1. pairs \in Session!PairSets /\ saved \in 0..pairs.issued
    BY DEF Based, Numbered, Issued, Sound
  <2>2. pairs.issued \in 0..PhonePairs
    BY <2>1, NumbersAre DEF Session!PairSets
  <2>3. saved \in Session!Held
    BY <2>1, <2>2, NumbersAre
  <2> QED
    BY <2>1, <2>3 DEF Based, SessionTyped, Session!TypeOK, Phones, Calls, Refreshes, Signins
<1>2. TabsInv => (part = "web" => Web!TypeOK)
  BY DEF TabsInv, ConsoleInv, ConsoleTyped, Web!TypeOK, Counted, Coherent, Memories, Users, Windows,
         TabAsks, Renewals
<1>3. CodeInv => (part = "code" => Code!TypeOK)
  BY DEF CodeInv
<1>4. PurchaseInv => (part = "checkout" => Checkout!TypeOK)
  BY DEF PurchaseInv, Grounded
<1>5. HourListInv /\ HoursNamed => (part = "slots" => Slots!TypeOK)
  BY DEF HourListInv, HourInv, SlotsTyped, HoursNamed, Slots!TypeOK, Messages, HourFetches, HourLists
<1>6. HeartsInv => (part = "liked" => Liked!TypeOK)
  BY DEF HeartsInv, LikedInv, LikedTyped, LikedTaps, Liked!TypeOK
<1>7. EditingTyped => (part = "settings" => Settings!TypeOK)
  BY DEF EditingTyped, FormTyped
<1>8. PagesInv => (part = "pages" => View!TypeOK)
  BY DEF PagesInv, ScreensInv, ScreensTyped
<1>9. OnePart /\ PhoneInv /\ TabsInv /\ CodeInv /\ PurchaseInv /\ HourListInv /\ HoursNamed /\ HeartsInv
        /\ EditingTyped /\ PagesInv => TypesOK
  BY <1>1, <1>2, <1>3, <1>4, <1>5, <1>6, <1>7, <1>8 DEF TypesOK, OnePart
<1>10. Spec => []OnePart
  <2>1. Init => OnePart
    BY DEF Init, OnePart
  <2>2. OnePart /\ [Next]_vars => OnePart'
    BY CodeMoves DEF OnePart
  <2> QED
    BY <2>1, <2>2, PTL DEF Spec
<1> QED
  BY <1>9, <1>10, PhoneHolds, TabsHold, CodeHolds, PurchasesHold, HourListHolds, NamesHold, HeartsHold,
     EditingIsTyped, PagesHold, PTL

=============================================================================
