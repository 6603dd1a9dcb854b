------------------------- MODULE DtaDiscovery_proofs -------------------------
(***************************************************************************)
(* Theorems about discovery in DtaLib: when the radio stopped, either it   *)
(* will be started again or the library will know that it stopped; and     *)
(* after a card emulation, or a contact in LLCP mode, it is started again. *)
(***************************************************************************)
EXTENDS DtaContacts_proofs

(* What follows the start of discovery in its call: the middleware marks   *)
(* it started, the application stores the configuration.                   *)
Late == {"SetStarted", "SavePrev"}
Starts == {"StartRfDiscovery", "SetStarted"}

LateFollows(d) == \A j \in 1 .. Len(d) - 1 : d[j + 1] \in Late => d[j] \in Starts

InOrder(c) ==
  /\ \A i \in 1 .. Len(c) : LateFollows(c[i])
  /\ \A i \in 2 .. Len(c) : c[i][1] \notin Late

(* The command that starts discovery was given in a call of t that goes on. *)
Started(t) ==
  /\ Busy(t)
  /\ Step(t) \in Late \/ (Step(t) = "StartRfDiscovery" /\ at[t] # "run")

(* The start of discovery is never refused.                                *)
StartAccepted == "StartRfDiscovery" \notin MayRefuse

(* The integration thread, if there is one, does not act.                  *)
NobodySelects == ~\E t \in Integrator : Integration(t)

-----------------------------------------------------------------------------
(* The order of the steps of a call.                                       *)

LEMMA OrderedTail ==
  ASSUME NEW S, NEW c \in CallsOf(S), c # <<>>, InOrder(c)
  PROVE  InOrder(Tail(c)) /\ (Tail(c) # <<>> => Tail(c)[1][1] \notin Late)
<1> DEFINE q == Tail(c)
           n == Len(c)
<1>1. n \in Nat /\ n > 0
  BY CallFacts
<1>2. q \in CallsOf(S) /\ Len(q) = n - 1 /\ \A i \in 1 .. n - 1 : q[i] = c[i + 1]
  BY TailFacts
<1>3. q # <<>> => 1 \in 1 .. n - 1 /\ 2 \in 2 .. n
  <2>1. q # <<>> => Len(q) > 0
    BY <1>2, CallFacts
  <2> HIDE DEF q, n
  <2> QED BY <1>1, <1>2, <2>1
<1> HIDE DEF q
<1>4. \A i \in 1 .. n - 1 : i + 1 \in 1 .. n /\ i + 1 \in 2 .. n
  BY <1>1
<1>5. InOrder(q)
  <2>1. \A i \in 1 .. n : LateFollows(c[i]) /\ (i \in 2 .. n => c[i][1] \notin Late)
    BY <1>1 DEF InOrder
  <2>2. \A i \in 2 .. n - 1 : i \in 1 .. n - 1
    BY <1>1
  <2>3. \A i \in 1 .. n - 1 : LateFollows(q[i]) /\ q[i][1] \notin Late
    BY <1>2, <1>4, <2>1
  <2> HIDE DEF n
  <2> QED BY <1>2, <2>2, <2>3 DEF InOrder
<1>6. q # <<>> => q[1][1] \notin Late
  <2>1. 1 + 1 = 2 OBVIOUS
  <2> QED BY <1>2, <1>3, <2>1 DEF InOrder
<1> QED BY <1>5, <1>6 DEF q

LEMMA OrderedPushed ==
  ASSUME NEW S, NEW c \in CallsOf(S), c # <<>>, InOrder(c), NEW s \in Seq(S),
         \A j \in 1 .. Len(s) : s[j] \notin Late,
         Len(s) > 0 => c[1][1] \notin Starts
  PROVE  /\ InOrder(Pushed(c, s))
         /\ Pushed(c, s) # <<>> /\ c[1][1] \notin Starts => Pushed(c, s)[1][1] \notin Late
<1> DEFINE d == Rest(c, s)
           b == Pushed(c, s)
           n == Len(c)
           m == Len(s)
           p == Len(c[1])
<1>1. /\ d \in Seq(S) /\ m \in Nat /\ Len(d) = m + p - 1
      /\ \A j \in 1 .. m : d[j] = s[j]
      /\ \A j \in m + 1 .. m + p - 1 : d[j] = c[1][j - m + 1]
  <2>1. d \in Seq(S) /\ RestIs(d, c, s) BY RestFacts
  <2> QED BY <2>1 DEF RestIs
<1>2. n \in Nat \ {0} /\ p \in Nat \ {0} /\ 1 \in 1 .. n
  <2>1. Len(c) \in Nat /\ Len(c) > 0 /\ 1 \in DOMAIN c /\ Len(c[1]) \in Nat \ {0}
    BY CallFacts
  <2> QED BY <2>1
<1>3. /\ d # <<>> => Len(b) = n /\ b[1] = d /\ \A i \in 2 .. n : b[i] = c[i]
      /\ d = <<>> => b = Tail(c)
  BY PushedKeeps DEF Pushed
<1>4. d # <<>> => Len(d) > 0
  BY <1>1, EmptySeq
<1>5. LateFollows(c[1])
  BY <1>2 DEF InOrder
<1> HIDE DEF d, b, n, m, p
<1>6. LateFollows(d)
  <2> SUFFICES ASSUME NEW j \in 1 .. Len(d) - 1, d[j + 1] \in Late PROVE d[j] \in Starts
    BY DEF LateFollows
  <2>1. ~(j + 1 <= m)
    <3>1. j + 1 <= m => j + 1 \in 1 .. m BY <1>1, <1>2
    <3> QED BY <1>1, <3>1 DEF m
  <2>2. j + 1 \in m + 1 .. m + p - 1 /\ (j + 1) - m + 1 = (j - m + 1) + 1
    BY <1>1, <1>2, <2>1
  <2>3. c[1][(j - m + 1) + 1] \in Late
    BY <1>1, <2>2
  <2>4. j - m + 1 \in 1 .. p - 1
    BY <1>1, <1>2, <2>1
  <2>5. c[1][j - m + 1] \in Starts
    BY <1>5, <2>3, <2>4 DEF LateFollows, p
  <2>6. CASE j = m
    <3>1. m > 0 /\ j - m + 1 = 1 BY <1>1, <2>6
    <3> QED BY <2>5, <3>1 DEF m
  <2>7. CASE j # m
    <3>1. j \in m + 1 .. m + p - 1 BY <1>1, <1>2, <2>1, <2>7
    <3> QED BY <1>1, <2>5, <3>1
  <2> QED BY <2>6, <2>7
<1>7. CASE d = <<>>
  BY <1>3, <1>7, OrderedTail DEF b
<1>8. CASE d # <<>>
  <2>1. InOrder(b)
    <3> SUFFICES ASSUME NEW i \in 1 .. n PROVE LateFollows(b[i]) /\ (i \in 2 .. n => b[i][1] \notin Late)
      BY <1>2, <1>3, <1>8 DEF InOrder
    <3>1. CASE i = 1 BY <1>3, <1>6, <1>8, <3>1
    <3>2. CASE i \in 2 .. n BY <1>3, <1>8, <3>2 DEF InOrder, n
    <3> QED BY <1>2, <3>1, <3>2
  <2>2. c[1][1] \notin Starts => d[1] \notin Late
    <3>1. CASE m > 0
      <4>1. 1 \in 1 .. m BY <1>1, <3>1
      <4> QED BY <1>1, <4>1 DEF m
    <3>2. CASE m = 0
      <4>1. 1 \in m + 1 .. m + p - 1 /\ 1 - m + 1 = 2 /\ 1 \in 1 .. p - 1
        BY <1>1, <1>2, <1>4, <1>8, <3>2
      <4>2. d[1] = c[1][2] /\ 1 + 1 = 2 BY <1>1, <4>1
      <4> QED BY <1>5, <4>1, <4>2 DEF LateFollows, p
    <3> QED BY <1>1, <3>1, <3>2
  <2> QED BY <1>3, <1>8, <2>1, <2>2 DEF b
<1> QED BY <1>7, <1>8

(* What takes the place of a step does not start discovery.                *)
LEMMA FillingPlain ==
  ASSUME NEW step, NEW s \in Filling(step)
  PROVE  /\ \A j \in 1 .. Len(s) : s[j] \notin Late
         /\ Len(s) > 0 => step \notin Starts
<1>1. \/ s \in { <<"Flush">>, <<"StopRfDiscovery">>, <<"EeModeSet">>, <<>> }
      \/ s \in Seq(ListenSteps)
  BY DEF Filling
<1>2. Len(s) > 0 => step \notin Starts
  BY DEF Filling, Starts
<1>3. CASE s \in Seq(ListenSteps)
  <2>1. \A j \in 1 .. Len(s) : s[j] \in ListenSteps BY <1>3, ElementOfSeq
  <2> QED BY <1>2, <2>1 DEF ListenSteps, Late
<1>4. CASE s = <<>> BY <1>2, <1>4
<1>5. ASSUME NEW x \in {"Flush", "StopRfDiscovery", "EeModeSet"}, s = <<x>>
      PROVE \A j \in 1 .. Len(s) : s[j] \notin Late
  <2>1. \A j \in 1 .. Len(s) : s[j] = x BY <1>5
  <2> QED BY <2>1 DEF Late
<1> QED BY <1>1, <1>2, <1>3, <1>4, <1>5

LEMMA HandlerOrdered ==
  ASSUME DtaAssumption, Typed
  PROVE  InOrder(calls["handler"])
<1> DEFINE c == calls["handler"]
<1>1. c \in CallsOf(StepsOf("handler")) /\ Shape(c)
  BY DEF DtaAssumption, Typed, ControlTyped, CallsTyped
<1> HIDE DEF c
<1>2. \A i \in 1 .. Len(c) : Len(c[i]) \in Nat \ {0} /\ \A j \in 1 .. Len(c[i]) : c[i][j] # "SavePrev"
  <2>1. "SavePrev" \notin StepsOf("handler")
    BY DEF StepsOf, DiscoverySteps, ListenSteps, TestSteps, LinkSteps, Pulls, Eots
  <2> QED BY <1>1, <2>1, CallFacts
<1>3. ASSUME NEW i \in 1 .. Len(c) PROVE LateFollows(c[i])
  <2> SUFFICES ASSUME NEW j \in 1 .. Len(c[i]) - 1, c[i][j + 1] \in Late PROVE c[i][j] \in Starts
    BY DEF LateFollows
  <2>1. j + 1 \in 1 .. Len(c[i]) BY <1>2
  <2>2. c[i][j + 1] = "SetStarted" BY <1>2, <2>1 DEF Late
  <2>3. c[i][j] = "StartRfDiscovery" BY <1>1, <2>2 DEF Shape, Follows
  <2> QED BY <2>3 DEF Starts
<1>4. ASSUME NEW i \in 2 .. Len(c) PROVE c[i][1] \notin Late
  <2>1. Len(c) \in Nat BY <1>1, CallFacts
  <2>2. i \in 1 .. Len(c) BY <2>1
  <2>3. 1 \in 1 .. Len(c[i]) BY <1>2, <2>2
  <2> QED BY <1>1, <1>2, <2>2, <2>3 DEF Shape, Late
<1> QED BY <1>3, <1>4 DEF InOrder, c

(* A step of a call keeps the order, and starts discovery only by the      *)
(* command for it.                                                         *)
LEMMA CallOrdered ==
  ASSUME DtaAssumption, Typed, NEW t \in Threads, CallEffect(t), InOrder(calls[t])
  PROVE  /\ InOrder(calls[t])'
         /\ StartAccepted /\ rf = "stopped" /\ rf' = "stopped" /\ ~Started(t) => ~Started(t)'
<1> DEFINE c == calls[t]
           S == StepsOf(t)
<1>1. /\ Busy(t) /\ c \in CallsOf(S) /\ c # <<>> /\ Step(t) = c[1][1] /\ Step(t) \in S
  BY StepIs DEF CallEffect, Typed
<1>2. calls \in [Threads -> CallsOf(Steps)] /\ at \in [Threads -> {"run", "check", "wait"}]
  BY DEF Typed, ControlTyped, CallsTyped
<1>3. CASE Stays(t)
  BY <1>3 DEF Stays, Started, Busy, Step
<1>4. CASE Commands(t) \/ Waits(t)
  <2>1. calls' = calls /\ Busy(t)' = Busy(t) /\ Step(t)' = Step(t)
    BY <1>4 DEF Commands, Waits, Entered, Busy, Step
  <2>2. StartAccepted /\ rf = "stopped" /\ rf' = "stopped" /\ Step(t) = "StartRfDiscovery"
          => at[t] # "run"
    <3>1. "StartRfDiscovery" \notin Immediate
      BY DEF Immediate, Steps, Reply, P2pCommands, LinkCommands
    <3>2. CASE Commands(t) BY <3>2 DEF Commands, CommandEffect
    <3>3. CASE Waits(t) BY <3>1, <3>3 DEF Waits, StartAccepted
    <3> QED BY <1>4, <3>2, <3>3
  <2> QED BY <1>1, <2>1, <2>2 DEF Started
<1>5. CASE Goes(t)
  <2>1. at[t] = "run" => Step(t) # "StartRfDiscovery"
    <3>1. "StartRfDiscovery" \notin Immediate
      BY DEF Immediate, Steps, Reply, P2pCommands, LinkCommands
    <3> QED BY <1>5, <3>1 DEF Goes
  <2>2. ~Started(t) => Step(t) \notin Starts
    BY <1>1, <2>1 DEF Started, Starts, Late
  <2>3. at'[t] = "run"
    BY <1>2, <1>5 DEF Goes, Popped, Moved
  <2>4. ASSUME NEW b \in CallsOf(S), calls'[t] = b, InOrder(b),
               Step(t) \notin Starts => (b # <<>> => b[1][1] \notin Late)
        PROVE  InOrder(calls[t])' /\ (~Started(t) => ~Started(t)')
    <3>1. b # <<>> => Step(t)' = b[1][1]
      BY <2>4, CallFacts DEF Step
    <3>2. Busy(t)' => b # <<>>
      BY <2>4 DEF Busy
    <3> QED BY <2>2, <2>3, <2>4, <3>1, <3>2 DEF Started
  <2>5. CASE Popped(t)
    <3>1. calls'[t] = Tail(c) BY <1>2, <2>5 DEF Popped
    <3>2. Tail(c) \in CallsOf(S) BY <1>1, TailFacts
    <3>3. InOrder(Tail(c)) /\ (Tail(c) # <<>> => Tail(c)[1][1] \notin Late)
      BY <1>1, OrderedTail
    <3> QED BY <2>4, <3>1, <3>2, <3>3
  <2>6. ASSUME NEW s \in Filling(Step(t)), Moved(t, s) 
        PROVE  InOrder(calls[t])' /\ (~Started(t) => ~Started(t)')
    <3>1. calls'[t] = Pushed(c, s) BY <1>2, <2>6 DEF Moved
    <3>2. s \in Seq(S) BY <1>1, <2>6, FillingFits
    <3>3. (\A j \in 1 .. Len(s) : s[j] \notin Late) /\ (Len(s) > 0 => c[1][1] \notin Starts)
      BY <1>1, <2>6, FillingPlain
    <3>4. Pushed(c, s) \in CallsOf(S) BY <1>1, <3>2, PushedTyped
    <3> HIDE DEF c, S
    <3>5. InOrder(c) BY DEF c
    <3>6. /\ InOrder(Pushed(c, s))
          /\ Pushed(c, s) # <<>> /\ c[1][1] \notin Starts => Pushed(c, s)[1][1] \notin Late
      BY <1>1, <3>2, <3>3, <3>5, OrderedPushed
    <3> QED BY <1>1, <2>4, <3>1, <3>4, <3>6
  <2> QED BY <1>5, <2>5, <2>6 DEF Goes
<1> QED BY <1>3, <1>4, <1>5 DEF CallEffect

-----------------------------------------------------------------------------
(* The library learns that the radio stopped.                              *)

(* It is idle, or an event that makes it so comes after every event that   *)
(* would make it active.                                                   *)
WillBeIdle ==
  \/ eDeviceState = "IDLE" /\ \A i \in DOMAIN nfaOut : ~Wakes(nfaOut[i])
  \/ \E i \in DOMAIN nfaOut :
       /\ IdleEvent(nfaOut[i])
       /\ \A j \in DOMAIN nfaOut : j > i => ~Wakes(nfaOut[j])

LEMMA IdleAfter ==
  ASSUME StackTyped, NEW s \in Seq(Events), Report(s), \A i \in DOMAIN s : ~Wakes(s[i]),
         \/ WillBeIdle /\ eDeviceState' = eDeviceState
         \/ \E i \in DOMAIN s : IdleEvent(s[i])
  PROVE  WillBeIdle'
<1> DEFINE m == Len(nfaOut)
           n == Len(s)
<1>1. /\ m \in Nat /\ n \in Nat /\ DOMAIN nfaOut = 1 .. m /\ DOMAIN s = 1 .. n
      /\ DOMAIN nfaOut' = 1 .. m + n
      /\ \A j \in 1 .. m : nfaOut'[j] = nfaOut[j]
      /\ \A j \in 1 .. n : nfaOut'[m + j] = s[j]
      /\ \A j \in m + 1 .. m + n : nfaOut'[j] = s[j - m]
  BY Reported DEF StackTyped
<1> HIDE DEF m, n
<1>2. \A j \in m + 1 .. m + n : ~Wakes(nfaOut'[j])
  <2>1. \A j \in m + 1 .. m + n : j - m \in 1 .. n BY <1>1
  <2> QED BY <1>1, <2>1
<1>3. \A j \in 1 .. m + n : j \in 1 .. m \/ j \in m + 1 .. m + n
  BY <1>1
<1>4. CASE eDeviceState = "IDLE" /\ eDeviceState' = eDeviceState
           /\ \A i \in DOMAIN nfaOut : ~Wakes(nfaOut[i])
  <2>1. \A j \in 1 .. m + n : ~Wakes(nfaOut'[j])
    BY <1>1, <1>2, <1>3, <1>4
  <2> QED BY <1>1, <1>4, <2>1 DEF WillBeIdle, Wakes, MakesActive
<1>5. ASSUME NEW i \in 1 .. m + n, IdleEvent(nfaOut'[i]),
             \A j \in 1 .. m + n : j > i => ~Wakes(nfaOut'[j])
      PROVE  WillBeIdle'
  BY <1>1, <1>5 DEF WillBeIdle, Wakes, MakesActive, IdleEvent
<1>6. ASSUME NEW i \in DOMAIN nfaOut, IdleEvent(nfaOut[i]),
             \A j \in DOMAIN nfaOut : j > i => ~Wakes(nfaOut[j])
      PROVE  WillBeIdle'
  <2>1. i \in 1 .. m + n /\ nfaOut'[i] = nfaOut[i]
    BY <1>1
  <2>2. \A j \in 1 .. m + n : j > i => ~Wakes(nfaOut'[j])
    BY <1>1, <1>2, <1>3, <1>6
  <2> QED BY <1>5, <1>6, <2>1, <2>2
<1>7. ASSUME NEW i \in DOMAIN s, IdleEvent(s[i]) PROVE WillBeIdle'
  <2>1. m + i \in 1 .. m + n /\ nfaOut'[m + i] = s[i]
    BY <1>1
  <2>2. \A j \in 1 .. m + n : j > m + i => j \in m + 1 .. m + n
    BY <1>1
  <2>3. \A j \in 1 .. m + n : j > m + i => ~Wakes(nfaOut'[j])
    BY <1>2, <2>2
  <2> QED BY <1>5, <1>7, <2>1, <2>3
<1> QED BY <1>4, <1>6, <1>7 DEF WillBeIdle

LEMMA IdleAfterCallback ==
  ASSUME StackTyped, MwTyped, WillBeIdle, Callback
  PROVE  WillBeIdle'
<1> DEFINE e == Head(nfaOut)
           q == Tail(nfaOut)
           n == Len(nfaOut)
<1>1. nfaOut' = q /\ eDeviceState' = StateAfter(e)
  BY DEF Callback
<1>2. /\ n \in Nat \ {0} /\ DOMAIN nfaOut = 1 .. n /\ e = nfaOut[1] /\ DOMAIN q = 1 .. n - 1
      /\ \A i \in 1 .. n - 1 : q[i] = nfaOut[i + 1]
  <2>1. nfaOut \in Seq(Events) /\ nfaOut # <<>>
    BY DEF StackTyped, Callback
  <2>2. q \in Seq(Events) /\ Len(q) = n - 1 /\ n \in Nat /\ n # 0 /\ DOMAIN nfaOut = 1 .. n
    BY <2>1, HeadTailProperties, LenProperties, EmptySeq
  <2> QED BY <2>1, <2>2, HeadTailProperties, LenProperties
<1>3. ~Wakes(e) /\ eDeviceState = "IDLE" => StateAfter(e) = "IDLE"
  BY DEF StateAfter, Wakes, MakesActive
<1>4. IdleEvent(e) => StateAfter(e) = "IDLE"
  BY DEF StateAfter, IdleEvent
<1> HIDE DEF e, q, n
<1>5. \A i \in 1 .. n - 1 : i + 1 \in 1 .. n
  BY <1>2
<1>6. CASE eDeviceState = "IDLE" /\ \A i \in DOMAIN nfaOut : ~Wakes(nfaOut[i])
  <2>1. 1 \in 1 .. n BY <1>2
  <2>2. eDeviceState' = "IDLE" BY <1>1, <1>2, <1>3, <1>6, <2>1
  <2>3. \A i \in 1 .. n - 1 : ~Wakes(q[i]) BY <1>2, <1>5, <1>6
  <2> QED BY <1>1, <1>2, <2>2, <2>3 DEF WillBeIdle, Wakes, MakesActive
<1>7. ASSUME NEW i \in DOMAIN nfaOut, IdleEvent(nfaOut[i]),
             \A j \in DOMAIN nfaOut : j > i => ~Wakes(nfaOut[j])
      PROVE  WillBeIdle'
  <2>1. CASE i = 1
    <3>1. eDeviceState' = "IDLE" BY <1>1, <1>2, <1>4, <1>7, <2>1
    <3>2. \A j \in 1 .. n - 1 : ~Wakes(q[j])
      <4>1. \A j \in 1 .. n - 1 : j + 1 \in 1 .. n /\ j + 1 > 1 BY <1>2
      <4> QED BY <1>2, <1>7, <2>1, <4>1
    <3> QED BY <1>1, <1>2, <3>1, <3>2 DEF WillBeIdle, Wakes, MakesActive
  <2>2. CASE i # 1
    <3>1. i - 1 \in 1 .. n - 1 /\ (i - 1) + 1 = i BY <1>2, <1>7, <2>2
    <3>2. IdleEvent(q[i - 1]) BY <1>2, <1>7, <3>1
    <3>3. \A j \in 1 .. n - 1 : j > i - 1 => ~Wakes(q[j])
      <4>1. \A j \in 1 .. n - 1 : j + 1 \in 1 .. n /\ (j > i - 1 => j + 1 > i) BY <1>2, <3>1
      <4> QED BY <1>2, <1>7, <4>1
    <3> QED BY <1>1, <1>2, <3>1, <3>2, <3>3 DEF WillBeIdle, Wakes, MakesActive, IdleEvent
  <2> QED BY <2>1, <2>2
<1> QED BY <1>6, <1>7 DEF WillBeIdle

(* What is reported when the radio is stopped, or stays so.                *)
LEMMA StoppedReports ==
  ASSUME RadioEffect, rf' = "stopped"
  PROVE  \E s \in Seq(Events) :
           /\ Report(s) /\ \A i \in DOMAIN s : ~Wakes(s[i])
           /\ rf \in {"active", "asleep", "emulating"} => \E i \in DOMAIN s : IdleEvent(s[i])
<1>1. CASE Keeps
  <2>1. PICK s \in Seq(PlainEvents) : Report(s)
    BY <1>1 DEF Keeps
  <2>2. \A i \in DOMAIN s : s[i] \in PlainEvents
    BY ElementOfSeq, LenProperties
  <2>3. \A i \in DOMAIN s : ~Wakes(s[i])
    BY <2>2, PlainEvent
  <2> QED BY <1>1, <2>1, <2>3, PlainIsEvent DEF Keeps
<1>2. CASE Ended
  BY <1>2 DEF Ended
<1> QED BY <1>1, <1>2 DEF RadioEffect, Polls, Begun

-----------------------------------------------------------------------------
(* Discovery is to be started again.                                       *)

StartComing == NoEot(calls["handler"]) /\ Will({"StartRfDiscovery"})
Restarts == StartComing \/ CeComing

(* Every stop the handler is to make is followed by a start.               *)
LEMMA StopsStart ==
  ASSUME NEW c, Shape(c), Len(c) \in Nat, NEW i \in 1 .. Len(c), c[i][1] \in Stops
  PROVE  /\ Len(c) # 1 /\ Len(c) \in 1 .. Len(c) /\ c[Len(c)][1] = "StartRfDiscovery"
         /\ i = 1 => NoEot(c)
<1>1. /\ i < Len(c) /\ c[Len(c)][1] = "StartRfDiscovery"
      /\ \A k \in i .. Len(c) : \A j \in 1 .. Len(c[k]) : c[k][j] \notin Eots
  BY DEF Shape
<1> QED BY <1>1 DEF NoEot

LEMMA StopIsStart ==
  ASSUME DtaAssumption, Typed, StopComing
  PROVE  StartComing
<1> DEFINE c == calls["handler"]
<1>1. Shape(c) /\ c \in CallsOf(StepsOf("handler"))
  BY DEF DtaAssumption, Typed, ControlTyped, CallsTyped
<1>2. Len(c) \in Nat BY <1>1, CallFacts
<1>3. PICK i \in 1 .. Len(c) : c[i][1] \in Stops
  BY DEF StopComing, Will
<1>4. Len(c) # 1 /\ Len(c) \in 1 .. Len(c) /\ c[Len(c)][1] = "StartRfDiscovery"
  BY <1>1, <1>2, <1>3, StopsStart
<1> QED BY <1>4 DEF StopComing, StartComing, Will

LEMMA StopWillStart ==
  ASSUME DtaAssumption, Typed', StopComing'
  PROVE  StartComing'
<1> DEFINE c == calls'["handler"]
<1>1. Shape(c) /\ c \in CallsOf(StepsOf("handler"))
  BY DEF DtaAssumption, Typed, ControlTyped, CallsTyped
<1>2. Len(c) \in Nat BY <1>1, CallFacts
<1>3. PICK i \in 1 .. Len(c) : c[i][1] \in Stops
  BY DEF StopComing, Will
<1>4. Len(c) # 1 /\ Len(c) \in 1 .. Len(c) /\ c[Len(c)][1] = "StartRfDiscovery"
  BY <1>1, <1>2, <1>3, StopsStart
<1> QED BY <1>4 DEF StopComing, StartComing, Will

(* The handler stops discovery: it is in a call that starts it again.      *)
LEMMA StoppingStarts ==
  ASSUME DtaAssumption, Typed, Busy("handler"), Step("handler") \in Stops,
         UNCHANGED calls
  PROVE  StartComing'
<1> DEFINE c == calls["handler"]
<1>1. Shape(c) /\ c \in CallsOf(StepsOf("handler")) /\ c # <<>> /\ c[1][1] \in Stops
  BY StepIs DEF DtaAssumption, Typed, ControlTyped, CallsTyped
<1>2. Len(c) \in Nat /\ 1 \in 1 .. Len(c) BY <1>1, CallFacts
<1>3. Len(c) # 1 /\ Len(c) \in 1 .. Len(c) /\ c[Len(c)][1] = "StartRfDiscovery" /\ NoEot(c)
  BY <1>1, <1>2, StopsStart
<1>4. calls'["handler"] = c OBVIOUS
<1> HIDE DEF c
<1> QED BY <1>3, <1>4 DEF StartComing, Will

(* A card emulation on its way to the handler stays on it.                 *)
LEMMA RadioComing ==
  ASSUME StackTyped, RadioEffect, UNCHANGED <<cb, dtaQueue>>
  PROVE  Coming \subseteq Coming'
<1>1. \E s \in Seq(Events) : Report(s)
  BY PlainIsEvent DEF RadioEffect, Keeps, Polls, Begun, Ended
<1> QED BY <1>1, ComingReported DEF StackTyped

LEMMA CeStays ==
  ASSUME \A e \in Coming : OfContact(e) => e \in Coming', CeComing
  PROVE  CeComing'
BY DEF CeComing, OfContact

LEMMA OthersRestart ==
  ASSUME StackTyped, RadioEffect, UNCHANGED <<cb, dtaQueue>>,
         calls'["handler"] = calls["handler"], at'["handler"] = at["handler"], Restarts
  PROVE  Restarts'
<1>1. StartComing' = StartComing
  BY DEF StartComing, Will
<1> QED BY <1>1, RadioComing, CeStays DEF Restarts

LEMMA CallRestarts ==
  ASSUME DtaAssumption, Typed, StartAccepted, CallEffect("handler"), RadioEffect,
         UNCHANGED <<cb, dtaQueue>>, rf = "stopped", rf' = "stopped", Restarts
  PROVE  Restarts'
<1>1. CASE CeComing
  BY <1>1, RadioComing, CeStays DEF Restarts, Typed
<1>2. CASE StartComing
  <2> DEFINE X == {"StartRfDiscovery"}
  <2>1. NoEot(calls["handler"])' BY <1>2, CallNoEot DEF StartComing
  <2>2. X \subseteq EndSteps \cup {"StartRfDiscovery"} /\ X \cap MayRefuse \subseteq {"DiscoveryStop"}
        /\ "DiscoveryStop" \notin X /\ Will(X)
    BY <1>2 DEF StartAccepted, StartComing
  <2>3. ~(Commands("handler") /\ Step("handler") \in X)
    BY DEF Commands, CommandEffect, Keeps, Polls
  <2> HIDE DEF X
  <2>4. Will(X)' BY <2>2, <2>3, CallWill
  <2> QED BY <2>1, <2>4 DEF Restarts, StartComing, X
<1> QED BY <1>1, <1>2 DEF Restarts

LEMMA GoesRestart ==
  ASSUME StackAssumption, MwIfAssumption, DtaAssumption, Typed, Restarts,
         UNCHANGED <<stackVars, cb, dtaQueue>>, NEW step, At("handler", step),
         step # "StartRfDiscovery",
         NEW s \in Seq(StepsOf("handler")), \A j \in 1 .. Len(s) : s[j] \notin Eots,
         calls' = [calls EXCEPT !["handler"] = Pushed(@, s)],
         Rest(calls["handler"], s) # <<>> \/ at' = [at EXCEPT !["handler"] = "run"]
  PROVE  Restarts'
<1>1. Coming \subseteq Coming'
  BY DEF stackVars, Coming, ToDta
<1>2. ASSUME StartComing PROVE StartComing'
  <2> DEFINE X == {"StartRfDiscovery"}
  <2>1. step \notin X /\ Will(X) BY <1>2 DEF StartComing
  <2> HIDE DEF X
  <2>2. Will(X)' BY <2>1, GoesWill
  <2>3. NoEot(calls["handler"])' BY <1>2, GoesNoEot DEF StartComing
  <2> QED BY <2>2, <2>3 DEF StartComing, X
<1> QED BY <1>1, <1>2, CeStays DEF Restarts

LEMMA ProceedRestart ==
  ASSUME StackAssumption, MwIfAssumption, DtaAssumption, Typed, Restarts,
         UNCHANGED <<stackVars, cb, dtaQueue>>, NEW step, At("handler", step),
         step # "StartRfDiscovery", Proceed("handler", <<>>)
  PROVE  Restarts'
<1>1. Moved("handler", <<>>) BY Proceeded
<1>2. <<>> \in Seq(StepsOf("handler")) /\ \A j \in 1 .. Len(<<>>) : <<>>[j] \notin Eots
  OBVIOUS
<1> QED BY <1>1, <1>2, GoesRestart DEF Moved

LEMMA SendLastRestart ==
  ASSUME StackAssumption, MwIfAssumption, DtaAssumption, Typed, Restarts, SendLast
  PROVE  Restarts'
<1> DEFINE s == <<"SendRawFrame">>
<1>1. /\ At("handler", "SendLast") /\ UNCHANGED <<stackVars, cb, dtaQueue>>
      /\ s \in Seq(StepsOf("handler")) /\ \A j \in 1 .. Len(s) : s[j] \notin Eots
      /\ calls' = [calls EXCEPT !["handler"] = Pushed(@, s)]
      /\ Rest(calls["handler"], s) # <<>>
  BY SendLastGoes
<1> HIDE DEF s
<1>2. "SendLast" # "StartRfDiscovery" OBVIOUS
<1> QED BY <1>1, <1>2, GoesRestart

LEMMA EotRestart ==
  ASSUME StackAssumption, MwIfAssumption, DtaAssumption, Typed, Restarts, CheckEot \/ Eot
  PROVE  Restarts'
<1>1. PICK step \in Eots : At("handler", step)
  BY DEF CheckEot, Eot, Eots
<1>2. UNCHANGED <<stackVars, cb, dtaQueue>>
  BY DEF CheckEot, Eot, queueVars
<1>3. /\ calls["handler"] \in CallsOf(StepsOf("handler")) /\ calls["handler"] # <<>>
      /\ calls["handler"][1][1] = step
  BY <1>1, HandlerAt
<1>4. ~NoEot(calls["handler"])
  <2>1. 1 \in 1 .. Len(calls["handler"]) /\ 1 \in 1 .. Len(calls["handler"][1])
    BY <1>3, CallFacts
  <2> QED BY <1>3, <2>1 DEF NoEot
<1>5. Coming \subseteq Coming'
  BY <1>2 DEF stackVars, Coming, ToDta
<1> QED BY <1>4, <1>5, CeStays DEF Restarts, StartComing

LEMMA HandlerPullRestart ==
  ASSUME MwIfAssumption, DtaAssumption, Typed, Typed', Restarts, HandlerPull
  PROVE  Restarts'
<1> DEFINE e == Head(dtaQueue)
<1>1. e \in DtaEvents
  BY HeadTailProperties DEF HandlerPull, Typed, MwTyped
<1>2. UNCHANGED <<nfaOut, cb, at>> /\ dtaQueue # <<>> /\ dtaQueue' = Tail(dtaQueue)
  BY DEF HandlerPull, stackVars
<1>3. at'["handler"] = "run" /\ "handler" \in Threads
  BY <1>2 DEF DtaAssumption, HandlerPull, HandlerIdle, Busy, Typed, ControlTyped, CallsTyped
<1>4. PICK round \in Rounds(e) : calls' = [calls EXCEPT !["handler"] = round]
  BY DEF HandlerPull
<1>5. calls'["handler"] = round
  BY <1>3, <1>4 DEF Typed, ControlTyped, CallsTyped
<1>6. ~StartComing
  <2>1. calls["handler"] = <<>> BY DEF HandlerPull, HandlerIdle
  <2>2. ~\E i \in 1 .. Len(calls["handler"]) : TRUE BY <2>1
  <2> QED BY <2>2 DEF StartComing, Will
<1> HIDE DEF e
<1>7. PICK x \in Coming : x.type = "CE_ACTIVATED"
  BY <1>6 DEF Restarts, CeComing
<1>8. CASE x # e
  <2>1. x \in Coming' BY <1>2, <1>8, ComingPulled DEF Typed, e
  <2> QED BY <1>7, <2>1 DEF Restarts, CeComing
<1>9. CASE x = e
  <2>1. e.detail \in CeProtocols
    BY <1>1, <1>7, <1>9 DEF DtaEvents, Events, Begins, Selected, Ends, PlainEvents, Results, PlainTypes,
                LocalTypes, TagReplies
  <2>2. round \in ContactRounds(e.detail)
    BY <1>4, <1>7, <1>9 DEF Rounds, ContactRounds, Serves
  <2>3. NoEot(round) /\ \E i \in 1 .. Len(round) : round[i][1] \in Stops
    BY <2>1, <2>2, ContactRoundEnds DEF Typed
  <2>4. StopComing'
    BY <1>3, <1>5, <2>3 DEF StopComing, Will
  <2> QED BY <2>4, StopWillStart DEF Restarts
<1> QED BY <1>8, <1>9

LEMMA HandlerRestarts ==
  ASSUME StackAssumption, MwIfAssumption, DtaAssumption, StartAccepted, Typed, Typed', Handler,
         rf = "stopped", rf' = "stopped", Restarts
  PROVE  Restarts'
<1>1. "handler" \in Threads
  BY DEF DtaAssumption
<1>2. ASSUME CallStep("handler") \/ LlcpStep, UNCHANGED dtaVars PROVE Restarts'
  <2>1. UNCHANGED setting
    BY <1>2 DEF dtaVars, appVars
  <2>2. CallEffect("handler") /\ MwEffect("handler")
    BY <1>1, <1>2, <2>1, CallStepEffect, IssueLlcpEffect DEF LlcpStep
  <2>3. RadioEffect /\ UNCHANGED <<cb, dtaQueue>>
    BY <2>2, CallRadio
  <2> QED BY <2>2, <2>3, CallRestarts
<1>3. CASE HandlerPull
  BY <1>3, HandlerPullRestart
<1>4. CASE CheckEot \/ Eot
  BY <1>4, EotRestart
<1>5. CASE SendLast
  BY <1>5, SendLastRestart
<1>6. CASE HcePull \/ UiccPull
  BY <1>6, PullStops, StopWillStart DEF Restarts
<1>7. CASE SaveConn \/ SaveClSap
  <2>1. PICK step \in {"SaveConn", "SaveClSap"} : At("handler", step)
    BY <1>7 DEF SaveConn, SaveClSap
  <2>2. Proceed("handler", <<>>) /\ UNCHANGED <<stackVars, cb, dtaQueue>>
    BY <1>7 DEF SaveConn, SaveClSap, queueVars
  <2>3. step # "StartRfDiscovery"
    OBVIOUS
  <2> QED BY <2>1, <2>2, <2>3, ProceedRestart
<1> QED BY <1>2, <1>3, <1>4, <1>5, <1>6, <1>7 DEF Handler

-----------------------------------------------------------------------------
(* The application while it starts discovery: it stops nothing, and its    *)
(* steps are in order.                                                     *)

AppSteps == (DiscoverySteps \ Stops) \cup SetUpSteps \cup {"SavePrev"}

AppCalls ==
  appState = "starting" => calls["app"] \in CallsOf(AppSteps) /\ InOrder(calls["app"])

LEMMA PlainOrdered ==
  ASSUME NEW S, S \cap Late = {}, NEW d \in Seq(S)
  PROVE  LateFollows(d)
<1>1. Len(d) \in Nat /\ \A j \in 1 .. Len(d) : d[j] \in S
  BY LenProperties, ElementOfSeq
<1>2. \A j \in 1 .. Len(d) - 1 : j + 1 \in 1 .. Len(d)
  BY <1>1
<1> QED BY <1>1, <1>2 DEF LateFollows

LEMMA SetUpOrdered ==
  ASSUME NEW d \in Seq(SetUpSteps), d # <<>>
  PROVE  << d >> \in CallsOf(AppSteps) /\ InOrder(<< d >>) /\ d[1] \notin Late \cup Starts
<1>1. SetUpSteps \subseteq AppSteps /\ SetUpSteps \cap (Late \cup Starts) = {}
  BY DEF AppSteps, SetUpSteps, Late, Starts
<1>2. d \in Seq(AppSteps) /\ LateFollows(d)
  BY <1>1, SeqMonotonic, PlainOrdered
<1>3. << d >> \in CallsOf(AppSteps)
  BY <1>2, OneCall
<1>4. Len(<< d >>) = 1 /\ << d >>[1] = d
  OBVIOUS
<1>5. InOrder(<< d >>)
  <2> DEFINE b == << d >>
  <2>1. Len(b) = 1 /\ b[1] = d BY <1>4
  <2> HIDE DEF b
  <2>2. InOrder(b) BY <1>2, <2>1 DEF InOrder
  <2> QED BY <2>2 DEF b
<1>6. d[1] \in SetUpSteps
  <2>1. Len(d) > 0 /\ Len(d) \in Nat BY EmptySeq, LenProperties
  <2>2. 1 \in 1 .. Len(d) BY <2>1
  <2> QED BY <2>2, ElementOfSeq
<1> QED BY <1>1, <1>3, <1>5, <1>6

LEMMA EnableCalls ==
  ASSUME DtaAssumption, Typed, Enable
  PROVE  /\ calls'["app"] \in CallsOf(AppSteps) /\ InOrder(calls'["app"])
         /\ calls'["app"] # <<>> /\ calls'["app"][1][1] = "SaveConfig" /\ at'["app"] = "run"
         /\ Len(calls'["app"]) = 3 /\ calls'["app"][3][1] = "StartRfDiscovery"
<1> DEFINE S == AppSteps
           T == Seq(S) \ {<<>>}
           a == <<"SaveConfig">>
           b == <<"EnablePolling", "DiscoveryConfig", "EnableListening", "SetRfDiscoveryDuration">>
           d == <<"StartRfDiscovery", "SetStarted">>
           e == d \o <<"SavePrev">>
           f == <<"StartRfDiscovery", "SetStarted", "SavePrev">>
           c == << a, b, f >>
<1>1. "app" \in Threads /\ at'["app"] = "run" /\ calls \in [Threads -> CallsOf(Steps)]
  BY DEF Enable, At, DtaAssumption, Typed, ControlTyped, CallsTyped
<1>2. /\ "SaveConfig" \in S /\ "EnablePolling" \in S /\ "DiscoveryConfig" \in S
      /\ "EnableListening" \in S /\ "SetRfDiscoveryDuration" \in S
      /\ "StartRfDiscovery" \in S /\ "SetStarted" \in S /\ "SavePrev" \in S
  BY DEF AppSteps, DiscoverySteps, Stops
<1>3. /\ EnableDiscovery[1] = a /\ EnableDiscovery[2] = b /\ EnableDiscovery[3] = d
  BY EnableShape
<1> HIDE DEF S
<1>4. e = f
  <2>1. Len(d) = 2 /\ d[1] = "StartRfDiscovery" /\ d[2] = "SetStarted"
        /\ Len(<<"SavePrev">>) = 1 /\ <<"SavePrev">>[1] = "SavePrev"
        /\ Len(f) = 3 /\ f[1] = "StartRfDiscovery" /\ f[2] = "SetStarted" /\ f[3] = "SavePrev"
        /\ d \in Seq(S) /\ <<"SavePrev">> \in Seq(S) /\ f \in Seq(S)
    BY <1>2
  <2> DEFINE g == <<"SavePrev">>
  <2>2. Len(g) = 1 /\ g[1] = "SavePrev" /\ g \in Seq(S)
    BY <2>1
  <2> HIDE DEF d, f, g
  <2>3. Len(f) = Len(d) + Len(g)
    BY <2>1, <2>2
  <2>4. \A i \in 1 .. Len(d) : f[i] = d[i]
    <3>1. \A i \in 1 .. 2 : i = 1 \/ i = 2 OBVIOUS
    <3> QED BY <2>1, <3>1
  <2>5. \A i \in 1 .. Len(g) : f[Len(d) + i] = g[i]
    <3>1. \A i \in 1 .. 1 : i = 1 OBVIOUS
    <3>2. 2 + 1 = 3 OBVIOUS
    <3> QED BY <2>1, <2>2, <3>1, <3>2
  <2>6. d \o g = f
    BY <2>1, <2>2, <2>3, <2>4, <2>5, ConcatIs
  <2> QED BY <2>6 DEF d, f, g
<1>5. calls'["app"] = c
  BY <1>1, <1>3, <1>4 DEF Enable
<1>6. a \in T /\ b \in T /\ f \in T
  BY <1>2
<1>7. LateFollows(a) /\ LateFollows(b) /\ LateFollows(f)
  <2>1. LateFollows(a) BY DEF LateFollows
  <2>2. LateFollows(b) BY DEF LateFollows, Late
  <2>3. LateFollows(f)
    <3>1. Len(f) = 3 /\ f[1] = "StartRfDiscovery" /\ f[2] = "SetStarted" OBVIOUS
    <3> HIDE DEF f
    <3>2. \A j \in 1 .. 3 - 1 : j = 1 \/ j = 2 OBVIOUS
    <3> QED BY <3>1, <3>2 DEF LateFollows, Starts
  <2> QED BY <2>1, <2>2, <2>3
<1>8. /\ a[1] = "SaveConfig" /\ b[1] \notin Late /\ f[1] \notin Late
      /\ f[1] = "StartRfDiscovery"
  BY DEF Late
<1> HIDE DEF a, b, f, T
<1>9. c \in Seq(T)
  BY <1>6
<1>10. Len(c) = 3 /\ c[1] = a /\ c[2] = b /\ c[3] = f /\ c # <<>>
  OBVIOUS
<1> HIDE DEF c
<1>11. \A i \in 1 .. 3 : i = 1 \/ i = 2 \/ i = 3
  OBVIOUS
<1>12. \A i \in 2 .. 3 : i = 2 \/ i = 3
  OBVIOUS
<1>13. InOrder(c)
  BY <1>7, <1>8, <1>10, <1>11, <1>12 DEF InOrder
<1>14. c \in CallsOf(S)
  BY <1>9 DEF CallsOf, T
<1> QED BY <1>1, <1>5, <1>8, <1>10, <1>13, <1>14 DEF S

LEMMA AppFilling ==
  ASSUME NEW step \in AppSteps, NEW s \in Filling(step)
  PROVE  s \in Seq(AppSteps)
<1>1. step # "DiscoveryStop"
  BY DEF AppSteps, Stops, SetUpSteps
<1>2. s = <<>> \/ s = <<"EeModeSet">> \/ s \in Seq(ListenSteps)
  BY <1>1 DEF Filling
<1>3. "EeModeSet" \in AppSteps /\ ListenSteps \subseteq AppSteps
  BY DEF AppSteps, SetUpSteps, DiscoverySteps, ListenSteps, Stops
<1> HIDE DEF AppSteps
<1>4. <<"EeModeSet">> \in Seq(AppSteps) /\ <<>> \in Seq(AppSteps)
  BY <1>3
<1> QED BY <1>2, <1>3, <1>4, SeqMonotonic

LEMMA CallAppSteps ==
  ASSUME DtaAssumption, Typed, CallEffect("app"), calls["app"] \in CallsOf(AppSteps)
  PROVE  calls'["app"] \in CallsOf(AppSteps) /\ Step("app") \in AppSteps
<1> DEFINE c == calls["app"]
<1>1. "app" \in Threads /\ calls \in [Threads -> CallsOf(Steps)]
  BY DEF DtaAssumption, Typed, ControlTyped, CallsTyped
<1>2. c # <<>> /\ Step("app") = c[1][1] /\ c[1][1] \in AppSteps
  BY <1>1, StepIs, CallFacts DEF CallEffect, Typed, Busy
<1>3. CASE UNCHANGED calls BY <1>2, <1>3
<1>4. CASE Popped("app")
  <2>1. calls'["app"] = Tail(c) BY <1>1, <1>4 DEF Popped
  <2> QED BY <1>2, <2>1, TailFacts
<1>5. ASSUME NEW s \in Filling(Step("app")), Moved("app", s)
      PROVE  calls'["app"] \in CallsOf(AppSteps)
  <2>1. calls'["app"] = Pushed(c, s) BY <1>1, <1>5 DEF Moved
  <2>2. s \in Seq(AppSteps) BY <1>2, <1>5, AppFilling
  <2> QED BY <1>2, <2>1, <2>2, PushedTyped
<1> QED BY <1>2, <1>3, <1>4, <1>5 DEF CallEffect, Stays, Commands, Waits, Goes, Entered

(* The threads that leave the application alone.                           *)
LEMMA AppAlone ==
  ASSUME StackAssumption, MwIfAssumption, DtaAssumption, Typed, NobodySelects, [Next]_vars,
         ~(AppEnable \/ AppDisable \/ App)
  PROVE  /\ calls'["app"] = calls["app"] /\ at'["app"] = at["app"]
         /\ appState' = appState
<1>1. CASE Handler
  BY <1>1, HandlerKeepsApp
<1>2. CASE StackThread \/ TesterActs \/ UNCHANGED vars
  BY <1>2 DEF StackThread, Callback, CallbackPush, TesterActs, threadVars, dtaVars, appVars, vars
<1> QED BY <1>1, <1>2 DEF Next, NobodySelects

LEMMA AppCallsKept ==
  ASSUME StackAssumption, MwIfAssumption, DtaAssumption, Typed, AppIdle, NobodySelects,
         AppCalls, [Next]_vars
  PROVE  AppCalls'
<1>1. "app" \in Threads /\ calls \in [Threads -> CallsOf(Steps)]
  BY DEF DtaAssumption, Typed, ControlTyped, CallsTyped
<1>2. CASE ~(AppEnable \/ AppDisable \/ App)
  BY <1>2, AppAlone DEF AppCalls
<1>3. CASE AppEnable
  <2>1. PICK cfg \in Configs, llcp \in LlcpModes :
          calls' = [calls EXCEPT !["app"] = << SetUp(cfg, llcp) >>]
    BY <1>3 DEF AppEnable
  <2> DEFINE d == SetUp(cfg, llcp)
  <2>2. d \in Seq(SetUpSteps) /\ d # <<>>
    BY SetUpTyped
  <2>3. calls'["app"] = << d >>
    BY <1>1, <2>1
  <2> HIDE DEF d
  <2>4. << d >> \in CallsOf(AppSteps) /\ InOrder(<< d >>)
    BY <2>2, SetUpOrdered
  <2> QED BY <2>3, <2>4 DEF AppCalls
<1>4. CASE AppDisable \/ AppReturns
  BY <1>4 DEF AppDisable, AppReturns, AppCalls
<1>5. CASE Enable
  BY <1>5, EnableCalls DEF AppCalls
<1>6. CASE SavePrev
  <2> SUFFICES ASSUME appState' = "starting" PROVE AppCalls'
    BY DEF AppCalls
  <2> DEFINE c == calls["app"]
             s == <<>>
  <2>1. appState = "starting" /\ Busy("app") /\ Moved("app", s)
    BY <1>6, Proceeded DEF SavePrev, At
  <2>2. c \in CallsOf(AppSteps) /\ c # <<>> /\ InOrder(c)
    BY <2>1 DEF AppCalls, Busy
  <2>3. calls'["app"] = Pushed(c, s)
    BY <1>1, <2>1 DEF Moved
  <2>4. s \in Seq(AppSteps) /\ Len(s) = 0
    OBVIOUS
  <2> HIDE DEF c, s
  <2>5. (\A j \in 1 .. Len(s) : s[j] \notin Late) /\ ~(Len(s) > 0)
    BY <2>4
  <2>6. Pushed(c, s) \in CallsOf(AppSteps)
    BY <2>2, <2>4, PushedTyped
  <2>7. InOrder(Pushed(c, s))
    BY <2>2, <2>4, <2>5, OrderedPushed
  <2> QED BY <2>3, <2>6, <2>7 DEF AppCalls
<1>7. CASE CallStep("app") /\ UNCHANGED dtaVars
  <2>1. CallEffect("app") /\ appState' = appState
    BY <1>1, <1>7, CallStepTyped DEF dtaVars, appVars
  <2>2. calls["app"] \in CallsOf(AppSteps) => calls'["app"] \in CallsOf(AppSteps)
    BY <2>1, CallAppSteps
  <2>3. InOrder(calls["app"]) => InOrder(calls["app"])'
    BY <1>1, <2>1, CallOrdered
  <2> QED BY <2>1, <2>2, <2>3 DEF AppCalls
<1> QED BY <1>2, <1>3, <1>4, <1>5, <1>6, <1>7 DEF App


-----------------------------------------------------------------------------
(* While the application starts discovery nothing else happens, if the     *)
(* tester waits for it: the stack has only answers to tell of.             *)

Answers == LocalTypes \cup {"RF_DISCOVERY_STARTED"}
OnlyAnswers == /\ rf \in {"stopped", "discovering"}
               /\ \A i \in DOMAIN nfaOut : nfaOut[i].type \in Answers

Starting ==
  appState = "starting" =>
    /\ ~Busy("handler") /\ dtaQueue = <<>> /\ cb.todo \in {<<>>, <<"mw">>}
    /\ OnlyAnswers

LEMMA AnswerReported ==
  ASSUME StackTyped, NEW e \in Events, e.type \in Answers, Report(<<e>>), OnlyAnswers,
         rf' \in {"stopped", "discovering"}
  PROVE  OnlyAnswers'
<1> DEFINE s == <<e>>
           m == Len(nfaOut)
           n == Len(s)
<1>1. s \in Seq(Events) /\ n = 1 /\ s[1] = e /\ Report(s)
  OBVIOUS
<1> HIDE DEF s
<1>2. /\ m \in Nat /\ n \in Nat /\ DOMAIN nfaOut = 1 .. m /\ DOMAIN nfaOut' = 1 .. m + n
      /\ \A j \in 1 .. m : nfaOut'[j] = nfaOut[j]
      /\ \A j \in 1 .. n : nfaOut'[m + j] = s[j]
  BY <1>1, Reported DEF StackTyped
<1> HIDE DEF m, n
<1>3. \A j \in 1 .. m + 1 : j \in 1 .. m \/ j = m + 1
  BY <1>2
<1>4. 1 \in 1 .. 1
  OBVIOUS
<1>5. \A j \in 1 .. m + 1 : nfaOut'[j].type \in Answers
  BY <1>1, <1>2, <1>3, <1>4 DEF OnlyAnswers
<1> QED BY <1>1, <1>2, <1>5 DEF OnlyAnswers, Answers, LocalTypes

LEMMA AppAccepts ==
  ASSUME StackTyped, OnlyAnswers, NEW c \in AppSteps, Accept(c)
  PROVE  OnlyAnswers'
<1>1. LocalDone(c) \/ SilentDone(c) \/ StartDone(c)
  BY DEF Accept, StopDone, SleepDone, DeactivateDone, SelectDone, TagSent, TagCommands,
         AppSteps, DiscoverySteps, ListenSteps, Stops, SetUpSteps
<1>2. CASE SilentDone(c)
  BY <1>2 DEF SilentDone, stackVars, OnlyAnswers
<1>3. ASSUME NEW type \in Answers, Report(<<Event(type, "none")>>),
             rf' \in {"stopped", "discovering"}
      PROVE  OnlyAnswers'
  <2> DEFINE e == Event(type, "none")
  <2>1. e \in Events /\ e.type \in Answers
    BY DEF Event, Answers, Events, PlainEvents, PlainTypes
  <2> HIDE DEF e
  <2>2. Report(<<e>>) BY <1>3 DEF e
  <2> QED BY <1>3, <2>1, <2>2, AnswerReported
<1>4. CASE LocalDone(c)
  <2>1. Reply[c] \in Answers BY <1>4, LocalReply DEF LocalDone, Answers
  <2> QED BY <1>3, <1>4, <2>1 DEF LocalDone, OnlyAnswers
<1>5. CASE StartDone(c)
  <2>1. Reply[c] \in Answers BY <1>5 DEF StartDone, Reply, Answers
  <2>2. rf' \in {"stopped", "discovering"} BY <1>5 DEF StartDone, OnlyAnswers
  <2> QED BY <1>3, <1>5, <2>1, <2>2 DEF StartDone
<1> QED BY <1>1, <1>2, <1>4, <1>5

LEMMA CallAccepts ==
  ASSUME NEW t, CallStep(t)
  PROVE  UNCHANGED stackVars \/ Accept(Step(t))
BY DEF CallStep, Issue, IssueP2p, Check, WaitPull, WaitTimeout, SaveLlcpInit, EeGetInfo, EeStatus,
       DiscoveryStop, Flush, ClearAnalog, Configure, ClearCe, SaveConfig, SetStarted,
       CheckActive, BeginReceive, CheckData, IsNdef

LEMMA AnswerPushes ==
  ASSUME NEW e, e.type \in Answers
  PROVE  PushesOf(e) = <<"mw">>
<1>1. /\ e.type \notin {"LLCP_ACTIVATED", "LLCP_DEACTIVATED", "ACTIVATED", "DISC_RESULT"}
      /\ e.type \notin {"DEACTIVATED", "CE_ACTIVATED", "CE_DATA", "CE_DEACTIVATED"}
      /\ e.type \notin ServerEvents /\ e.type # "CL_DATA" /\ e.type \notin ClientEvents
      /\ e.type # "DATA"
  BY DEF Answers, LocalTypes, ServerEvents, ClientEvents
<1> QED BY <1>1 DEF PushesOf, Event

LEMMA StartingStack ==
  ASSUME StackTyped, MwTyped, Starting, appState = "starting", StackThread
  PROVE  Starting'
<1>1. /\ ~Busy("handler")' /\ cb.todo \in {<<>>, <<"mw">>} /\ OnlyAnswers /\ dtaQueue = <<>>
  BY DEF Starting, StackThread, Callback, CallbackPush, threadVars, Busy
<1>2. CASE Callback
  <2> DEFINE e == Head(nfaOut)
             q == Tail(nfaOut)
             n == Len(nfaOut)
  <2>1. /\ n \in Nat \ {0} /\ DOMAIN nfaOut = 1 .. n /\ e = nfaOut[1] /\ DOMAIN q = 1 .. n - 1
        /\ \A i \in 1 .. n - 1 : q[i] = nfaOut[i + 1]
    <3>1. nfaOut \in Seq(Events) /\ nfaOut # <<>>
      BY <1>2 DEF StackTyped, Callback
    <3>2. q \in Seq(Events) /\ Len(q) = n - 1 /\ n \in Nat /\ n # 0 /\ DOMAIN nfaOut = 1 .. n
      BY <3>1, HeadTailProperties, LenProperties, EmptySeq
    <3> QED BY <3>1, <3>2, HeadTailProperties, LenProperties
  <2>2. nfaOut' = q /\ rf' = rf /\ cb'.todo = PushesOf(e) /\ dtaQueue' = dtaQueue
    BY <1>2 DEF Callback, queueVars
  <2> HIDE DEF e, q, n
  <2>3. 1 \in 1 .. n /\ \A i \in 1 .. n - 1 : i + 1 \in 1 .. n
    BY <2>1
  <2>4. e.type \in Answers /\ \A i \in 1 .. n - 1 : q[i].type \in Answers
    BY <1>1, <2>1, <2>3 DEF OnlyAnswers
  <2>5. PushesOf(e) = <<"mw">>
    BY <2>4, AnswerPushes
  <2>6. OnlyAnswers'
    BY <1>1, <2>1, <2>2, <2>4 DEF OnlyAnswers, Answers, LocalTypes
  <2> QED BY <1>1, <2>2, <2>5, <2>6 DEF Starting
<1>3. CASE CallbackPush
  <2>1. cb.todo = <<"mw">> /\ Head(<<"mw">>) = "mw" /\ Len(<<"mw">>) = 1
    BY <1>1, <1>3 DEF CallbackPush, CallbackIdle
  <2>2. cb'.todo = <<>> /\ dtaQueue' = dtaQueue /\ UNCHANGED stackVars
    BY <1>3, <2>1 DEF CallbackPush
  <2> QED BY <1>1, <2>2 DEF Starting, OnlyAnswers, stackVars
<1> QED BY <1>2, <1>3 DEF StackThread

LEMMA StartingKept ==
  ASSUME StackAssumption, MwIfAssumption, DtaAssumption, ~EarlyTester, NobodySelects,
         Typed, AppIdle, Off, AppCalls, Starting, [Next]_vars
  PROVE  Starting'
<1>1. SUFFICES ASSUME appState' = "starting" PROVE Starting'
  BY DEF Starting
<1>2. CASE AppEnable
  <2>1. "handler" \in Threads /\ calls'["handler"] = calls["handler"]
    BY <1>2 DEF AppEnable, DtaAssumption, Typed, ControlTyped, CallsTyped
  <2>2. UNCHANGED <<stackVars, cb, dtaQueue>> /\ appState = "off"
    BY <1>2 DEF AppEnable, queueVars
  <2> QED BY <2>1, <2>2 DEF Off, Starting, OnlyAnswers, stackVars, CallbackIdle, Busy
<1>3. CASE appState = "starting"
  <2>1. ~Busy("handler") /\ dtaQueue = <<>> /\ cb.todo \in {<<>>, <<"mw">>} /\ OnlyAnswers
    BY <1>3 DEF Starting
  <2>2. CASE Handler
    BY <2>1, <2>2, HandlerStill
  <2>3. CASE StackThread
    BY <1>3, <2>3, StartingStack DEF Typed
  <2>4. CASE TesterActs
    BY <1>3, <2>4 DEF TesterActs
  <2>5. ASSUME UNCHANGED <<cb, dtaQueue>>, calls'["handler"] = calls["handler"], OnlyAnswers'
        PROVE  Starting'
    BY <2>1, <2>5 DEF Starting, Busy
  <2>6. CASE Enable \/ SavePrev \/ UNCHANGED vars
    <3>1. UNCHANGED <<stackVars, cb, dtaQueue>>
      BY <2>6 DEF Enable, SavePrev, queueVars, vars
    <3>2. calls'["handler"] = calls["handler"]
      BY <2>6 DEF Enable, SavePrev, Proceed, vars, threadVars, DtaAssumption, Typed, ControlTyped,
                  CallsTyped
    <3> QED BY <2>1, <2>5, <3>1, <3>2 DEF OnlyAnswers, stackVars
  <2>7. CASE CallStep("app") /\ UNCHANGED dtaVars
    <3>1. /\ CallEffect("app") /\ MwEffect("app") /\ calls'["handler"] = calls["handler"]
      BY <2>7, CallStepTyped DEF DtaAssumption
    <3>2. Step("app") \in AppSteps
      BY <1>3, <3>1, CallAppSteps DEF AppCalls
    <3>3. OnlyAnswers'
      BY <2>1, <2>7, <3>2, CallAccepts, AppAccepts DEF Typed, OnlyAnswers, stackVars
    <3> QED BY <2>5, <3>1, <3>3 DEF MwEffect
  <2>8. ~AppEnable /\ ~AppDisable /\ ~AppReturns
    BY <1>1, <1>3 DEF AppEnable, AppDisable, AppReturns
  <2> QED BY <2>2, <2>3, <2>4, <2>6, <2>7, <2>8 DEF Next, NobodySelects, App
<1>4. CASE ~AppEnable /\ appState # "starting"
  <2>1. appState' # "starting"
    <3>1. CASE ~(AppEnable \/ AppDisable \/ App)
      BY <1>4, <3>1, AppAlone
    <3>2. CASE AppDisable \/ App
      BY <1>4, <3>2 DEF AppDisable, App, Enable, SavePrev, AppReturns, dtaVars, appVars
    <3> QED BY <1>4, <3>1, <3>2
  <2> QED BY <1>1, <2>1
<1> QED BY <1>2, <1>3, <1>4

-----------------------------------------------------------------------------
(* Until the application disables discovery: a start to come stays to come *)
(* while the radio is stopped.                                             *)

Live == appState \in {"off", "starting", "on"}

LEMMA LiveBefore ==
  ASSUME StackAssumption, MwIfAssumption, DtaAssumption, Typed, NobodySelects, [Next]_vars,
         Live'
  PROVE  Live
<1>1. CASE ~(AppEnable \/ AppDisable \/ App)
  BY <1>1, AppAlone DEF Live
<1>2. CASE AppEnable \/ AppDisable \/ App
  BY <1>2 DEF Live, AppEnable, AppDisable, App, Enable, SavePrev, AppReturns, dtaVars, appVars
<1> QED BY <1>1, <1>2

(* What the application's steps leave alone.                               *)
LEMMA AppLeaves ==
  ASSUME StackAssumption, MwIfAssumption, DtaAssumption, Typed,
         AppEnable \/ AppDisable \/ App
  PROVE  /\ RadioEffect /\ UNCHANGED <<cb, dtaQueue>>
         /\ calls'["handler"] = calls["handler"] /\ at'["handler"] = at["handler"]
<1>1. "app" \in Threads /\ "handler" \in Threads
      /\ calls \in [Threads -> CallsOf(Steps)] /\ at \in [Threads -> {"run", "check", "wait"}]
  BY DEF DtaAssumption, Typed, ControlTyped, CallsTyped
<1>2. CASE CallStep("app") /\ UNCHANGED dtaVars
  <2>1. CallEffect("app") /\ MwEffect("app")
    BY <1>1, <1>2, CallStepTyped
  <2>2. \A u \in Threads \ {"app"} : calls'[u] = calls[u] /\ at'[u] = at[u]
    BY <1>1, <1>2, CallStepTyped
  <2>3. RadioEffect /\ UNCHANGED <<cb, dtaQueue>>
    BY <2>1, CallRadio
  <2> QED BY <1>1, <2>2, <2>3
<1>3. CASE AppEnable \/ AppDisable \/ Enable \/ SavePrev \/ AppReturns
  <2>1. UNCHANGED <<setting, stackVars, cb, dtaQueue>>
    BY <1>3 DEF AppEnable, AppDisable, Enable, SavePrev, AppReturns, queueVars, dtaVars, appVars
  <2>2. Keeps
    BY <2>1, StackKept DEF Typed
  <2>3. calls'["handler"] = calls["handler"] /\ at'["handler"] = at["handler"]
    BY <1>1, <1>3 DEF AppEnable, AppDisable, Enable, SavePrev, AppReturns, Proceed, threadVars
  <2> QED BY <2>1, <2>2, <2>3 DEF RadioEffect
<1> QED BY <1>2, <1>3 DEF App

LEMMA TesterLeaves ==
  ASSUME StackAssumption, Typed, TesterActs
  PROVE  /\ RadioEffect /\ UNCHANGED <<cb, dtaQueue, eDeviceState, calls, at>>
<1>1. Tester /\ UNCHANGED <<setting, eDeviceState, cb, dtaQueue, calls, at>>
  BY DEF TesterActs, mwVars, queueVars, threadVars, dtaVars, appVars
<1> QED BY <1>1, TesterStep DEF Typed, TesterEffect, RadioEffect

LEMMA StackThreadRestarts ==
  ASSUME Typed, StackThread, Restarts
  PROVE  Restarts'
<1>1. StartComing' = StartComing
  BY DEF StackThread, Callback, CallbackPush, threadVars, StartComing, Will
<1>2. \A e \in Coming : OfContact(e) => e \in Coming'
  BY ComingCalledBack, ComingPushed DEF Typed, StackThread
<1> QED BY <1>1, <1>2, CeStays DEF Restarts

LEMMA RestartsKept ==
  ASSUME StackAssumption, MwIfAssumption, DtaAssumption, StartAccepted, NobodySelects,
         Typed, Typed', [Next]_vars, rf = "stopped", rf' = "stopped", Restarts
  PROVE  Restarts'
<1>1. CASE Handler BY <1>1, HandlerRestarts
<1>2. CASE StackThread BY <1>2, StackThreadRestarts
<1>3. CASE AppEnable \/ AppDisable \/ App
  BY <1>3, AppLeaves, OthersRestart DEF Typed
<1>4. CASE TesterActs
  BY <1>4, TesterLeaves, OthersRestart DEF Typed
<1>5. CASE UNCHANGED vars
  BY <1>5 DEF vars, stackVars, queueVars, threadVars, Restarts, StartComing, Will, CeComing,
              Coming, ToDta
<1> QED BY <1>1, <1>2, <1>3, <1>4, <1>5 DEF Next, NobodySelects

-----------------------------------------------------------------------------
(* The radio stops.                                                        *)

(* The tester stops it only by ending a card emulation.                    *)
LEMMA TesterStops ==
  ASSUME Tester, rf' = "stopped"
  PROVE  rf \in {"stopped", "emulating"}
BY DEF Tester, PresentTag, PresentSeveral, StartEmulation, SendApdu, TagAnswers, TagLost,
       EndEmulation, OnLink, RemoteConnects, SendData, RemoteAnswers, RemoteAccepts,
       RemoteCloses, SdpAnswer

(* A call stops it by one of two commands.                                 *)
LEMMA CallStops ==
  ASSUME NEW t, CallEffect(t), rf # "stopped", rf' = "stopped"
  PROVE  /\ UNCHANGED calls /\ RadioEffect
         /\ \/ Step(t) = "StopRfDiscovery"
            \/ Step(t) = "Deactivate" /\ rf \in {"active", "asleep"}
<1>1. Commands(t) /\ CommandEffect(Step(t))
  BY DEF CallEffect, Stays, Commands, Waits, Goes, Keeps
<1>2. UNCHANGED calls
  BY <1>1 DEF Commands, Entered
<1> QED BY <1>1, <1>2 DEF CommandEffect, RadioEffect, Keeps, Polls, Begun

LEMMA AppStopsNothing ==
  ASSUME StackAssumption, MwIfAssumption, DtaAssumption, Typed, AppIdle, AppCalls, Live,
         AppEnable \/ AppDisable \/ App, rf # "stopped"
  PROVE  rf' # "stopped"
<1>1. CASE AppEnable \/ AppDisable \/ Enable \/ SavePrev \/ AppReturns
  BY <1>1 DEF AppEnable, AppDisable, Enable, SavePrev, AppReturns, stackVars
<1>2. CASE CallStep("app") /\ UNCHANGED dtaVars
  <2>1. CallEffect("app") /\ Busy("app")
    BY <1>2, CallStepTyped DEF DtaAssumption, CallEffect
  <2>2. Step("app") \in AppSteps
    BY <2>1, CallAppSteps DEF AppCalls, Live, AppIdle
  <2>3. Step("app") \notin {"StopRfDiscovery", "Deactivate"}
    BY <2>2 DEF AppSteps, DiscoverySteps, ListenSteps, Stops, SetUpSteps
  <2> QED BY <2>1, <2>3, CallStops
<1> QED BY <1>1, <1>2 DEF App

LEMMA HandlerStops ==
  ASSUME StackAssumption, MwIfAssumption, DtaAssumption, Typed, Handler,
         rf # "stopped", rf' = "stopped"
  PROVE  \/ Restarts'
         \/ /\ rf \in {"active", "asleep"} /\ WillBeIdle' /\ ~Started("handler")'
            /\ calls' = calls
<1>1. "handler" \in Threads
  BY DEF DtaAssumption
<1>2. (CallStep("handler") \/ LlcpStep) /\ UNCHANGED dtaVars
  BY DEF Handler, HandlerPull, CheckEot, Eot, SendLast, HcePull, UiccPull, SaveConn, SaveClSap,
         stackVars
<1>3. CallEffect("handler")
  BY <1>1, <1>2, CallStepEffect, IssueLlcpEffect DEF LlcpStep, dtaVars, appVars
<1>4. UNCHANGED calls /\ RadioEffect /\ Busy("handler")
  BY <1>3, CallStops DEF CallEffect
<1>5. CASE Step("handler") = "StopRfDiscovery"
  BY <1>4, <1>5, StoppingStarts DEF Stops, Restarts
<1>6. CASE Step("handler") = "Deactivate" /\ rf \in {"active", "asleep"}
  <2>1. PICK s \in Seq(Events) :
          /\ Report(s) /\ \A i \in DOMAIN s : ~Wakes(s[i])
          /\ rf \in {"active", "asleep", "emulating"} => \E i \in DOMAIN s : IdleEvent(s[i])
    BY <1>4, StoppedReports
  <2>2. WillBeIdle'
    BY <1>6, <2>1, IdleAfter DEF Typed
  <2>3. ~Started("handler")'
    BY <1>4, <1>6 DEF Started, Late, Busy, Step
  <2> QED BY <1>4, <1>6, <2>2, <2>3
<1> QED BY <1>3, <1>5, <1>6, CallStops

LEMMA NewlyStopped ==
  ASSUME StackAssumption, MwIfAssumption, DtaAssumption, NobodySelects, Typed, AppIdle,
         Served, AppCalls, Live, [Next]_vars, rf # "stopped", rf' = "stopped"
  PROVE  \/ Restarts'
         \/ /\ rf \in {"active", "asleep"} /\ WillBeIdle' /\ ~Started("handler")'
            /\ calls' = calls
<1>1. CASE Handler BY <1>1, HandlerStops
<1>2. CASE StackThread \/ UNCHANGED vars
  BY <1>2 DEF StackThread, Callback, CallbackPush, vars, stackVars
<1>3. CASE AppEnable \/ AppDisable \/ App
  BY <1>3, AppStopsNothing
<1>4. CASE TesterActs
  <2>1. rf = "emulating"
    BY <1>4, TesterStops DEF TesterActs
  <2>2. Restarts
    BY <2>1, StopIsStart DEF Served, Restarts
  <2> QED BY <1>4, <2>2, TesterLeaves, OthersRestart DEF Typed
<1> QED BY <1>1, <1>2, <1>3, <1>4 DEF Next, NobodySelects

-----------------------------------------------------------------------------
(* The radio stays stopped and nothing is to start it: nobody takes it for *)
(* started.                                                                *)

LEMMA StartedUnchanged ==
  ASSUME NEW t, calls'[t] = calls[t], at'[t] = at[t]
  PROVE  Started(t)' = Started(t)
BY DEF Started, Busy, Step

(* A call whose first step starts nothing and follows no start.            *)
LEMMA NotStartedYet ==
  ASSUME NEW S, NEW CONSTANT t, calls'[t] \in CallsOf(S),
         calls'[t] # <<>> => calls'[t][1][1] \notin Late,
         at'[t] = "run" \/ (calls'[t] # <<>> => calls'[t][1][1] # "StartRfDiscovery")
  PROVE  ~Started(t)'
<1>1. calls'[t] # <<>> => Step(t)' = calls'[t][1][1]
  BY CallFacts DEF Step
<1> QED BY <1>1 DEF Started, Busy

LEMMA ProceedNotStarted ==
  ASSUME DtaAssumption, Typed, NEW step, step \notin Starts, At("handler", step),
         Proceed("handler", <<>>)
  PROVE  ~Started("handler")'
<1> DEFINE c == calls["handler"]
           S == StepsOf("handler")
           s == <<>>
<1>1. /\ c \in CallsOf(S) /\ c # <<>> /\ c[1][1] = step /\ "handler" \in Threads
  BY HandlerAt
<1>2. InOrder(c)
  BY HandlerOrdered
<1>3. calls \in [Threads -> CallsOf(Steps)] /\ at \in [Threads -> {"run", "check", "wait"}]
  BY DEF Typed, ControlTyped, CallsTyped
<1>4. calls'["handler"] = Pushed(c, s) /\ at'["handler"] = "run"
  BY <1>1, <1>3, Proceeded DEF Moved
<1>5. s \in Seq(S) /\ Len(s) = 0
  OBVIOUS
<1> HIDE DEF c, S, s
<1>6. (\A j \in 1 .. Len(s) : s[j] \notin Late) /\ ~(Len(s) > 0)
  BY <1>5
<1>7. Pushed(c, s) # <<>> => Pushed(c, s)[1][1] \notin Late
  BY <1>1, <1>2, <1>5, <1>6, OrderedPushed
<1>8. Pushed(c, s) \in CallsOf(S)
  BY <1>1, <1>5, PushedTyped
<1> QED BY <1>4, <1>7, <1>8, NotStartedYet

LEMMA SendLastNotStarted ==
  ASSUME DtaAssumption, Typed, SendLast
  PROVE  ~Started("handler")'
<1> DEFINE c == calls["handler"]
           S == StepsOf("handler")
           s == <<"SendRawFrame">>
<1>1. /\ At("handler", "SendLast") /\ s \in Seq(S)
      /\ calls' = [calls EXCEPT !["handler"] = Pushed(c, s)] /\ Rest(c, s) # <<>>
  BY SendLastGoes
<1>2. c \in CallsOf(S) /\ c # <<>> /\ "handler" \in Threads
  BY <1>1, HandlerAt
<1>3. calls'["handler"] = Pushed(c, s)
  BY <1>1, <1>2 DEF Typed, ControlTyped, CallsTyped
<1>4. Len(s) = 1 /\ s[1] = "SendRawFrame"
  OBVIOUS
<1> HIDE DEF c, S, s
<1>5. Len(s) > 0 BY <1>4
<1>6. Rest(c, s)[1] = s[1]
  BY <1>1, <1>2, <1>5, RestFirst
<1>7. Pushed(c, s)[1] = Rest(c, s)
  BY <1>1, <1>2, PushedKeeps
<1>8. Pushed(c, s)[1][1] = "SendRawFrame"
  BY <1>4, <1>6, <1>7
<1>9. Pushed(c, s) \in CallsOf(S)
  BY <1>1, <1>2, PushedTyped
<1> QED BY <1>3, <1>8, <1>9, NotStartedYet DEF Late

LEMMA EotNotStarted ==
  ASSUME DtaAssumption, Typed, CheckEot \/ Eot
  PROVE  ~Started("handler")'
<1>1. PICK step \in Eots : At("handler", step)
  BY DEF CheckEot, Eot, Eots
<1>2. CASE Proceed("handler", <<>>)
  <2>1. step \notin Starts BY DEF Eots, Starts
  <2> QED BY <1>1, <1>2, <2>1, ProceedNotStarted
<1>3. CASE EndOfTest
  <2> DEFINE x == << <<"Deactivate">> >>
             y == << <<"DeactivateSleep">>, <<"Deactivate">> >>
  <2>1. at["handler"] = "run" /\ "handler" \in Threads
    BY <1>1, HandlerAt
  <2>2. calls'["handler"] \in {x, y}
    BY <1>3, <2>1 DEF EndOfTest, Typed, ControlTyped, CallsTyped
  <2>3. x \in CallsOf(StepsOf("handler")) /\ y \in CallsOf(StepsOf("handler"))
    BY EndCalls
  <2>4. x[1][1] = "Deactivate" /\ y[1][1] = "DeactivateSleep"
    OBVIOUS
  <2> HIDE DEF x, y
  <2> QED BY <2>2, <2>3, <2>4, NotStartedYet DEF Late
<1> QED BY <1>2, <1>3 DEF CheckEot, Eot

LEMMA PullNotStarted ==
  ASSUME DtaAssumption, Typed, HandlerPull
  PROVE  ~Started("handler")'
<1> DEFINE e == Head(dtaQueue)
           S == StepsOf("handler")
<1>1. e \in DtaEvents
  BY HeadTailProperties DEF HandlerPull, Typed, MwTyped
<1>2. at'["handler"] = "run" /\ "handler" \in Threads
  BY DEF DtaAssumption, HandlerPull, HandlerIdle, Busy, Typed, ControlTyped, CallsTyped
<1>3. PICK round \in Rounds(e) : calls' = [calls EXCEPT !["handler"] = round]
  BY DEF HandlerPull
<1>4. calls'["handler"] = round
  BY <1>2, <1>3 DEF Typed, ControlTyped, CallsTyped
<1>5. round \in CallsOf(S) /\ (round # <<>> => round[1][1] \notin {"SaveConn", "SetStarted"})
  BY <1>1, <1>3, RoundsTyped DEF Typed
<1>6. "SavePrev" \notin S
  BY DEF StepsOf, DiscoverySteps, ListenSteps, TestSteps, LinkSteps, Pulls, Eots
<1> HIDE DEF e, S
<1>7. round # <<>> => round[1][1] \in S
  BY <1>5, CallFacts
<1>8. round # <<>> => round[1][1] \notin Late
  BY <1>5, <1>6, <1>7 DEF Late
<1> QED BY <1>2, <1>4, <1>5, <1>8, NotStartedYet

LEMMA HandlerNotStarted ==
  ASSUME StackAssumption, MwIfAssumption, DtaAssumption, StartAccepted, Typed, Typed', Handler,
         rf = "stopped", rf' = "stopped", ~Started("handler")
  PROVE  ~Started("handler")' \/ Restarts'
<1>1. "handler" \in Threads
  BY DEF DtaAssumption
<1>2. ASSUME CallStep("handler") \/ LlcpStep, UNCHANGED dtaVars PROVE ~Started("handler")'
  <2>1. CallEffect("handler")
    BY <1>1, <1>2, CallStepEffect, IssueLlcpEffect DEF LlcpStep, dtaVars, appVars
  <2>2. InOrder(calls["handler"])
    BY HandlerOrdered
  <2> QED BY <1>1, <2>1, <2>2, CallOrdered
<1>3. CASE HandlerPull BY <1>3, PullNotStarted
<1>4. CASE CheckEot \/ Eot BY <1>4, EotNotStarted
<1>5. CASE SendLast BY <1>5, SendLastNotStarted
<1>6. CASE HcePull \/ UiccPull BY <1>6, PullStops, StopWillStart DEF Restarts
<1>7. CASE SaveConn \/ SaveClSap
  <2>1. PICK step \in {"SaveConn", "SaveClSap"} : At("handler", step)
    BY <1>7 DEF SaveConn, SaveClSap
  <2>2. Proceed("handler", <<>>) /\ step \notin Starts
    BY <1>7 DEF SaveConn, SaveClSap, Starts
  <2> QED BY <2>1, <2>2, ProceedNotStarted
<1> QED BY <1>2, <1>3, <1>4, <1>5, <1>6, <1>7 DEF Handler

LEMMA AppNotStarted ==
  ASSUME StackAssumption, MwIfAssumption, DtaAssumption, StartAccepted, NobodySelects,
         Typed, AppIdle, AppCalls, [Next]_vars, rf = "stopped", rf' = "stopped",
         Live', ~Started("app")
  PROVE  ~Started("app")'
<1>1. "app" \in Threads /\ calls \in [Threads -> CallsOf(Steps)]
      /\ (~Busy("app") => at["app"] = "run")
  BY DEF DtaAssumption, Typed, ControlTyped, CallsTyped
<1>2. Live
  BY LiveBefore
<1>3. CASE ~(AppEnable \/ AppDisable \/ App)
  BY <1>3, AppAlone, StartedUnchanged
<1>4. CASE AppEnable
  <2>1. PICK cfg \in Configs, llcp \in LlcpModes :
          calls' = [calls EXCEPT !["app"] = << SetUp(cfg, llcp) >>]
    BY <1>4 DEF AppEnable
  <2> DEFINE d == SetUp(cfg, llcp)
             c == << d >>
  <2>2. d \in Seq(SetUpSteps) /\ d # <<>>
    BY SetUpTyped
  <2>3. calls'["app"] = c
    BY <1>1, <2>1
  <2> HIDE DEF d
  <2>4. c \in CallsOf(AppSteps) /\ c[1] = d /\ d[1] \notin Late \cup Starts
    BY <2>2, SetUpOrdered
  <2> HIDE DEF c
  <2>5. c[1][1] \notin Late /\ c[1][1] # "StartRfDiscovery"
    BY <2>4 DEF Starts
  <2> QED BY <2>3, <2>4, <2>5, NotStartedYet
<1>5. CASE AppDisable
  BY <1>5 DEF AppDisable, Live
<1>6. CASE Enable
  <2>1. /\ calls'["app"] \in CallsOf(AppSteps)
        /\ calls'["app"][1][1] = "SaveConfig" /\ at'["app"] = "run"
    BY <1>6, EnableCalls
  <2> QED BY <2>1, NotStartedYet DEF Late
<1>7. CASE SavePrev
  BY <1>7 DEF SavePrev, At, Started, Late
<1>8. CASE AppReturns
  BY <1>8, StartedUnchanged DEF AppReturns, threadVars
<1>9. CASE CallStep("app") /\ UNCHANGED dtaVars
  <2>1. CallEffect("app") /\ Busy("app")
    BY <1>1, <1>9, CallStepTyped DEF CallEffect
  <2>2. InOrder(calls["app"])
    BY <1>2, <2>1 DEF AppCalls, Live, AppIdle
  <2> QED BY <1>1, <2>1, <2>2, CallOrdered
<1> QED BY <1>3, <1>4, <1>5, <1>6, <1>7, <1>8, <1>9 DEF App

LEMMA CallIdle ==
  ASSUME Typed, NEW t, CallEffect(t), MwEffect(t), rf' = "stopped", WillBeIdle, ~Started(t)
  PROVE  WillBeIdle'
<1>1. eDeviceState' = eDeviceState
  BY DEF MwEffect, At, Started, Late
<1>2. RadioEffect
  BY CallRadio
<1>3. PICK s \in Seq(Events) : Report(s) /\ \A i \in DOMAIN s : ~Wakes(s[i])
  BY <1>2, StoppedReports
<1> QED BY <1>1, <1>3, IdleAfter DEF Typed

LEMMA IdleKept ==
  ASSUME StackAssumption, MwIfAssumption, DtaAssumption, NobodySelects, Typed, [Next]_vars,
         rf' = "stopped", WillBeIdle, ~Started("handler"), ~Started("app")
  PROVE  WillBeIdle'
<1>1. "handler" \in Threads /\ "app" \in Threads
  BY DEF DtaAssumption
<1>2. UNCHANGED <<nfaOut, eDeviceState>> => WillBeIdle'
  BY DEF WillBeIdle, Wakes, MakesActive, IdleEvent
<1>3. CASE Handler
  <2>1. ASSUME CallStep("handler") \/ LlcpStep, UNCHANGED dtaVars PROVE WillBeIdle'
    <3>1. CallEffect("handler") /\ MwEffect("handler")
      BY <1>1, <2>1, CallStepEffect, IssueLlcpEffect DEF LlcpStep, dtaVars, appVars
    <3> QED BY <3>1, CallIdle
  <2>2. ASSUME Handler, ~(CallStep("handler") \/ LlcpStep) \/ ~UNCHANGED dtaVars
        PROVE  UNCHANGED <<nfaOut, eDeviceState>>
    BY <2>2 DEF Handler, HandlerPull, CheckEot, Eot, SendLast, HcePull, UiccPull, SaveConn,
                SaveClSap, mwVars, stackVars
  <2> QED BY <1>2, <1>3, <2>1, <2>2
<1>4. CASE Callback
  BY <1>4, IdleAfterCallback DEF Typed
<1>5. CASE CallStep("app") /\ UNCHANGED dtaVars
  <2>1. CallEffect("app") /\ MwEffect("app")
    BY <1>1, <1>5, CallStepTyped
  <2> QED BY <2>1, CallIdle
<1>6. CASE AppEnable \/ AppDisable \/ Enable \/ SavePrev \/ AppReturns \/ CallbackPush
           \/ UNCHANGED vars
  BY <1>2, <1>6 DEF AppEnable, AppDisable, Enable, SavePrev, AppReturns, CallbackPush, vars,
                    mwVars, stackVars
<1>7. CASE TesterActs
  <2>1. RadioEffect /\ eDeviceState' = eDeviceState
    BY <1>7, TesterLeaves
  <2>2. PICK s \in Seq(Events) : Report(s) /\ \A i \in DOMAIN s : ~Wakes(s[i])
    BY <2>1, StoppedReports
  <2> QED BY <2>1, <2>2, IdleAfter DEF Typed
<1> QED BY <1>3, <1>4, <1>5, <1>6, <1>7 DEF Next, NobodySelects, App, StackThread

(* The other threads leave the handler's call as it is.                    *)
LEMMA OthersNotStarted ==
  ASSUME StackAssumption, MwIfAssumption, DtaAssumption, NobodySelects, Typed, [Next]_vars,
         ~Handler, ~Started("handler")
  PROVE  ~Started("handler")'
<1>1. calls'["handler"] = calls["handler"] /\ at'["handler"] = at["handler"]
  <2>1. CASE AppEnable \/ AppDisable \/ App BY <2>1, AppLeaves
  <2>2. CASE StackThread \/ UNCHANGED vars
    BY <2>2 DEF StackThread, Callback, CallbackPush, vars, threadVars
  <2>3. CASE TesterActs BY <2>3, TesterLeaves
  <2> QED BY <2>1, <2>2, <2>3 DEF Next, NobodySelects
<1> QED BY <1>1, StartedUnchanged

(* A radio that stopped is to be started again, or the library learns of   *)
(* it and nobody is about to mark discovery as started.                    *)
StoppedSeen ==
  Live /\ rf = "stopped" =>
    Restarts \/ (WillBeIdle /\ ~Started("handler") /\ ~Started("app"))

LEMMA StoppedSeenKept ==
  ASSUME StackAssumption, MwIfAssumption, DtaAssumption, StartAccepted, NobodySelects,
         Typed, Typed', AppIdle, Served, AppCalls, Starting, StoppedSeen, [Next]_vars
  PROVE  StoppedSeen'
<1> SUFFICES ASSUME Live', rf' = "stopped", ~Restarts'
             PROVE  WillBeIdle' /\ ~Started("handler")' /\ ~Started("app")'
  BY DEF StoppedSeen
<1>1. Live
  BY LiveBefore
<1>2. CASE rf # "stopped"
  <2>1. /\ rf \in {"active", "asleep"} /\ WillBeIdle' /\ ~Started("handler")'
        /\ calls' = calls
    BY <1>1, <1>2, NewlyStopped
  <2>2. ~Busy("app")
    BY <1>1, <2>1 DEF Starting, OnlyAnswers, Live, AppIdle
  <2> QED BY <2>1, <2>2 DEF Started, Busy
<1>3. CASE rf = "stopped"
  <2>1. ~Restarts
    BY <1>3, RestartsKept
  <2>2. WillBeIdle /\ ~Started("handler") /\ ~Started("app")
    BY <1>1, <1>3, <2>1 DEF StoppedSeen
  <2>3. WillBeIdle'
    BY <2>2, IdleKept
  <2>4. ~Started("handler")'
    BY <1>3, <2>2, HandlerNotStarted, OthersNotStarted
  <2>5. ~Started("app")'
    BY <1>3, <2>2, AppNotStarted
  <2> QED BY <2>3, <2>4, <2>5
<1> QED BY <1>2, <1>3

-----------------------------------------------------------------------------
(* Readers only: the radio is stopped by them and by the handler.          *)

(* The tester presents no tag and no peer alone, in none of the settings.  *)
OnlyReaders ==
  \A name \in DOMAIN Settings : Settings[name].protocols \subseteq CeProtocols

CeOnly == rf \in {"stopped", "discovering", "emulating"}

LEMMA CeOnlyKept ==
  ASSUME StackAssumption, MwIfAssumption, DtaAssumption, Typed, NobodySelects, OneTarget,
         OnlyReaders, CeOnly, [Next]_vars
  PROVE  CeOnly'
<1>1. \A c : Accept(c) => CeOnly'
  BY DEF CeOnly, Accept, LocalDone, SilentDone, StartDone, StopDone, SleepDone, DeactivateDone,
         SelectDone, TagSent, stackVars
<1>2. UNCHANGED stackVars => CeOnly'
  BY DEF CeOnly, stackVars
<1>3. \A t : CallStep(t) => CeOnly'
  BY <1>1, <1>2, CallAccepts
<1>4. CASE Handler
  <2>1. CASE LlcpStep
    <3>1. UNCHANGED stackVars \/ \E c, h : AcceptOnLink(c, h)
      BY <2>1 DEF LlcpStep, IssueLlcp
    <3>2. rf' = rf
      BY <3>1 DEF AcceptOnLink, AcceptConnDone, ConnectDone, GetRemoteSapDone,
                  P2pDisconnectDone, SilentDone, stackVars
    <3> QED BY <3>2 DEF CeOnly
  <2>2. CASE ~LlcpStep
    <3>1. CallStep("handler") \/ UNCHANGED stackVars
      BY <1>4, <2>2 DEF Handler, HandlerPull, CheckEot, Eot, SendLast, HcePull, UiccPull,
                        SaveConn, SaveClSap
    <3> QED BY <1>2, <1>3, <3>1
  <2> QED BY <2>1, <2>2
<1>5. CASE AppEnable \/ AppDisable \/ App
  <2>1. CallStep("app") \/ UNCHANGED stackVars
    BY <1>5 DEF AppEnable, AppDisable, App, Enable, SavePrev, AppReturns
  <2> QED BY <1>2, <1>3, <2>1
<1>6. CASE StackThread \/ UNCHANGED vars
  BY <1>6 DEF StackThread, Callback, CallbackPush, vars, stackVars, CeOnly
<1>7. CASE TesterActs
  <2>1. Protocols \subseteq CeProtocols /\ Selectable = {}
    <3>1. setting \in DOMAIN Settings
      BY DEF Typed, StackTyped
    <3> QED BY <3>1 DEF OneTarget, OnlyReaders, Protocols, Selectable
  <2>2. TagProtocols \cap Protocols = {}
    BY <2>1 DEF TagProtocols, ReaderProtocols, CeProtocols
  <2>3. ~LinkUp
    BY DEF LinkUp, CeOnly
  <2>4. CASE OnLink
    <3>1. rf' = rf
      BY <2>4 DEF OnLink, RemoteConnects, SendData, RemoteAnswers, RemoteAccepts,
                  RemoteCloses, SdpAnswer
    <3> QED BY <3>1 DEF CeOnly
  <2>5. CASE \E p \in Protocols : PresentTag(p) \/ StartEmulation(p)
    BY <2>2, <2>5 DEF PresentTag, StartEmulation, CeOnly
  <2>6. CASE SendApdu \/ TagAnswers \/ TagLost \/ EndEmulation
    BY <2>6 DEF SendApdu, TagAnswers, TagLost, EndEmulation, CeOnly
  <2> QED BY <1>7, <2>1, <2>4, <2>5, <2>6 DEF TesterActs, Tester
<1> QED BY <1>4, <1>5, <1>6, <1>7 DEF Next, NobodySelects

(* Where card emulation was enabled, a radio that stopped is to be started *)
(* again.                                                                  *)
Resumes ==
  Live /\ rf = "stopped" =>
    Restarts \/ (~Started("app") /\ ~sPrevdiscCfgParams.enableCE)

LEMMA PrevSaved ==
  ASSUME NobodySelects, [Next]_vars, ~Started("app")
  PROVE  sPrevdiscCfgParams' = sPrevdiscCfgParams
<1>1. ~SavePrev
  BY DEF SavePrev, At, Started, Late
<1>2. CASE Handler
  BY <1>2 DEF Handler, HandlerPull, CheckEot, Eot, SendLast, HcePull, UiccPull, SaveConn,
              SaveClSap, dtaVars, appVars
<1>3. CASE AppEnable \/ AppDisable \/ App
  BY <1>1, <1>3 DEF AppEnable, AppDisable, App, Enable, AppReturns, dtaVars, appVars
<1>4. CASE StackThread \/ TesterActs \/ UNCHANGED vars
  BY <1>4 DEF StackThread, TesterActs, vars, dtaVars, appVars
<1> QED BY <1>2, <1>3, <1>4 DEF Next, NobodySelects

LEMMA ResumesKept ==
  ASSUME StackAssumption, MwIfAssumption, DtaAssumption, StartAccepted, NobodySelects,
         Typed, Typed', AppIdle, Served, AppCalls, CeOnly, Resumes, [Next]_vars
  PROVE  Resumes'
<1> SUFFICES ASSUME Live', rf' = "stopped", ~Restarts'
             PROVE  ~Started("app")' /\ ~sPrevdiscCfgParams'.enableCE
  BY DEF Resumes
<1>1. Live
  BY LiveBefore
<1>2. rf = "stopped"
  BY <1>1, NewlyStopped DEF CeOnly
<1>3. ~Restarts
  BY <1>2, RestartsKept
<1>4. ~Started("app") /\ ~sPrevdiscCfgParams.enableCE
  BY <1>1, <1>2, <1>3 DEF Resumes
<1> QED BY <1>2, <1>4, AppNotStarted, PrevSaved

-----------------------------------------------------------------------------
(* When everything has settled.                                            *)

LEMMA QuietIsStill ==
  ASSUME DtaAssumption, Typed, Quiet
  PROVE  ~CeComing /\ ~StopComing /\ ~Restarts /\ nfaOut = <<>>
<1>1. "handler" \in Threads
  BY DEF DtaAssumption
<1>2. ~Busy("handler")
  <2>1. CASE At("handler", "Exited")
    <3>1. calls["handler"] \in CallsOf(StepsOf("handler")) /\ calls["handler"] # <<>>
          /\ Step("handler") = "Exited"
      BY <1>1, <2>1 DEF At, Busy, Typed, ControlTyped, CallsTyped
    <3>2. Step("handler") \in StepsOf("handler")
      BY <2>1, <1>1, StepIs DEF At, Typed
    <3> QED BY <3>1, <3>2 DEF StepsOf, DiscoverySteps, TestSteps, LinkSteps, Pulls, Eots,
                              ListenSteps, Stops
  <2> QED BY <1>1, <2>1 DEF Quiet
<1>3. ~StopComing /\ ~StartComing
  <2>1. calls["handler"] = <<>> BY <1>2 DEF Busy
  <2>2. ~\E i \in 1 .. Len(calls["handler"]) : TRUE BY <2>1
  <2> QED BY <2>2 DEF StopComing, StartComing, Will
<1>4. Coming = {}
  BY DEF Quiet, CallbackIdle, Coming, ToDta
<1> QED BY <1>3, <1>4 DEF Quiet, Restarts, CeComing

(* Where several targets never answer together, the integration thread     *)
(* sleeps.                                                                 *)
Sleeper == pvSemIntgrnThrd = 0 /\ \A t \in Integrator : ~Busy(t)

LEMMA SleeperActsNot ==
  ASSUME Sleeper
  PROVE  NobodySelects
BY DEF Sleeper, NobodySelects, Integration, IntegrationWake, IntegrationRestart, CallStep, At

LEMMA SleeperKept ==
  ASSUME StackAssumption, MwIfAssumption, DtaAssumption, OneTarget, Typed, Sleeper, [Next]_vars
  PROVE  Sleeper'
<1>1. NobodySelects
  BY SleeperActsNot
<1>2. /\ "app" \in Threads /\ "handler" \in Threads
      /\ calls \in [Threads -> CallsOf(Steps)]
      /\ \A t \in Integrator : t \in Threads \ {"handler"} /\ t # "app"
  BY DEF DtaAssumption, Typed, ControlTyped, CallsTyped, Integrator
<1>3. SUFFICES pvSemIntgrnThrd' = pvSemIntgrnThrd
               /\ \A t \in Integrator : calls'[t] = calls[t]
  BY DEF Sleeper, Busy
<1>4. CASE Handler
  <2>1. \A t \in Integrator : calls'[t] = calls[t]
    BY <1>2, <1>4, HandlerAlone
  <2>2. CASE (CallStep("handler") \/ LlcpStep) /\ UNCHANGED dtaVars
    <3>1. MwEffect("handler")
      BY <1>2, <2>2, CallStepEffect, IssueLlcpEffect DEF LlcpStep, dtaVars, appVars
    <3> QED BY <2>1, <3>1 DEF MwEffect
  <2>3. CASE ~((CallStep("handler") \/ LlcpStep) /\ UNCHANGED dtaVars)
    BY <1>4, <2>1, <2>3 DEF Handler, HandlerPull, CheckEot, Eot, SendLast, HcePull, UiccPull,
                            SaveConn, SaveClSap, mwVars
  <2> QED BY <2>2, <2>3
<1>5. CASE Callback
  <2> DEFINE e == Head(nfaOut)
  <2>1. e \in Events
    BY <1>5, HeadTailProperties DEF Callback, Typed, StackTyped
  <2>2. e.type # "DISC_RESULT"
    BY <2>1 DEF Events, Begins, Selected, Ends, PlainEvents, Results, PlainTypes, LocalTypes,
                TagReplies
  <2>3. e # Event("DISC_RESULT", "last")
    BY <2>2 DEF Event
  <2> QED BY <1>5, <2>3 DEF Callback, threadVars
<1>6. CASE CallStep("app") /\ UNCHANGED dtaVars
  <2>1. MwEffect("app") /\ \A u \in Threads \ {"app"} : calls'[u] = calls[u]
    BY <1>2, <1>6, CallStepTyped
  <2> QED BY <1>2, <2>1 DEF MwEffect
<1>7. CASE AppEnable \/ AppDisable \/ Enable \/ SavePrev \/ AppReturns
  BY <1>2, <1>7 DEF AppEnable, AppDisable, Enable, SavePrev, AppReturns, Proceed, mwVars,
                    threadVars
<1>8. CASE CallbackPush \/ TesterActs \/ UNCHANGED vars
  BY <1>8 DEF CallbackPush, TesterActs, mwVars, threadVars, vars
<1> QED BY <1>1, <1>4, <1>5, <1>6, <1>7, <1>8 DEF Next, NobodySelects, App, StackThread

LEMMA InitStopped ==
  ASSUME StackAssumption, MwIfAssumption, DtaAssumption, Init
  PROVE  ContactsKept /\ AppCalls /\ Starting /\ StoppedSeen /\ CeOnly /\ Resumes /\ Sleeper
<1>1. ContactsKept
  BY InitKept
<1>2. AppCalls /\ Starting
  BY DEF Init, AppCalls, Starting
<1>3. calls["app"] = <<>> /\ calls["handler"] = <<>>
  BY DEF Init, MwInit, DtaAssumption
<1>4. ~Started("app") /\ ~Started("handler")
  BY <1>3 DEF Started, Busy
<1>5. WillBeIdle
  BY DEF Init, StackInit, MwInit, WillBeIdle
<1>6. ~sPrevdiscCfgParams.enableCE
  BY DEF Init, NoConfig
<1>7. CeOnly
  BY DEF Init, StackInit, CeOnly
<1>8. Sleeper
  BY DEF Init, MwInit, Sleeper, Integrator, Busy
<1> QED BY <1>1, <1>2, <1>4, <1>5, <1>6, <1>7, <1>8 DEF StoppedSeen, Resumes

(* A radio that stopped is not taken for a running one when everything has *)
(* settled, until the application disables discovery, for any tags, peers, *)
(* readers and configurations and however late answers come, if the tester *)
(* waits for discovery to be enabled and never lets several targets answer *)
(* together, and the stack never refuses the commands that stop and start  *)
(* discovery.  A radio that stopped is to be started again, or the event   *)
(* that tells of the stop is the last to reach eDeviceState and no call is *)
(* about to overwrite what it says.                                        *)
THEOREM StopsAreKnown ==
  EndsAccepted /\ StartAccepted /\ ~EarlyTester /\ OneTarget =>
    (Spec => []StoppedIsKnown)
<1> USE StackAssumption, MwIfAssumption, DtaAssumption
<1> DEFINE Inv == ContactsKept /\ Sleeper /\ AppCalls /\ Starting /\ StoppedSeen
<1> SUFFICES ASSUME EndsAccepted, StartAccepted, ~EarlyTester, OneTarget
             PROVE  Spec => []StoppedIsKnown
  OBVIOUS
<1>1. Init => Inv
  BY InitStopped
<1>2. Inv /\ [Next]_vars => Inv'
  <2> SUFFICES ASSUME Inv, [Next]_vars PROVE Inv'
    OBVIOUS
  <2>1. ContactsKept'
    BY NextKept
  <2>2. Typed /\ Typed' /\ AppIdle /\ Off /\ Served /\ NobodySelects
    BY <2>1, SleeperActsNot DEF ContactsKept
  <2>3. Sleeper' BY <2>2, SleeperKept
  <2>4. AppCalls' BY <2>2, AppCallsKept
  <2>5. Starting' BY <2>2, StartingKept
  <2>6. StoppedSeen' BY <2>2, StoppedSeenKept
  <2> QED BY <2>1, <2>3, <2>4, <2>5, <2>6
<1>3. Inv => StoppedIsKnown
  <2> SUFFICES ASSUME Inv, Quiet, appState = "on", rf = "stopped" PROVE eDeviceState = "IDLE"
    BY DEF StoppedIsKnown
  <2>1. ~Restarts /\ nfaOut = <<>>
    BY QuietIsStill DEF ContactsKept
  <2>2. WillBeIdle
    BY <2>1 DEF StoppedSeen, Live
  <2> QED BY <2>1, <2>2 DEF WillBeIdle
<1> QED BY <1>1, <1>2, <1>3, PTL DEF Spec

(* Card emulation is served again and again, for any configurations, any   *)
(* number of contacts and APDUs, any lengths of the queues, however late   *)
(* answers come and although a reader may come before discovery is fully   *)
(* enabled, if the tester presents only readers and the stack never        *)
(* refuses the commands that stop and start discovery: whoever stopped the *)
(* radio, the handler has a start left or the event of an emulation is     *)
(* coming that makes it stop and start.                                    *)
THEOREM EmulationResumes ==
  EndsAccepted /\ StartAccepted /\ OneTarget /\ OnlyReaders =>
    (Spec => []DiscoveryResumes)
<1> USE StackAssumption, MwIfAssumption, DtaAssumption
<1> DEFINE Inv == ContactsKept /\ Sleeper /\ AppCalls /\ CeOnly /\ Resumes
<1> SUFFICES ASSUME EndsAccepted, StartAccepted, OneTarget, OnlyReaders
             PROVE  Spec => []DiscoveryResumes
  OBVIOUS
<1>1. Init => Inv
  BY InitStopped
<1>2. Inv /\ [Next]_vars => Inv'
  <2> SUFFICES ASSUME Inv, [Next]_vars PROVE Inv'
    OBVIOUS
  <2>1. ContactsKept'
    BY NextKept
  <2>2. Typed /\ Typed' /\ AppIdle /\ Off /\ Served /\ NobodySelects
    BY <2>1, SleeperActsNot DEF ContactsKept
  <2>3. Sleeper' BY <2>2, SleeperKept
  <2>4. AppCalls' BY <2>2, AppCallsKept
  <2>5. CeOnly' BY <2>2, CeOnlyKept
  <2>6. Resumes' BY <2>2, ResumesKept
  <2> QED BY <2>1, <2>3, <2>4, <2>5, <2>6
<1>3. Inv => DiscoveryResumes
  <2> SUFFICES ASSUME Inv, Quiet, appState = "on", sPrevdiscCfgParams.enableCE
               PROVE  rf = "discovering"
    BY DEF DiscoveryResumes
  <2>1. ~CeComing /\ ~StopComing /\ ~Restarts
    BY QuietIsStill DEF ContactsKept
  <2>2. rf # "emulating"
    BY <2>1 DEF ContactsKept, Served
  <2>3. rf # "stopped"
    BY <2>1 DEF Resumes, Live
  <2> QED BY <2>2, <2>3 DEF CeOnly
<1> QED BY <1>1, <1>2, <1>3, PTL DEF Spec

-----------------------------------------------------------------------------
(* A tag that is put to sleep is deactivated after it.                     *)

SleepEnds(c) ==
  \A i \in 1 .. Len(c) : \A j \in 1 .. Len(c[i]) :
    c[i][j] = "DeactivateSleep" => \E k \in i + 1 .. Len(c) : c[k][1] = "Deactivate"

LEMMA NeverSleeps ==
  ASSUME NEW S, "DeactivateSleep" \notin S, NEW c \in CallsOf(S)
  PROVE  SleepEnds(c)
BY CallFacts DEF SleepEnds

LEMMA TailSleepEnds ==
  ASSUME NEW S, NEW c \in CallsOf(S), c # <<>>, SleepEnds(c)
  PROVE  SleepEnds(Tail(c))
<1> DEFINE q == Tail(c)
           n == Len(c)
<1>1. n \in Nat /\ Len(q) = n - 1 /\ \A i \in 1 .. n - 1 : q[i] = c[i + 1]
  BY CallFacts, TailFacts
<1> HIDE DEF q
<1> SUFFICES ASSUME NEW i \in 1 .. n - 1, NEW j \in 1 .. Len(q[i]), q[i][j] = "DeactivateSleep"
             PROVE  \E k \in i + 1 .. n - 1 : q[k][1] = "Deactivate"
  BY <1>1 DEF SleepEnds, q
<1>2. i + 1 \in 1 .. n /\ j \in 1 .. Len(c[i + 1]) /\ c[i + 1][j] = "DeactivateSleep"
  BY <1>1
<1>3. PICK k \in (i + 1) + 1 .. n : c[k][1] = "Deactivate"
  BY <1>2 DEF SleepEnds
<1>4. k - 1 \in i + 1 .. n - 1 /\ k - 1 \in 1 .. n - 1 /\ (k - 1) + 1 = k
  BY <1>1, <1>3
<1> QED BY <1>1, <1>3, <1>4

(* What takes the place of a step puts nothing to sleep.                   *)
LEMMA PushedSleepEnds ==
  ASSUME NEW S, NEW c \in CallsOf(S), c # <<>>, SleepEnds(c), NEW s \in Seq(S),
         \A j \in 1 .. Len(s) : s[j] # "DeactivateSleep"
  PROVE  SleepEnds(Pushed(c, s))
<1> DEFINE d == Rest(c, s)
           b == Pushed(c, s)
           n == Len(c)
           m == Len(s)
           p == Len(c[1])
<1>1. /\ m \in Nat /\ Len(d) = m + p - 1
      /\ \A j \in 1 .. m : d[j] = s[j]
      /\ \A j \in m + 1 .. m + p - 1 : d[j] = c[1][j - m + 1]
  <2>1. d \in Seq(S) /\ RestIs(d, c, s) BY RestFacts
  <2> QED BY <2>1 DEF RestIs
<1>2. n \in Nat \ {0} /\ p \in Nat \ {0} /\ 1 \in 1 .. n
  <2>1. Len(c) \in Nat /\ Len(c) > 0 /\ 1 \in DOMAIN c /\ Len(c[1]) \in Nat \ {0}
    BY CallFacts
  <2> QED BY <2>1
<1>3. /\ d # <<>> => Len(b) = n /\ b[1] = d /\ \A i \in 2 .. n : b[i] = c[i]
      /\ d = <<>> => b = Tail(c)
  BY PushedKeeps DEF Pushed
<1> HIDE DEF d, b, m, p
<1>4. CASE d = <<>>
  BY <1>3, <1>4, TailSleepEnds DEF b
<1>5. CASE d # <<>>
  <2> SUFFICES ASSUME NEW i \in 1 .. n, NEW j \in 1 .. Len(b[i]), b[i][j] = "DeactivateSleep"
               PROVE  \E k \in i + 1 .. n : b[k][1] = "Deactivate"
    BY <1>3, <1>5 DEF SleepEnds, b
  <2>1. \E k \in i + 1 .. n : c[k][1] = "Deactivate"
    <3>1. CASE i = 1
      <4>1. j \in 1 .. m + p - 1 /\ d[j] = "DeactivateSleep"
        BY <1>1, <1>3, <1>5, <3>1
      <4>2. j \in m + 1 .. m + p - 1
        <5>1. j \in 1 .. m \/ j \in m + 1 .. m + p - 1 BY <1>1, <1>2, <4>1
        <5> QED BY <1>1, <4>1, <5>1 DEF m
      <4>3. j - m + 1 \in 1 .. p /\ c[1][j - m + 1] = "DeactivateSleep"
        BY <1>1, <1>2, <4>1, <4>2
      <4> QED BY <1>2, <3>1, <4>3 DEF SleepEnds, p
    <3>2. CASE i # 1
      <4>1. i \in 2 .. n BY <1>2, <3>2
      <4> QED BY <1>3, <1>5, <4>1 DEF SleepEnds
    <3> QED BY <3>1, <3>2
  <2>2. \A k \in i + 1 .. n : k \in 2 .. n
    BY <1>2
  <2> QED BY <1>3, <1>5, <2>1, <2>2
<1> QED BY <1>4, <1>5

LEMMA ConsSleepEnds ==
  ASSUME NEW S, NEW c \in CallsOf(S), SleepEnds(c), NEW d \in Seq(S), d # <<>>,
         \A j \in 1 .. Len(d) : d[j] # "DeactivateSleep"
  PROVE  SleepEnds(<<d>> \o c)
<1> DEFINE b == <<d>> \o c
           n == Len(c)
<1>1. n \in Nat /\ Len(b) = n + 1 /\ b[1] = d /\ \A i \in 2 .. n + 1 : b[i] = c[i - 1]
  BY CallFacts, ConsFacts
<1> HIDE DEF b
<1> SUFFICES ASSUME NEW i \in 1 .. n + 1, NEW j \in 1 .. Len(b[i]), b[i][j] = "DeactivateSleep"
             PROVE  \E k \in i + 1 .. n + 1 : b[k][1] = "Deactivate"
  BY <1>1 DEF SleepEnds, b
<1>2. i \in 2 .. n + 1
  <2>1. i # 1 BY <1>1
  <2> QED BY <1>1, <2>1
<1>3. i - 1 \in 1 .. n /\ j \in 1 .. Len(c[i - 1]) /\ c[i - 1][j] = "DeactivateSleep"
  BY <1>1, <1>2
<1>4. PICK k \in (i - 1) + 1 .. n : c[k][1] = "Deactivate"
  BY <1>3 DEF SleepEnds
<1>5. k + 1 \in i + 1 .. n + 1 /\ k + 1 \in 2 .. n + 1 /\ (k + 1) - 1 = k
  BY <1>1, <1>2, <1>4
<1> QED BY <1>1, <1>4, <1>5

LEMMA ConcatSleepEnds ==
  ASSUME NEW S, NEW c \in CallsOf(S), NEW T, NEW b \in CallsOf(T), SleepEnds(c), SleepEnds(b)
  PROVE  SleepEnds(c \o b)
<1> DEFINE q == c \o b
           m == Len(c)
           n == Len(b)
<1>1. /\ m \in Nat /\ n \in Nat /\ Len(q) = m + n
      /\ \A i \in 1 .. m : q[i] = c[i]
      /\ \A i \in 1 .. n : q[m + i] = b[i]
  BY ConcatCalls
<1> HIDE DEF q, m, n
<1> SUFFICES ASSUME NEW i \in 1 .. m + n, NEW j \in 1 .. Len(q[i]), q[i][j] = "DeactivateSleep"
             PROVE  \E k \in i + 1 .. m + n : q[k][1] = "Deactivate"
  BY <1>1 DEF SleepEnds, q
<1>2. CASE i \in 1 .. m
  <2>1. PICK k \in i + 1 .. m : c[k][1] = "Deactivate"
    BY <1>1, <1>2 DEF SleepEnds, m
  <2>2. k \in 1 .. m /\ k \in i + 1 .. m + n
    BY <1>1, <1>2, <2>1
  <2> QED BY <1>1, <2>1, <2>2
<1>3. CASE i \notin 1 .. m
  <2>1. i - m \in 1 .. n /\ m + (i - m) = i
    BY <1>1, <1>3
  <2>2. q[i] = b[i - m]
    BY <1>1, <2>1
  <2>3. PICK k \in (i - m) + 1 .. n : b[k][1] = "Deactivate"
    BY <2>1, <2>2 DEF SleepEnds, n
  <2>4. k \in 1 .. n /\ m + k \in i + 1 .. m + n
    BY <1>1, <2>1, <2>3
  <2> QED BY <1>1, <2>3, <2>4
<1> QED BY <1>2, <1>3

-----------------------------------------------------------------------------
(* The handler's rounds: a Type 2 tag is put to sleep and deactivated.     *)

LEMMA T2TSleepEnds ==
  ASSUME NEW ops \in T2TOperations
  PROVE  ops \in CallsOf(TestSteps) /\ SleepEnds(ops)
<1> DEFINE S == AwakeSteps
           T == Seq(S) \ {<<>>}
           e == << <<"DeactivateSleep">>, <<"Deactivate">> >>
<1>1. {"T2tRead", "T2tWrite", "T2tSectorSelect", "CheckActive", "SendRawFrame"} \subseteq S
  BY DEF AwakeSteps, TestSteps
<1> HIDE DEF S
<1>2. <<"T2tRead">> \in T /\ <<"T2tRead", "T2tWrite">> \in T
      /\ <<"T2tRead", "T2tSectorSelect", "CheckActive", "SendRawFrame">> \in T
  BY <1>1
<1> HIDE DEF T
<1>3. PICK b \in { <<>>, << <<"T2tRead">> >>, << <<"T2tRead", "T2tWrite">> >>,
                   << <<"T2tRead", "T2tSectorSelect", "CheckActive", "SendRawFrame">> >> } :
         ops = b \o e
  BY DEF T2TOperations
<1>4. b \in CallsOf(AwakeSteps)
  BY <1>2, <1>3, Tuples DEF CallsOf, S, T
<1>5. SleepEnds(b)
  BY <1>4, NeverSleeps DEF AwakeSteps
<1>6. e \in CallsOf(StepsOf("handler")) BY EndCalls
<1>7. SleepEnds(e)
  <2>1. Len(e) = 2 /\ e[1] = <<"DeactivateSleep">> /\ e[2] = <<"Deactivate">>
    OBVIOUS
  <2>2. Len(e[2]) = 1 /\ e[2][1] = "Deactivate" BY <2>1
  <2> HIDE DEF e
  <2> QED BY <2>1, <2>2 DEF SleepEnds
<1> HIDE DEF e
<1> QED BY <1>3, <1>4, <1>5, <1>6, <1>7, ConcatSleepEnds, T2TOperationsTyped

LEMMA ContactSleepEnds ==
  ASSUME DtaAssumption, StackTyped, NEW p \in ReaderProtocols \cup CeProtocols,
         NEW round \in ContactRounds(p)
  PROVE  SleepEnds(round)
<1> DEFINE q == IF p = "T2T" THEN StartAgain ELSE StopAndStart
<1>1. q \in CallsOf(DiscoverySteps)
  BY DiscoveryCalls DEF StartAgain
<1>2. PICK ops \in Operations(p) : round = ops \o q
  BY DEF ContactRounds
<1> HIDE DEF q
<1>3. SleepEnds(q)
  BY <1>1, NeverSleeps DEF DiscoverySteps, ListenSteps
<1>4. \E S : ops \in CallsOf(S) /\ SleepEnds(ops)
  <2>1. CASE p = "T2T"
    <3>1. ops \in T2TOperations BY <1>2, <2>1 DEF Operations
    <3> QED BY <3>1, T2TSleepEnds
  <2>2. CASE p \in ReaderProtocols \ {"T2T"}
    <3>1. ops \in CallsOf(AwakeSteps) BY <1>2, <2>2, AwakeOperations
    <3> QED BY <3>1, NeverSleeps DEF AwakeSteps
  <2>3. CASE p \in CeProtocols
    <3>1. \E x \in Pulls : ops = << <<x>> >>
      BY <1>2, <2>3 DEF Operations, CeProtocols, Pulls
    <3>2. \A x \in Pulls : << <<x>> >> \in CallsOf(Pulls)
      <4> DEFINE P == Pulls
      <4>1. \A x \in P : <<x>> \in Seq(P) /\ <<x>> # <<>> OBVIOUS
      <4> HIDE DEF P
      <4>2. \A x \in P : << <<x>> >> \in CallsOf(P) BY <4>1, OneCall
      <4> QED BY <4>2 DEF P
    <3> QED BY <3>1, <3>2, NeverSleeps DEF Pulls
  <2> QED BY <2>1, <2>2, <2>3
<1> QED BY <1>1, <1>2, <1>3, <1>4, ConcatSleepEnds

LEMMA RoundsSleepEnds ==
  ASSUME DtaAssumption, StackTyped, NEW e \in DtaEvents, NEW round \in Rounds(e)
  PROVE  SleepEnds(round)
<1>1. CASE Serves(e)
  <2>1. e.detail \in ReaderProtocols \cup CeProtocols
    BY <1>1 DEF Serves, DtaEvents, Events, Begins, Selected, Ends, PlainEvents, Results, PlainTypes,
                LocalTypes, TagReplies
  <2>2. round \in ContactRounds(e.detail)
    BY <1>1 DEF Rounds, ContactRounds, Serves
  <2> QED BY <2>1, <2>2, ContactSleepEnds
<1>2. CASE ~Serves(e)
  <2>1. \/ round = StopAndStart \/ round = <<>>
        \/ round \in LlcpOperations \cup {LlcpHandleCoClientDisconnect} \cup LlcpConnLessOperations
    BY <1>2 DEF Rounds
  <2>2. CASE round = StopAndStart
    BY <2>2, DiscoveryCalls, NeverSleeps DEF DiscoverySteps, ListenSteps
  <2>3. CASE round \in LlcpOperations \cup {LlcpHandleCoClientDisconnect} \cup LlcpConnLessOperations
    <3>1. PICK d \in { <<"AcceptConn", "Connect", "SaveConn">>,
                     <<"AcceptConn", "GetRemoteSap", "Connect", "SaveConn">>,
                     <<"P2pDisconnect">>, <<"ReadUi", "GetRemoteSap", "SaveClSap">>,
                     <<"ReadUi", "SendUi">> } : round = << d >>
      BY <2>3, LinkTuples
         DEF LlcpOperations, LlcpHandleCoClientDisconnect, LlcpConnLessOperations
    <3> DEFINE S == LinkSteps
    <3>2. {"AcceptConn", "Connect", "SaveConn", "GetRemoteSap", "P2pDisconnect", "ReadUi",
           "SaveClSap", "SendUi"} \subseteq S
      BY DEF LinkSteps
    <3> HIDE DEF S
    <3>3. d \in Seq(S) /\ d # <<>>
      <4>1. /\ \A a \in S : <<a>> \in Seq(S) /\ <<a>> # <<>>
            /\ \A a, b \in S : <<a, b>> \in Seq(S) /\ <<a, b>> # <<>>
            /\ \A a, b, c \in S : <<a, b, c>> \in Seq(S) /\ <<a, b, c>> # <<>>
            /\ \A a, b, c, f \in S : <<a, b, c, f>> \in Seq(S) /\ <<a, b, c, f>> # <<>>
        BY Tuples
      <4>2. CASE d = <<"AcceptConn", "Connect", "SaveConn">> BY <3>2, <4>1, <4>2
      <4>3. CASE d = <<"AcceptConn", "GetRemoteSap", "Connect", "SaveConn">>
        BY <3>2, <4>1, <4>3
      <4>4. CASE d = <<"P2pDisconnect">> BY <3>2, <4>1, <4>4
      <4>5. CASE d = <<"ReadUi", "GetRemoteSap", "SaveClSap">> BY <3>2, <4>1, <4>5
      <4>6. CASE d = <<"ReadUi", "SendUi">> BY <3>2, <4>1, <4>6
      <4> QED BY <3>1, <4>2, <4>3, <4>4, <4>5, <4>6
    <3>4. << d >> \in CallsOf(S) BY <3>3, OneCall
    <3> QED BY <3>1, <3>4, NeverSleeps DEF S, LinkSteps
  <2>4. SleepEnds(<<>>) BY DEF SleepEnds
  <2> QED BY <2>1, <2>2, <2>3, <2>4
<1> QED BY <1>1, <1>2

-----------------------------------------------------------------------------
(* The handler puts a tag to sleep only in calls that deactivate it after, *)
(* and while it is asleep that call is to come.                            *)

Asleep == /\ SleepEnds(calls["handler"])
          /\ rf = "asleep" => Will({"Deactivate"})

LEMMA FillingAwake ==
  ASSUME NEW step, NEW s \in Filling(step)
  PROVE  \A j \in 1 .. Len(s) : s[j] # "DeactivateSleep"
<1>1. CASE step = "DiscoveryStop"
  <2>1. s = <<"Flush">> \/ s = <<"StopRfDiscovery">> BY <1>1 DEF Filling
  <2>2. CASE s = <<"Flush">> BY <2>2
  <2>3. CASE s = <<"StopRfDiscovery">> BY <2>3
  <2> QED BY <2>1, <2>2, <2>3
<1>2. CASE step \in {"DiscoveryConfig", "DisableCe"}
  <2>1. s \in Seq(ListenSteps) BY <1>2 DEF Filling
  <2> DEFINE S == ListenSteps
  <2>2. "DeactivateSleep" \notin S BY DEF ListenSteps
  <2> HIDE DEF S
  <2>3. s \in Seq(S) BY <2>1 DEF S
  <2> QED BY <2>2, <2>3
<1>3. CASE step = "EeGetInfo"
  <2>1. s = <<>> \/ s = <<"EeModeSet">> BY <1>3 DEF Filling
  <2>2. CASE s = <<>> BY <2>2
  <2>3. CASE s = <<"EeModeSet">> BY <2>3
  <2> QED BY <2>1, <2>2, <2>3
<1>4. CASE step \notin {"DiscoveryStop", "DiscoveryConfig", "DisableCe", "EeGetInfo"}
  <2>1. s = <<>> BY <1>4, PlainFilling
  <2> QED BY <2>1
<1> QED BY <1>1, <1>2, <1>3, <1>4

LEMMA CallSleepEnds ==
  ASSUME DtaAssumption, Typed, CallEffect("handler"), SleepEnds(calls["handler"])
  PROVE  SleepEnds(calls["handler"])'
<1>1. Busy("handler") /\ "handler" \in Threads
  BY DEF CallEffect, DtaAssumption
<1>2. /\ calls["handler"] \in CallsOf(StepsOf("handler")) /\ calls["handler"] # <<>>
      /\ Step("handler") = calls["handler"][1][1] /\ Step("handler") \in StepsOf("handler")
  BY <1>1, StepIs DEF Typed
<1>3. calls \in [Threads -> CallsOf(Steps)]
  BY DEF Typed, ControlTyped, CallsTyped
<1>4. CASE UNCHANGED calls BY <1>4 DEF SleepEnds
<1>5. CASE Popped("handler")
  <2>1. calls'["handler"] = Tail(calls["handler"]) BY <1>1, <1>3, <1>5 DEF Popped
  <2>2. SleepEnds(Tail(calls["handler"])) BY <1>2, TailSleepEnds
  <2> QED BY <2>1, <2>2 DEF SleepEnds
<1>6. ASSUME NEW s \in Filling(Step("handler")), Moved("handler", s)
      PROVE  SleepEnds(calls["handler"])'
  <2>1. s \in Seq(StepsOf("handler")) BY <1>2, <1>6, FillingFits
  <2>2. \A j \in 1 .. Len(s) : s[j] # "DeactivateSleep" BY <1>6, FillingAwake
  <2>3. calls'["handler"] = Pushed(calls["handler"], s) BY <1>1, <1>3, <1>6 DEF Moved
  <2>4. SleepEnds(Pushed(calls["handler"], s)) BY <1>2, <2>1, <2>2, PushedSleepEnds
  <2> QED BY <2>3, <2>4 DEF SleepEnds
<1> QED BY <1>4, <1>5, <1>6 DEF CallEffect, Stays, Commands, Waits, Goes, Entered

(* A step of the handler's call: only a command changes the contact.       *)
LEMMA CallAsleep ==
  ASSUME DtaAssumption, Typed, EndsAccepted, CallEffect("handler"), Asleep
  PROVE  Asleep'
<1> DEFINE X == {"Deactivate"}
<1>1. SleepEnds(calls["handler"])'
  BY CallSleepEnds DEF Asleep
<1>2. ASSUME rf' = "asleep" PROVE Will(X)'
  <2>1. /\ calls["handler"] \in CallsOf(StepsOf("handler")) /\ calls["handler"] # <<>>
        /\ Step("handler") = calls["handler"][1][1]
    BY StepIs DEF Typed, CallEffect, DtaAssumption
  <2>2. CASE rf = "asleep"
    <3>1. Will(X) BY <2>2 DEF Asleep
    <3>2. /\ X \subseteq EndSteps \cup {"StartRfDiscovery"}
          /\ X \cap MayRefuse \subseteq {"DiscoveryStop"} /\ "DiscoveryStop" \notin X
          /\ "DiscoveryStop" \in X => "StopRfDiscovery" \in X
      BY DEF EndSteps, EndsAccepted
    <3> HIDE DEF X
    <3>3. \/ Will(X)'
          \/ Commands("handler") /\ Step("handler") \in X
          \/ "DiscoveryStop" \in X /\ Keeps /\ eDeviceState = "IDLE"
      BY <3>1, <3>2, CallWill
    <3>4. ~(Commands("handler") /\ Step("handler") \in X)
      BY <1>2, <2>2 DEF Commands, CommandEffect, Keeps, Polls, Begun, Ended, X
    <3> QED BY <3>2, <3>3, <3>4
  <2>3. CASE rf # "asleep"
    <3>1. Commands("handler") /\ Step("handler") = "DeactivateSleep"
      BY <1>2, <2>3 DEF CallEffect, Stays, Commands, Waits, Goes, CommandEffect, Keeps, Polls,
                        Begun, Ended
    <3>2. 1 \in 1 .. Len(calls["handler"]) /\ 1 \in 1 .. Len(calls["handler"][1])
          /\ Len(calls["handler"]) \in Nat
      BY <2>1, CallFacts
    <3>3. PICK k \in 1 + 1 .. Len(calls["handler"]) : calls["handler"][k][1] = "Deactivate"
      BY <2>1, <3>1, <3>2 DEF Asleep, SleepEnds
    <3>4. k \in 1 .. Len(calls["handler"]) /\ k # 1 BY <3>2
    <3>5. UNCHANGED calls BY <3>1 DEF Commands, Entered
    <3> QED BY <3>3, <3>4, <3>5 DEF Will
  <2> QED BY <2>2, <2>3
<1> QED BY <1>1, <1>2 DEF Asleep

(* The handler goes on with the steps s in the place of one of its own.    *)
LEMMA GoesAsleep ==
  ASSUME DtaAssumption, Typed, UNCHANGED rf, NEW step, At("handler", step), step # "Deactivate",
         NEW s \in Seq(StepsOf("handler")), \A j \in 1 .. Len(s) : s[j] # "DeactivateSleep",
         calls' = [calls EXCEPT !["handler"] = Pushed(@, s)],
         Rest(calls["handler"], s) # <<>> \/ at' = [at EXCEPT !["handler"] = "run"],
         Asleep
  PROVE  Asleep'
<1> DEFINE X == {"Deactivate"}
<1>1. step \notin X OBVIOUS
<1> HIDE DEF X
<1>2. Will(X) => Will(X)'
  BY <1>1, GoesWill
<1>3. /\ calls["handler"] \in CallsOf(StepsOf("handler")) /\ calls["handler"] # <<>>
      /\ "handler" \in Threads
  BY HandlerAt
<1>4. SleepEnds(Pushed(calls["handler"], s)) BY <1>3, PushedSleepEnds DEF Asleep
<1>5. calls'["handler"] = Pushed(calls["handler"], s)
  BY <1>3 DEF Typed, ControlTyped, CallsTyped
<1> QED BY <1>2, <1>4, <1>5 DEF Asleep, X, SleepEnds

LEMMA ProceedAsleep ==
  ASSUME DtaAssumption, Typed, UNCHANGED rf, NEW step, At("handler", step), step # "Deactivate",
         Proceed("handler", <<>>), Asleep
  PROVE  Asleep'
<1>1. Moved("handler", <<>>) BY Proceeded
<1>2. <<>> \in Seq(StepsOf("handler")) /\ \A j \in 1 .. Len(<<>>) : <<>>[j] # "DeactivateSleep"
  OBVIOUS
<1> QED BY <1>1, <1>2, GoesAsleep DEF Moved

LEMMA EotAsleep ==
  ASSUME DtaAssumption, Typed, CheckEot \/ Eot, Asleep
  PROVE  Asleep'
<1>1. PICK step \in Eots : At("handler", step)
  BY DEF CheckEot, Eot, Eots
<1>2. (EndOfTest \/ Proceed("handler", <<>>)) /\ UNCHANGED rf
  BY DEF CheckEot, Eot, stackVars
<1>3. step # "Deactivate" BY DEF Eots
<1>4. CASE Proceed("handler", <<>>)
  BY <1>1, <1>2, <1>3, <1>4, ProceedAsleep
<1>5. CASE EndOfTest
  <2> DEFINE x == << <<"Deactivate">> >>
             y == << <<"DeactivateSleep">>, <<"Deactivate">> >>
  <2>0. at["handler"] = "run" /\ "handler" \in Threads
    BY <1>1, HandlerAt
  <2>1. calls'["handler"] \in {x, y} /\ at'["handler"] = "run"
    BY <1>5, <2>0 DEF EndOfTest, Typed, ControlTyped, CallsTyped
  <2>2. /\ Len(x) = 1 /\ x[1][1] = "Deactivate" /\ Len(x[1]) = 1
        /\ Len(y) = 2 /\ y[2][1] = "Deactivate" /\ Len(y[2]) = 1
    OBVIOUS
  <2> HIDE DEF x, y
  <2>3. Will({"Deactivate"})'
    <3>1. 1 \in 1 .. 1 /\ 2 \in 1 .. 2 OBVIOUS
    <3> QED BY <2>1, <2>2, <3>1 DEF Will
  <2>4. SleepEnds(x) /\ SleepEnds(y)
    BY <2>2 DEF SleepEnds
  <2> QED BY <2>1, <2>3, <2>4 DEF Asleep, SleepEnds
<1> QED BY <1>2, <1>4, <1>5

(* The waits of card emulation.                                            *)
LEMMA PullAsleep ==
  ASSUME DtaAssumption, Typed, HcePull \/ UiccPull, Asleep
  PROVE  Asleep'
<1> DEFINE c == calls["handler"]
           S == StepsOf("handler")
           x == <<"CheckActive", "SendRawFrame">>
           z == <<"CheckActive", "SendRawFrame", "HcePull">>
<1>1. PICK step \in Pulls : At("handler", step)
  BY DEF HcePull, UiccPull, Pulls
<1>2. /\ c \in CallsOf(S) /\ c # <<>>
      /\ at["handler"] = "run" /\ "handler" \in Threads /\ Busy("handler")
      /\ step \notin Ignored /\ Step("handler") = step /\ step # "Deactivate"
  BY <1>1, HandlerAt DEF Pulls, Ignored, At
<1>3. \/ Return("handler") \/ Proceed("handler", z) \/ Proceed("handler", <<>>)
      \/ calls' = [calls EXCEPT !["handler"] = << x >> \o c] /\ UNCHANGED at
      \/ UNCHANGED threadVars
  BY HandlerTuples DEF HcePull, UiccPull
<1>4. UNCHANGED rf
  BY DEF HcePull, UiccPull, stackVars
<1>5. calls \in [Threads -> CallsOf(Steps)]
  BY DEF Typed, ControlTyped, CallsTyped
<1>6. rf = "asleep" => Later({"Deactivate"})
  <2> DEFINE X == {"Deactivate"}
  <2>1. Step("handler") \notin X BY <1>2
  <2> HIDE DEF X
  <2>2. Will(X) => Later(X) BY <2>1, WillIs
  <2> QED BY <2>2 DEF Asleep, X
<1>7. CASE Return("handler")
  <2>1. Popped("handler") BY <1>2, <1>7, Returned
  <2>2. rf = "asleep" => Will({"Deactivate"})' BY <1>2, <1>6, <2>1, PoppedWill
  <2>3. calls'["handler"] = Tail(c) BY <1>2, <1>5, <2>1 DEF Popped
  <2>4. SleepEnds(Tail(c)) BY <1>2, TailSleepEnds DEF Asleep
  <2> QED BY <1>4, <2>2, <2>3, <2>4 DEF Asleep, SleepEnds
<1>8. CASE Proceed("handler", z)
  <2>1. "CheckActive" \in S /\ "SendRawFrame" \in S /\ "HcePull" \in S
    BY DEF StepsOf, TestSteps, Pulls
  <2> HIDE DEF S
  <2>2. z \in Seq(S) BY <2>1
  <2>3. Len(z) = 3 /\ z[1] = "CheckActive" /\ z[2] = "SendRawFrame" /\ z[3] = "HcePull"
    OBVIOUS
  <2>4. Moved("handler", z) BY <1>8, Proceeded
  <2> HIDE DEF z
  <2>5. \A j \in 1 .. Len(z) : z[j] \in {"CheckActive", "SendRawFrame", "HcePull"}
    BY <2>3
  <2>6. \A j \in 1 .. Len(z) : z[j] # "DeactivateSleep"
    BY <2>5
  <2> QED BY <1>1, <1>2, <1>4, <2>2, <2>4, <2>6, GoesAsleep DEF Moved, S
<1>9. CASE Proceed("handler", <<>>)
  BY <1>1, <1>2, <1>4, <1>9, ProceedAsleep
<1>10. CASE calls' = [calls EXCEPT !["handler"] = << x >> \o c] /\ UNCHANGED at
  <2> DEFINE b == << x >> \o c
             n == Len(c)
  <2>1. x \in Seq(S) /\ x # <<>>
    BY HandlerTuples, StepsWithin, SeqMonotonic
  <2>2. Len(x) = 2 /\ x[1] = "CheckActive" /\ x[2] = "SendRawFrame"
    OBVIOUS
  <2>3. calls'["handler"] = b
    BY <1>2, <1>5, <1>10
  <2> HIDE DEF x, c, S
  <2>4. \A j \in 1 .. Len(x) : x[j] # "DeactivateSleep"
    <3>1. \A j \in 1 .. 2 : j = 1 \/ j = 2 OBVIOUS
    <3> QED BY <2>2, <3>1
  <2>5. SleepEnds(c) BY DEF Asleep, c
  <2>6. SleepEnds(b) BY <1>2, <2>1, <2>4, <2>5, ConsSleepEnds
  <2>7. /\ Len(b) = n + 1 /\ \A i \in 2 .. n + 1 : b[i] = c[i - 1]
    BY <1>2, <2>1, ConsFacts
  <2>8. n \in Nat BY <1>2, CallFacts
  <2> HIDE DEF b, n
  <2>9. ASSUME rf = "asleep" PROVE Will({"Deactivate"})'
    <3>1. PICK i \in 2 .. n : c[i][1] = "Deactivate"
      BY <1>6, <2>9 DEF Later, n, c
    <3>2. i + 1 \in 2 .. n + 1 /\ i + 1 \in 1 .. n + 1 /\ (i + 1) - 1 = i /\ i + 1 # 1
      BY <2>8, <3>1
    <3>3. b[i + 1][1] = "Deactivate" BY <2>7, <3>1, <3>2
    <3> QED BY <2>3, <2>7, <3>2, <3>3 DEF Will
  <2> QED BY <1>4, <2>3, <2>6, <2>9 DEF Asleep, SleepEnds
<1>11. CASE UNCHANGED threadVars
  BY <1>4, <1>11 DEF Asleep, SleepEnds, Will, threadVars
<1> QED BY <1>3, <1>7, <1>8, <1>9, <1>10, <1>11

LEMMA HandlerAsleep ==
  ASSUME StackAssumption, MwIfAssumption, DtaAssumption, Typed, EndsAccepted, Handler, Asleep
  PROVE  Asleep'
<1>1. "handler" \in Threads
  BY DEF DtaAssumption
<1>2. ASSUME CallStep("handler") \/ LlcpStep, UNCHANGED dtaVars PROVE Asleep'
  <2>1. UNCHANGED setting
    BY <1>2 DEF dtaVars, appVars
  <2>2. CallEffect("handler")
    BY <1>1, <1>2, <2>1, CallStepEffect, IssueLlcpEffect DEF LlcpStep
  <2> QED BY <2>2, CallAsleep
<1>3. CASE HandlerPull
  <2>1. PICK round \in Rounds(Head(dtaQueue)) : calls' = [calls EXCEPT !["handler"] = round]
    BY <1>3 DEF HandlerPull
  <2>2. Head(dtaQueue) \in DtaEvents
    BY <1>3, HeadTailProperties DEF HandlerPull, Typed, MwTyped
  <2>3. SleepEnds(round) BY <2>2, RoundsSleepEnds DEF Typed
  <2>4. calls'["handler"] = round
    BY <1>1, <2>1 DEF Typed, ControlTyped, CallsTyped
  <2>5. ~Will({"Deactivate"})
    <3>1. calls["handler"] = <<>> BY <1>3 DEF HandlerPull, HandlerIdle
    <3>2. ~\E i \in 1 .. Len(calls["handler"]) : TRUE BY <3>1
    <3> QED BY <3>2 DEF Will
  <2> QED BY <1>3, <2>3, <2>4, <2>5 DEF Asleep, SleepEnds, HandlerPull, stackVars
<1>4. CASE CheckEot \/ Eot
  BY <1>4, EotAsleep
<1>5. CASE SendLast
  <2> DEFINE s == <<"SendRawFrame">>
  <2>1. /\ At("handler", "SendLast") /\ UNCHANGED rf
        /\ s \in Seq(StepsOf("handler"))
        /\ calls' = [calls EXCEPT !["handler"] = Pushed(@, s)]
        /\ Rest(calls["handler"], s) # <<>>
    BY <1>5, SendLastGoes DEF stackVars
  <2>2. \A j \in 1 .. Len(s) : s[j] # "DeactivateSleep" OBVIOUS
  <2>3. "SendLast" # "Deactivate" OBVIOUS
  <2> HIDE DEF s
  <2> QED BY <2>1, <2>2, <2>3, GoesAsleep
<1>6. CASE HcePull \/ UiccPull
  BY <1>6, PullAsleep
<1>7. CASE SaveConn \/ SaveClSap
  <2>1. PICK step \in {"SaveConn", "SaveClSap"} : At("handler", step)
    BY <1>7 DEF SaveConn, SaveClSap
  <2>2. Proceed("handler", <<>>) /\ UNCHANGED rf
    BY <1>7 DEF SaveConn, SaveClSap, stackVars
  <2> QED BY <2>1, <2>2, ProceedAsleep
<1> QED BY <1>2, <1>3, <1>4, <1>5, <1>6, <1>7 DEF Handler

(* Nobody but the handler puts a tag to sleep.                             *)
LEMMA AsleepKept ==
  ASSUME StackAssumption, MwIfAssumption, DtaAssumption, EndsAccepted, NobodySelects, Typed,
         Asleep, [Next]_vars
  PROVE  Asleep'
<1>1. CASE Handler BY <1>1, HandlerAsleep
<1>2. ASSUME rf' = "asleep" => rf = "asleep",
             calls'["handler"] = calls["handler"], at'["handler"] = at["handler"]
      PROVE  Asleep'
  BY <1>2 DEF Asleep, SleepEnds, Will
<1>3. CASE StackThread \/ UNCHANGED vars
  BY <1>2, <1>3 DEF StackThread, Callback, CallbackPush, threadVars, stackVars, vars
<1>4. CASE AppEnable \/ AppDisable \/ App
  <2>1. rf' = "asleep" => rf = "asleep"
    <3>1. CASE CallStep("app") /\ UNCHANGED dtaVars
      <4>1. CallEffect("app") /\ Busy("app")
        BY <3>1, CallStepTyped DEF DtaAssumption, CallEffect
      <4>2. Step("app") \in StepsOf("app")
        BY <4>1, StepIs DEF DtaAssumption, Typed
      <4>3. Step("app") # "DeactivateSleep"
        BY <4>2 DEF StepsOf, DiscoverySteps, ListenSteps, SetUpSteps
      <4> QED BY <4>1, <4>3 DEF CallEffect, Stays, Commands, Waits, Goes, CommandEffect, Keeps,
                                Polls, Begun, Ended
    <3>2. CASE AppEnable \/ AppDisable \/ Enable \/ SavePrev \/ AppReturns
      BY <3>2 DEF AppEnable, AppDisable, Enable, SavePrev, AppReturns, stackVars
    <3> QED BY <1>4, <3>1, <3>2 DEF App
  <2> QED BY <1>2, <1>4, <2>1, AppLeaves
<1>5. CASE TesterActs
  <2>1. rf' = "asleep" => rf = "asleep"
    BY <1>5 DEF TesterActs, Tester, PresentTag, PresentSeveral, StartEmulation, SendApdu,
       TagAnswers, TagLost, EndEmulation, OnLink, RemoteConnects, SendData, RemoteAnswers,
       RemoteAccepts, RemoteCloses, SdpAnswer
  <2> QED BY <1>2, <1>5, <2>1, TesterLeaves
<1> QED BY <1>1, <1>3, <1>4, <1>5 DEF Next, NobodySelects

(* Where several targets never answer together none is to be selected.     *)
LEMMA SelectsNot ==
  ASSUME OneTarget, Typed, NobodySelects, rf # "selecting", [Next]_vars
  PROVE  rf' # "selecting"
<1>1. \A c : Accept(c) => rf' # "selecting"
  BY DEF Accept, LocalDone, SilentDone, StartDone, StopDone, SleepDone, DeactivateDone,
         SelectDone, TagSent, stackVars
<1>2. UNCHANGED stackVars => rf' # "selecting"
  BY DEF stackVars
<1>3. \A t : CallStep(t) => rf' # "selecting"
  BY <1>1, <1>2, CallAccepts
<1>4. CASE Handler
  <2>1. CASE LlcpStep
    <3>1. UNCHANGED stackVars \/ \E c, h : AcceptOnLink(c, h)
      BY <2>1 DEF LlcpStep, IssueLlcp
    <3>2. rf' = rf
      BY <3>1 DEF AcceptOnLink, AcceptConnDone, ConnectDone, GetRemoteSapDone,
                  P2pDisconnectDone, SilentDone, stackVars
    <3> QED BY <3>2
  <2>2. CASE ~LlcpStep
    <3>1. CallStep("handler") \/ UNCHANGED stackVars
      BY <1>4, <2>2 DEF Handler, HandlerPull, CheckEot, Eot, SendLast, HcePull, UiccPull,
                        SaveConn, SaveClSap
    <3> QED BY <1>2, <1>3, <3>1
  <2> QED BY <2>1, <2>2
<1>5. CASE AppEnable \/ AppDisable \/ App
  <2>1. CallStep("app") \/ UNCHANGED stackVars
    BY <1>5 DEF AppEnable, AppDisable, App, Enable, SavePrev, AppReturns
  <2> QED BY <1>2, <1>3, <2>1
<1>6. CASE StackThread \/ UNCHANGED vars
  BY <1>6 DEF StackThread, Callback, CallbackPush, vars, stackVars
<1>7. CASE TesterActs
  <2>1. Selectable = {}
    BY DEF Typed, StackTyped, OneTarget, Selectable
  <2> QED BY <1>7, <2>1 DEF TesterActs, Tester, PresentTag, StartEmulation, SendApdu, TagAnswers,
       TagLost, EndEmulation, OnLink, RemoteConnects, SendData, RemoteAnswers,
       RemoteAccepts, RemoteCloses, SdpAnswer
<1> QED BY <1>4, <1>5, <1>6, <1>7 DEF Next, NobodySelects

-----------------------------------------------------------------------------
(* The end of a contact is on its way to the handler.                      *)

TellsEnd(e) == e.type \in {"DEACTIVATED", "CE_DEACTIVATED"}

EndReported ==
  \/ \E i \in DOMAIN nfaOut : TellsEnd(nfaOut[i])
  \/ ToDta /\ TellsEnd(cb.ev)
  \/ \E i \in DOMAIN dtaQueue : dtaQueue[i].type = "DEACTIVATED"

LEMMA EndAfter ==
  ASSUME nfaOut \in Seq(Events), NEW s \in Seq(Events), Report(s), UNCHANGED <<cb, dtaQueue>>,
         EndReported \/ \E i \in DOMAIN s : TellsEnd(s[i])
  PROVE  EndReported'
<1> DEFINE m == Len(nfaOut)
           n == Len(s)
<1>1. /\ DOMAIN nfaOut = 1 .. m /\ m \in Nat /\ DOMAIN s = 1 .. n /\ n \in Nat
      /\ DOMAIN nfaOut' = 1 .. m + n
      /\ \A i \in 1 .. m : nfaOut'[i] = nfaOut[i]
      /\ \A i \in 1 .. n : nfaOut'[m + i] = s[i]
  BY Reported
<1> HIDE DEF m, n
<1>2. /\ \A i \in 1 .. m : i \in 1 .. m + n
      /\ \A i \in 1 .. n : m + i \in 1 .. m + n
  BY <1>1
<1>3. CASE \E i \in DOMAIN s : TellsEnd(s[i])
  BY <1>1, <1>2, <1>3 DEF EndReported, TellsEnd
<1>4. CASE EndReported
  BY <1>1, <1>2, <1>4 DEF EndReported, TellsEnd, ToDta
<1> QED BY <1>3, <1>4

LEMMA RadioTells ==
  ASSUME StackTyped, RadioEffect, UNCHANGED <<cb, dtaQueue>>, EndReported
  PROVE  EndReported'
<1>1. \E s \in Seq(Events) : Report(s)
  BY PlainIsEvent DEF RadioEffect, Keeps, Polls, Begun, Ended
<1> QED BY <1>1, EndAfter DEF StackTyped

LEMMA EndPushes ==
  ASSUME NEW e, TellsEnd(e)
  PROVE  PushesOf(e) = <<"mw", "dta">> /\ DtaEvent(e).type = "DEACTIVATED"
<1>1. /\ e.type \notin {"LLCP_ACTIVATED", "LLCP_DEACTIVATED", "ACTIVATED"} /\ e.type # "DISC_RESULT"
      /\ e.type \in {"DEACTIVATED", "CE_ACTIVATED", "CE_DATA", "CE_DEACTIVATED"}
      /\ e.type \notin ServerEvents /\ e.type # "CL_DATA" /\ e.type \notin ClientEvents
  BY DEF ServerEvents, ClientEvents, TellsEnd
<1> QED BY <1>1 DEF PushesOf, Event, DtaEvent, TellsEnd

LEMMA EndCalledBack ==
  ASSUME StackTyped, Callback, EndReported
  PROVE  EndReported'
<1> DEFINE h == Head(nfaOut)
           q == Tail(nfaOut)
           n == Len(nfaOut)
<1>1. /\ nfaOut' = q /\ cb' = [ev |-> h, todo |-> PushesOf(h)] /\ dtaQueue' = dtaQueue
      /\ cb.todo = <<>>
  BY DEF Callback, CallbackIdle, queueVars
<1>2. /\ n \in Nat \ {0} /\ DOMAIN nfaOut = 1 .. n /\ h = nfaOut[1] /\ DOMAIN q = 1 .. n - 1
      /\ \A i \in 1 .. n - 1 : q[i] = nfaOut[i + 1]
  <2>1. nfaOut \in Seq(Events) /\ nfaOut # <<>>
    BY DEF StackTyped, Callback
  <2>2. q \in Seq(Events) /\ Len(q) = n - 1 /\ n \in Nat /\ n # 0 /\ DOMAIN nfaOut = 1 .. n
    BY <2>1, HeadTailProperties, LenProperties, EmptySeq
  <2> QED BY <2>1, <2>2, HeadTailProperties, LenProperties
<1>3. ~ToDta
  BY <1>1 DEF ToDta
<1>4. TellsEnd(h) => PushesOf(h) = <<"mw", "dta">>
  BY EndPushes
<1> HIDE DEF h, q, n
<1>5. CASE TellsEnd(h)
  BY <1>1, <1>4, <1>5 DEF EndReported, ToDta, TellsEnd
<1>6. ASSUME NEW i \in DOMAIN nfaOut, TellsEnd(nfaOut[i]), i # 1 PROVE EndReported'
  <2>1. i - 1 \in 1 .. n - 1 /\ (i - 1) + 1 = i BY <1>2, <1>6
  <2>2. q[i - 1] = nfaOut[i] BY <1>2, <1>6, <2>1
  <2> QED BY <1>1, <1>2, <1>6, <2>1, <2>2 DEF EndReported, TellsEnd
<1>7. CASE \E i \in DOMAIN dtaQueue : dtaQueue[i].type = "DEACTIVATED"
  BY <1>1, <1>7 DEF EndReported
<1> QED BY <1>2, <1>3, <1>5, <1>6, <1>7 DEF EndReported

LEMMA EndPushed ==
  ASSUME MwTyped, CallbackPush, EndReported
  PROVE  EndReported'
<1>1. cb \in [ev : Events \cup {NoEvent}, todo : Todos] /\ cb.todo # <<>> /\ nfaOut' = nfaOut
      /\ dtaQueue \in Seq(DtaEvents)
  BY DEF MwTyped, CallbackPush, CallbackIdle, stackVars
<1>2. DtaEvent(cb.ev) \in DtaEvents
  BY <1>1, EventTyped
<1>3. CASE Head(cb.todo) = "dta"
  <2>1. dtaQueue' = Append(dtaQueue, DtaEvent(cb.ev))
    BY <1>3 DEF CallbackPush
  <2> DEFINE n == Len(dtaQueue)
  <2>2. /\ n \in Nat /\ DOMAIN dtaQueue = 1 .. n /\ DOMAIN dtaQueue' = 1 .. n + 1
        /\ \A i \in 1 .. n : dtaQueue'[i] = dtaQueue[i]
        /\ dtaQueue'[n + 1] = DtaEvent(cb.ev)
    BY <1>1, <1>2, <2>1, AppendProperties, LenProperties
  <2> HIDE DEF n
  <2>3. n + 1 \in 1 .. n + 1 /\ \A i \in 1 .. n : i \in 1 .. n + 1
    BY <2>2
  <2>4. CASE TellsEnd(cb.ev)
    BY <2>2, <2>3, <2>4, EndPushes DEF EndReported
  <2>5. CASE \E i \in DOMAIN dtaQueue : dtaQueue[i].type = "DEACTIVATED"
    BY <2>2, <2>3, <2>5 DEF EndReported
  <2>6. CASE \E i \in DOMAIN nfaOut : TellsEnd(nfaOut[i])
    BY <1>1, <2>6 DEF EndReported, TellsEnd
  <2> QED BY <2>4, <2>5, <2>6 DEF EndReported
<1>4. CASE Head(cb.todo) # "dta"
  <2>1. dtaQueue' = dtaQueue
    BY <1>4 DEF CallbackPush
  <2>2. ToDta => ToDta' /\ cb'.ev = cb.ev
    <3>1. ToDta => cb.todo = <<"mw", "dta">>
      BY <1>1, <1>4, TodoHeads DEF ToDta
    <3>2. cb.todo = <<"mw", "dta">> => cb' = [cb EXCEPT !.todo = <<"dta">>]
      BY <1>1, TodoHeads DEF CallbackPush
    <3> QED BY <1>1, <3>1, <3>2 DEF ToDta
  <2> QED BY <1>1, <2>1, <2>2 DEF EndReported, TellsEnd
<1> QED BY <1>3, <1>4

LEMMA EndPulled ==
  ASSUME MwTyped, UNCHANGED <<nfaOut, cb>>, dtaQueue # <<>>, dtaQueue' = Tail(dtaQueue),
         Head(dtaQueue).type # "DEACTIVATED", EndReported
  PROVE  EndReported'
<1> DEFINE q == Tail(dtaQueue)
           n == Len(dtaQueue)
<1>1. /\ n \in Nat \ {0} /\ DOMAIN dtaQueue = 1 .. n /\ DOMAIN q = 1 .. n - 1
      /\ Head(dtaQueue) = dtaQueue[1]
      /\ \A i \in 1 .. n - 1 : q[i] = dtaQueue[i + 1]
  <2>1. dtaQueue \in Seq(DtaEvents)
    BY DEF MwTyped
  <2>2. q \in Seq(DtaEvents) /\ Len(q) = n - 1 /\ n \in Nat /\ n # 0 /\ DOMAIN dtaQueue = 1 .. n
    BY <2>1, HeadTailProperties, LenProperties, EmptySeq
  <2> QED BY <2>1, <2>2, HeadTailProperties, LenProperties
<1>2. dtaQueue' = q OBVIOUS
<1> HIDE DEF q, n
<1>3. ASSUME NEW i \in DOMAIN dtaQueue, dtaQueue[i].type = "DEACTIVATED" PROVE EndReported'
  <2>1. i # 1 BY <1>1, <1>3
  <2>2. i - 1 \in 1 .. n - 1 /\ (i - 1) + 1 = i BY <1>1, <1>3, <2>1
  <2>3. q[i - 1] = dtaQueue[i] BY <1>1, <1>3, <2>2
  <2> QED BY <1>1, <1>2, <1>3, <2>2, <2>3 DEF EndReported
<1> QED BY <1>3 DEF EndReported, ToDta, TellsEnd

(* In LLCP mode the handler stops and starts discovery on the event.       *)
LEMMA EndServed ==
  ASSUME DtaAssumption, Typed, Typed', llcpMode, HandlerPull,
         Head(dtaQueue).type = "DEACTIVATED"
  PROVE  Restarts'
<1>1. Rounds(Head(dtaQueue)) = {StopAndStart}
  BY DEF Rounds, Serves
<1>2. calls' = [calls EXCEPT !["handler"] = StopAndStart] /\ UNCHANGED at
  BY <1>1 DEF HandlerPull
<1>3. calls'["handler"] = StopAndStart /\ at'["handler"] = "run"
  BY <1>2 DEF DtaAssumption, HandlerPull, HandlerIdle, Busy, Typed, ControlTyped, CallsTyped
<1>4. Len(StopAndStart) = 4 /\ StopAndStart[1][1] \in Stops /\ 1 \in 1 .. 4
  BY StopAndStartShape DEF Stops
<1>5. NoEot(StopAndStart)
  <2>1. StopAndStart \in CallsOf(DiscoverySteps) BY DiscoveryCalls
  <2>2. \A i \in 1 .. Len(StopAndStart) : \A j \in 1 .. Len(StopAndStart[i]) :
          StopAndStart[i][j] \in DiscoverySteps
    BY <2>1, CallFacts
  <2> QED BY <2>2 DEF NoEot, DiscoverySteps, ListenSteps, Eots
<1>6. StopComing'
  BY <1>3, <1>4, <1>5 DEF StopComing, Will
<1> QED BY <1>6, StopWillStart DEF Restarts

LEMMA EndKept ==
  ASSUME StackAssumption, MwIfAssumption, DtaAssumption, NobodySelects, Typed, Typed',
         llcpMode, [Next]_vars, EndReported
  PROVE  EndReported' \/ Restarts'
<1>1. "handler" \in Threads
  BY DEF DtaAssumption
<1>2. ASSUME UNCHANGED <<stackVars, cb, dtaQueue>> PROVE EndReported'
  BY <1>2 DEF stackVars, EndReported, ToDta, TellsEnd
<1>3. ASSUME CallStep("handler") \/ LlcpStep, UNCHANGED dtaVars PROVE EndReported'
  <2>1. UNCHANGED setting
    BY <1>3 DEF dtaVars, appVars
  <2>2. CallEffect("handler") /\ MwEffect("handler")
    BY <1>1, <1>3, <2>1, CallStepEffect, IssueLlcpEffect DEF LlcpStep
  <2>3. RadioEffect /\ UNCHANGED <<cb, dtaQueue>>
    BY <2>2, CallRadio
  <2> QED BY <2>3, RadioTells DEF Typed
<1>4. CASE HandlerPull
  <2>1. CASE Head(dtaQueue).type = "DEACTIVATED"
    BY <1>4, <2>1, EndServed
  <2>2. CASE Head(dtaQueue).type # "DEACTIVATED"
    BY <1>4, <2>2, EndPulled DEF HandlerPull, stackVars, Typed
  <2> QED BY <2>1, <2>2
<1>5. CASE CheckEot \/ Eot \/ SendLast \/ SaveConn \/ SaveClSap
  BY <1>2, <1>5 DEF CheckEot, Eot, SendLast, SaveConn, SaveClSap, queueVars
<1>6. CASE HcePull \/ UiccPull
  BY <1>6, PullStops, StopWillStart DEF Restarts
<1>7. CASE StackThread
  BY <1>7, EndCalledBack, EndPushed DEF StackThread, Typed
<1>8. CASE AppEnable \/ AppDisable \/ App
  BY <1>8, AppLeaves, RadioTells DEF Typed
<1>9. CASE TesterActs
  BY <1>9, TesterLeaves, RadioTells DEF Typed
<1>10. CASE UNCHANGED vars
  BY <1>2, <1>10 DEF vars, queueVars
<1> QED BY <1>3, <1>4, <1>5, <1>6, <1>7, <1>8, <1>9, <1>10 DEF Next, NobodySelects, Handler

-----------------------------------------------------------------------------
(* The application sets up LLCP and the emulation on the host: nothing     *)
(* goes wrong when no command is refused whose refusal ends it, and no     *)
(* answer comes late.                                                      *)

HostSteps == {"SendNxpNci", "SetParam", "SetConfig", "RegisterClient", "SaveLlcpInit",
              "RegisterServer", "RegisterClServer", "EeRegister", "SetTechRouting",
              "SetProtoRouting", "EeUpdateNow"}

SetUpAccepted == MayRefuse \cap HostSteps \subseteq Ignored
OnHost == \A name \in DOMAIN Settings : \A cfg \in Settings[name].configs :
            cfg.enableCE => cfg.ceType \in {"HOST_CE", "INVALID_CE"}
OnTime == \A name \in DOMAIN Settings :
            TRUE \in Settings[name].llcpModes => ~Settings[name].lateAnswers

(* The mode was chosen when discovery was first enabled.                   *)
Chosen == /\ llcpMode => TRUE \in LlcpModes
          /\ appState = "off" => mwQueue = <<>>

LEMMA ModeKept ==
  ASSUME [Next]_vars, ~AppEnable
  PROVE  llcpMode' = llcpMode /\ setting' = setting
<1>1. CASE Handler
  BY <1>1 DEF Handler, HandlerPull, CheckEot, Eot, SendLast, HcePull, UiccPull, SaveConn, SaveClSap,
     dtaVars, appVars
<1>2. CASE ~Handler
  BY <1>2 DEF Next, AppDisable, App, Enable, SavePrev, AppReturns,
         StackThread, TesterActs, Integration, dtaVars, appVars, vars
<1> QED BY <1>1, <1>2

LEMMA ChosenKept ==
  ASSUME StackAssumption, MwIfAssumption, DtaAssumption, Typed, AppIdle, Off, Chosen, [Next]_vars
  PROVE  Chosen'
<1>1. CASE AppEnable
  BY <1>1 DEF AppEnable, Chosen, LlcpModes
<1>2. CASE ~AppEnable
  <2>1. llcpMode' = llcpMode /\ setting' = setting
    BY <1>2, ModeKept
  <2>2. CASE appState = "off"
    <3>1. UNCHANGED vars
      BY <1>2, <2>2, OffIsStill
    <3>2. mwQueue' = mwQueue /\ appState' = appState
      BY <3>1 DEF vars, queueVars, dtaVars, appVars
    <3> QED BY <2>1, <3>2 DEF Chosen, LlcpModes
  <2>3. CASE appState # "off"
    <3>1. appState' # "off"
      <4>1. CASE Handler BY <2>3, <4>1, HandlerKeepsApp
      <4>2. CASE ~Handler
        BY <1>2, <2>3, <4>2 DEF Next, AppDisable, App, Enable, SavePrev, AppReturns,
               StackThread, TesterActs, Integration, dtaVars, appVars, vars
      <4> QED BY <4>1, <4>2
    <3> QED BY <2>1, <3>1 DEF Chosen, LlcpModes
  <2> QED BY <2>2, <2>3
<1> QED BY <1>1, <1>2

LEMMA NeverLate ==
  ASSUME Typed, OnTime, Chosen, llcpMode
  PROVE  ~LateAnswers
BY DEF Typed, StackTyped, OnTime, Chosen, LlcpModes, LateAnswers

(* The calls of the set-up.                                                *)
SettingUpCalls == \E s \in Seq(HostSteps) : calls["app"] = << Append(s, "Enable") >>

LEMMA HostTuples ==
  /\ SetMwIfConfig \in Seq(HostSteps) /\ LlcpInit \in Seq(HostSteps)
  /\ LlcpServers \in Seq(HostSteps) /\ HceInit \in Seq(HostSteps)
  /\ HceConfigure \in Seq(HostSteps)
<1>1. /\ "SendNxpNci" \in HostSteps /\ "SetParam" \in HostSteps /\ "SetConfig" \in HostSteps
      /\ "RegisterClient" \in HostSteps /\ "SaveLlcpInit" \in HostSteps
      /\ "RegisterServer" \in HostSteps /\ "RegisterClServer" \in HostSteps
      /\ "EeRegister" \in HostSteps /\ "SetTechRouting" \in HostSteps
      /\ "SetProtoRouting" \in HostSteps /\ "EeUpdateNow" \in HostSteps
  BY DEF HostSteps
<1> HIDE DEF HostSteps
<1>2. /\ SetMwIfConfig \in Seq(HostSteps) /\ LlcpServers \in Seq(HostSteps)
      /\ HceInit \in Seq(HostSteps) /\ HceConfigNciParams \in Seq(HostSteps)
      /\ SetRouting \in Seq(HostSteps) /\ <<"EeUpdateNow">> \in Seq(HostSteps)
  BY <1>1 DEF SetMwIfConfig, LlcpServers, HceInit, HceConfigNciParams, SetRouting
<1>3. LlcpInit \in Seq(HostSteps)
  BY <1>1 DEF LlcpInit
<1>4. HceConfigNciParams \o SetRouting \in Seq(HostSteps)
  BY <1>2, ConcatProperties
<1>5. HceConfigNciParams \o SetRouting \o SetRouting \in Seq(HostSteps)
  BY <1>2, <1>4, ConcatProperties
<1>6. HceConfigure \in Seq(HostSteps)
  BY <1>2, <1>5, ConcatProperties DEF HceConfigure
<1> QED BY <1>2, <1>3, <1>6

LEMMA SetUpOnHost ==
  ASSUME OnHost, setting \in DOMAIN Settings, NEW cfg \in Configs, NEW llcp
  PROVE  \E s \in Seq(HostSteps) : SetUp(cfg, llcp) = Append(s, "Enable")
<1> DEFINE emulation == CASE cfg.ceType = "HOST_CE" -> HceInit \o HceConfigure
                          [] cfg.ceType \in {"UICC_CE", "SE_CE"} -> EeInit \o EeConfigure
                          [] OTHER -> <<>>
           x == IF llcp THEN LlcpInit \o LlcpServers ELSE <<>>
           y == IF cfg.enableCE THEN emulation ELSE <<>>
           a == SetMwIfConfig
           s == a \o x \o y
<1>1. SetUp(cfg, llcp) = s \o <<"Enable">>
  BY DEF SetUp
<1>2. a \in Seq(HostSteps) BY HostTuples
<1>3. x \in Seq(HostSteps)
  <2>1. LlcpInit \o LlcpServers \in Seq(HostSteps) /\ <<>> \in Seq(HostSteps)
    BY HostTuples, ConcatProperties, EmptySeq
  <2> QED BY <2>1
<1>4. y \in Seq(HostSteps)
  <2>1. HceInit \o HceConfigure \in Seq(HostSteps) /\ <<>> \in Seq(HostSteps)
    BY HostTuples, ConcatProperties, EmptySeq
  <2>2. CASE ~cfg.enableCE BY <2>1, <2>2
  <2>3. CASE cfg.enableCE /\ cfg.ceType = "HOST_CE" BY <2>1, <2>3
  <2>4. CASE cfg.enableCE /\ cfg.ceType = "INVALID_CE" BY <2>1, <2>4
  <2> QED BY <2>2, <2>3, <2>4 DEF OnHost, Configs
<1> HIDE DEF a, x, y
<1>5. a \o x \in Seq(HostSteps) BY <1>2, <1>3, ConcatProperties
<1>6. s \in Seq(HostSteps) BY <1>4, <1>5, ConcatProperties
<1> HIDE DEF s
<1>7. HostSteps \subseteq SetUpSteps /\ "Enable" \in SetUpSteps
  BY DEF HostSteps, SetUpSteps
<1>8. s \in Seq(SetUpSteps) BY <1>6, <1>7, SeqMonotonic
<1>9. Append(s, "Enable") = s \o <<"Enable">>
  BY <1>7, <1>8, AppendIsConcat
<1> QED BY <1>1, <1>6, <1>9

(* The next of the steps, and what is left behind it.                      *)
LEMMA SetUpNext ==
  ASSUME NEW s \in Seq(HostSteps), calls["app"] = << Append(s, "Enable") >>
  PROVE  /\ Busy("app") /\ Step("app") = IF s = <<>> THEN "Enable" ELSE Head(s)
         /\ s # <<>> => /\ Head(s) \in HostSteps /\ Tail(s) \in Seq(HostSteps)
                        /\ Into("app", <<>>) = << Append(Tail(s), "Enable") >>
<1> DEFINE d == Append(s, "Enable")
<1>1. Head(d) = IF s = <<>> THEN "Enable" ELSE Head(s)
  BY HeadTailAppend
<1>2. calls["app"] = << d >>
  OBVIOUS
<1>3. s # <<>> => Head(s) \in HostSteps /\ Tail(s) \in Seq(HostSteps)
  BY HeadTailProperties
<1>4. s # <<>> => Tail(d) = Append(Tail(s), "Enable")
  BY HeadTailAppend
<1>5. s # <<>> => Append(Tail(s), "Enable") \in Seq(SetUpSteps) \ {<<>>}
  <2>1. HostSteps \subseteq SetUpSteps /\ "Enable" \in SetUpSteps
    BY DEF HostSteps, SetUpSteps
  <2>2. s # <<>> => Tail(s) \in Seq(SetUpSteps)
    BY <1>3, <2>1, SeqMonotonic
  <2> QED BY <2>1, <2>2, AppendProperties
<1> HIDE DEF d
<1>6. << d >> # <<>> /\ Head(<< d >>) = d /\ Tail(<< d >>) = <<>>
  OBVIOUS
<1>7. ASSUME s # <<>>
      PROVE  Into("app", <<>>) = << Append(Tail(s), "Enable") >>
  <2> DEFINE e == Append(Tail(s), "Enable")
  <2>1. Tail(d) = e /\ e \in Seq(SetUpSteps) /\ e # <<>>
    BY <1>4, <1>5, <1>7
  <2> HIDE DEF e
  <2>2. <<>> \o e = e
    BY <2>1, ConcatEmptySeq
  <2>3. Into("app", <<>>) = <<e>> \o <<>>
    BY <1>2, <1>6, <2>1, <2>2 DEF Into
  <2>4. <<e>> \o <<>> = <<e>>
    BY <2>1, ConcatEmptySeq
  <2> QED BY <2>3, <2>4 DEF e
<1> QED BY <1>1, <1>2, <1>3, <1>6, <1>7 DEF Busy, Step

(* Of the stack's answers there is the one that is waited for, or none.    *)
HostTypes == LocalTypes \ {"CE_ESE_LISTEN_CONFIGURED"}

Nothing == nfaOut = <<>> /\ CallbackIdle /\ mwQueue = <<>>
Sole(type) ==
  LET e == Event(type, "none")
  IN  \/ nfaOut = <<e>> /\ CallbackIdle /\ mwQueue = <<>>
      \/ nfaOut = <<>> /\ cb = [ev |-> e, todo |-> <<"mw">>] /\ mwQueue = <<>>
      \/ nfaOut = <<>> /\ CallbackIdle /\ mwQueue = <<e>>

Expected == IF Reply[Step("app")] = "none" THEN Nothing ELSE Sole(Reply[Step("app")])
Answered ==
  CASE at["app"] = "run" -> Nothing
    [] at["app"] = "check" /\ gx_status # "OK" -> Nothing /\ Step("app") \in Ignored
    [] at["app"] = "check" /\ gx_status = "OK" -> Expected
    [] OTHER -> Reply[Step("app")] # "none" /\ Sole(Reply[Step("app")])

SettingUp ==
  /\ appState = "starting" /\ rf = "stopped"
  /\ ~Busy("handler") /\ dtaQueue = <<>>
  /\ links = NoLinks /\ ~sdp
  /\ SettingUpCalls /\ Answered

LEMMA HostStep ==
  ASSUME NEW c \in HostSteps
  PROVE  /\ c # "SaveLlcpInit" => c \in DOMAIN Reply
         /\ c = "EeUpdateNow" => Reply[c] = "none"
         /\ c \notin {"SaveLlcpInit", "EeUpdateNow"} =>
              c \in LocalCommands /\ Reply[c] \in HostTypes /\ Reply[c] # "none"
         /\ c \in P2pCommands => c \notin {"SaveLlcpInit", "EeUpdateNow"}
         /\ c \notin LinkCommands \cup {"Select", "Receive", "Enable"}
         /\ Accept(c) => \/ LocalDone(c) /\ c \notin {"SaveLlcpInit", "EeUpdateNow"}
                         \/ c = "EeUpdateNow" /\ UNCHANGED stackVars
<1>1. c # "SaveLlcpInit" => c \in DOMAIN Reply
  BY DEF HostSteps, Reply
<1>2. c = "EeUpdateNow" => Reply[c] = "none"
  BY DEF Reply
<1>3. c \notin {"SaveLlcpInit", "EeUpdateNow"} => c \in LocalCommands
  BY DEF HostSteps, LocalCommands, EeCommands, P2pCommands
<1>4. c \notin {"SaveLlcpInit", "EeUpdateNow"} => Reply[c] \in LocalTypes
  BY <1>3, LocalReply
<1>5. c \notin {"SaveLlcpInit", "EeUpdateNow"} => Reply[c] # "CE_ESE_LISTEN_CONFIGURED"
  BY DEF HostSteps, Reply
<1>6. "none" \notin LocalTypes
  BY DEF LocalTypes
<1>7. c \in P2pCommands => c \notin {"SaveLlcpInit", "EeUpdateNow"}
  BY DEF P2pCommands
<1>8. c \notin LinkCommands \cup {"Select", "Receive", "Enable"}
  BY DEF HostSteps, LinkCommands
<1>9. Accept(c) => \/ LocalDone(c) /\ c \notin {"SaveLlcpInit", "EeUpdateNow"}
                   \/ c = "EeUpdateNow" /\ UNCHANGED stackVars
  BY DEF HostSteps, Accept, LocalDone, SilentDone, StartDone, StopDone, SleepDone, DeactivateDone,
         SelectDone, TagSent, TagCommands, LocalCommands, SilentCommands, EeCommands, P2pCommands
<1> QED BY <1>1, <1>2, <1>3, <1>4, <1>5, <1>6, <1>7, <1>8, <1>9 DEF HostTypes

(* The answer comes.                                                       *)
LEMMA SoleReported ==
  ASSUME Nothing, NEW CONSTANT type, Report(<<Event(type, "none")>>), UNCHANGED <<cb, mwQueue>>
  PROVE  Sole(type)'
<1> DEFINE e == Event(type, "none")
<1>1. nfaOut' = <<>> \o <<e>>
  BY DEF Report, Nothing
<1> HIDE DEF e
<1>2. <<>> \o <<e>> = <<e>>
  <2>1. <<e>> \in Seq({e}) OBVIOUS
  <2> QED BY <2>1, ConcatEmptySeq
<1> QED BY <1>1, <1>2 DEF Sole, Nothing, CallbackIdle, e

LEMMA SoleCalledBack ==
  ASSUME NEW CONSTANT type \in HostTypes, Sole(type), Callback
  PROVE  /\ Sole(type)'
         /\ gx_status' = gx_status \/ gx_status' = "OK"
         /\ UNCHANGED <<rf, linkVars, dtaQueue, threadVars>>
<1> DEFINE e == Event(type, "none")
<1>1. nfaOut = <<e>> /\ mwQueue = <<>>
  BY DEF Sole, Callback, CallbackIdle
<1>2. e.type = type
  BY DEF Event
<1>3. PushesOf(e) = <<"mw">>
  BY <1>2, AnswerPushes DEF HostTypes, Answers
<1>4. \A x \in StatusOf(e) : x = gx_status \/ x = "OK"
  <2>1. e.type \notin {"DATA", "LLCP_ACTIVATED", "LLCP_DEACTIVATED"}
    BY <1>2 DEF HostTypes, LocalTypes
  <2> HIDE DEF e
  <2> QED BY <2>1, <1>2 DEF HostTypes, LocalTypes, StatusOf, Event
<1> HIDE DEF e
<1>5. Head(<<e>>) = e /\ Tail(<<e>>) = <<>>
  OBVIOUS
<1>6. nfaOut' = <<>> /\ cb' = [ev |-> e, todo |-> <<"mw">>] /\ mwQueue' = <<>>
      /\ gx_status' \in StatusOf(e)
  BY <1>1, <1>3, <1>5 DEF Callback, queueVars
<1>7. UNCHANGED <<rf, linkVars, dtaQueue, threadVars>>
  BY DEF Callback, queueVars
<1> QED BY <1>4, <1>6, <1>7 DEF Sole, e

LEMMA SolePushed ==
  ASSUME NEW CONSTANT type \in HostTypes, Sole(type), CallbackPush
  PROVE  Sole(type)'
<1> DEFINE e == Event(type, "none")
<1>1. nfaOut = <<>> /\ cb = [ev |-> e, todo |-> <<"mw">>] /\ mwQueue = <<>>
  BY DEF Sole, CallbackPush, CallbackIdle
<1>2. MwEvent(e) = e
  BY DEF MwEvent, Event, HostTypes, LocalTypes
<1> HIDE DEF e
<1>3. Head(<<"mw">>) = "mw" /\ Len(<<"mw">>) = 1 /\ Append(<<>>, e) = <<e>>
  OBVIOUS
<1>4. mwQueue' = <<e>> /\ cb' = [ev |-> NoEvent, todo |-> <<>>] /\ nfaOut' = nfaOut
  BY <1>1, <1>2, <1>3 DEF CallbackPush, stackVars
<1> QED BY <1>1, <1>4 DEF Sole, CallbackIdle, e

(* The answer is pulled, and ends the wait; no wait times out.             *)
LEMMA SolePulled ==
  ASSUME NEW type \in HostTypes, Sole(type), at["app"] = "wait", Reply[Step("app")] = type,
         WaitPull("app")
  PROVE  Nothing' /\ Proceed("app", <<>>)
<1> DEFINE e == Event(type, "none")
<1>1. mwQueue = <<e>> /\ nfaOut = <<>> /\ CallbackIdle
  BY DEF Sole, WaitPull
<1>2. e.type = type /\ ~Aborts("app", e.type)
  BY DEF Event, Aborts, HostTypes, LocalTypes
<1> HIDE DEF e
<1>3. Head(<<e>>) = e /\ Tail(<<e>>) = <<>>
  OBVIOUS
<1>4. mwQueue' = <<>> /\ UNCHANGED <<nfaOut, cb>>
  BY <1>1, <1>3 DEF WaitPull, stackVars
<1>5. Proceed("app", <<>>)
  BY <1>1, <1>2, <1>3 DEF WaitPull
<1> QED BY <1>1, <1>4, <1>5 DEF Nothing, CallbackIdle

LEMMA SoleInTime ==
  ASSUME NEW type, Sole(type), ~LateAnswers
  PROVE  ~WaitTimeout("app")
<1> DEFINE e == Event(type, "none")
<1>1. SUFFICES ASSUME mwQueue = <<>> PROVE ~Silent
  BY DEF WaitTimeout
<1> HIDE DEF e
<1>2. CASE nfaOut = <<e>> /\ CallbackIdle
  <2>1. <<e>> # <<>> OBVIOUS
  <2> QED BY <1>2, <2>1 DEF Silent
<1>3. CASE cb = [ev |-> e, todo |-> <<"mw">>]
  <2>1. <<"mw">> # <<>> /\ Head(<<"mw">>) = "mw" OBVIOUS
  <2> QED BY <1>3, <2>1 DEF Silent, CallbackIdle
<1>4. mwQueue # <<e>>
  BY <1>1
<1> QED BY <1>2, <1>3, <1>4 DEF Sole, e

(* The application goes on with the set-up.                                *)
LEMMA SetUpIs ==
  ASSUME SettingUpCalls
  PROVE  Busy("app") /\ Step("app") \in HostSteps \cup {"Enable"}
<1>1. PICK s \in Seq(HostSteps) : calls["app"] = << Append(s, "Enable") >>
  BY DEF SettingUpCalls
<1> QED BY <1>1, SetUpNext

LEMMA SetUpGoes ==
  ASSUME DtaAssumption, Typed, SettingUpCalls, Step("app") \in HostSteps, Proceed("app", <<>>),
         Nothing'
  PROVE  /\ SettingUpCalls' /\ Answered'
         /\ calls'["handler"] = calls["handler"]
<1>1. PICK s \in Seq(HostSteps) : calls["app"] = << Append(s, "Enable") >>
  BY DEF SettingUpCalls
<1>2. s # <<>>
  BY <1>1, SetUpNext DEF HostSteps
<1>3. "app" \in Threads /\ "handler" \in Threads /\ calls \in [Threads -> CallsOf(Steps)]
      /\ at \in [Threads -> {"run", "check", "wait"}]
  BY DEF DtaAssumption, Typed, ControlTyped, CallsTyped
<1>4. calls'["app"] = Into("app", <<>>) /\ at'["app"] = "run"
      /\ calls'["handler"] = calls["handler"]
  BY <1>3 DEF Proceed
<1>5. Tail(s) \in Seq(HostSteps) /\ calls'["app"] = << Append(Tail(s), "Enable") >>
  BY <1>1, <1>2, <1>4, SetUpNext
<1> QED BY <1>4, <1>5 DEF SettingUpCalls, Answered

LEMMA SetUpEntered ==
  ASSUME DtaAssumption, Typed, SettingUpCalls, NEW label, Enter("app", label)
  PROVE  /\ SettingUpCalls' /\ at'["app"] = label /\ Step("app")' = Step("app")
         /\ calls'["handler"] = calls["handler"]
<1>1. "app" \in Threads /\ at \in [Threads -> {"run", "check", "wait"}]
  BY DEF DtaAssumption, Typed, ControlTyped, CallsTyped
<1> QED BY <1>1 DEF Enter, SettingUpCalls, Step

(* What of the set-up does not depend on the step.                         *)
LEMMA SetUpAgain ==
  ASSUME SettingUp, UNCHANGED <<appState, rf, dtaQueue, links, sdp>>,
         calls'["handler"] = calls["handler"], SettingUpCalls', Answered'
  PROVE  SettingUp'
BY DEF SettingUp, Busy

LEMMA SetUpIssues ==
  ASSUME DtaAssumption, Typed, SetUpAccepted, SettingUp,
         UNCHANGED appState, Issue("app")
  PROVE  SettingUp'
<1> DEFINE c == Step("app")
<1>1. /\ at["app"] = "run" /\ c \in DOMAIN Reply \ P2pCommands
      /\ Nothing /\ SettingUpCalls /\ UNCHANGED <<cb, mwQueue, dtaQueue, appState>>
      /\ Enter("app", IF c = "Select" THEN "wait" ELSE "check")
  BY DEF Issue, SettingUp, Answered, queueVars
<1>2. c \in HostSteps
  <2>1. "Enable" \notin DOMAIN Reply BY DEF Reply
  <2> QED BY <1>1, <2>1, SetUpIs
<1>3. c # "SaveLlcpInit" /\ c # "Select"
  <2>1. "SaveLlcpInit" \notin DOMAIN Reply BY DEF Reply
  <2> QED BY <1>1, <1>2, <2>1, HostStep
<1>4. /\ SettingUpCalls' /\ at'["app"] = "check" /\ Step("app")' = c
      /\ calls'["handler"] = calls["handler"]
  BY <1>1, <1>3, SetUpEntered
<1>5. CASE c \in MayRefuse /\ gx_status' = "FAILED" /\ UNCHANGED stackVars
  <2>1. c \in Ignored
    BY <1>2, <1>5 DEF SetUpAccepted
  <2>2. Nothing'
    BY <1>1, <1>5 DEF Nothing, CallbackIdle, stackVars
  <2>3. Answered'
    BY <1>4, <1>5, <2>1, <2>2 DEF Answered
  <2> QED BY <1>1, <1>4, <1>5, <2>3, SetUpAgain DEF stackVars, linkVars
<1>6. CASE Accept(c) /\ gx_status' = "OK"
  <2>1. CASE c = "EeUpdateNow" /\ UNCHANGED stackVars
    <3>1. Reply[c] = "none" BY <1>2, <2>1, HostStep
    <3>2. Nothing'
      BY <1>1, <2>1 DEF Nothing, CallbackIdle, stackVars
    <3>3. Answered'
      BY <1>4, <1>6, <3>1, <3>2 DEF Answered, Expected
    <3> QED BY <1>1, <1>4, <2>1, <3>3, SetUpAgain DEF stackVars, linkVars
  <2>2. CASE LocalDone(c) /\ c \notin {"SaveLlcpInit", "EeUpdateNow"}
    <3>1. Reply[c] # "none" BY <1>2, <2>2, HostStep
    <3>2. Report(<<Event(Reply[c], "none")>>) /\ UNCHANGED <<rf, linkVars>>
      BY <2>2 DEF LocalDone
    <3>3. PICK type : type = Reply[c] OBVIOUS
    <3>4. Sole(type)'
      BY <1>1, <3>2, <3>3, SoleReported
    <3>5. Answered'
      BY <1>4, <1>6, <3>1, <3>3, <3>4 DEF Answered, Expected, Sole
    <3> QED BY <1>1, <1>4, <3>2, <3>5, SetUpAgain DEF linkVars
  <2> QED BY <1>2, <1>6, <2>1, <2>2, HostStep
<1> QED BY <1>5, <1>6 DEF Issue

LEMMA SetUpReturns ==
  ASSUME Return("app"), Step("app") \in Ignored
  PROVE  Proceed("app", <<>>)
BY DEF Return, Proceed

LEMMA SetUpIssuesP2p ==
  ASSUME DtaAssumption, Typed, SetUpAccepted, SettingUp,
         UNCHANGED appState, IssueP2p("app")
  PROVE  SettingUp'
<1> DEFINE c == Step("app")
<1>1. /\ at["app"] = "run" /\ c \in P2pCommands
      /\ Nothing /\ SettingUpCalls /\ UNCHANGED <<cb, mwQueue, dtaQueue, appState>>
  BY DEF IssueP2p, SettingUp, Answered, queueVars, Enter, Return
<1>2. c \in HostSteps
  <2>1. "Enable" \notin P2pCommands BY DEF P2pCommands
  <2> QED BY <1>1, <2>1, SetUpIs
<1>3. c \notin {"SaveLlcpInit", "EeUpdateNow"}
  BY <1>1, <1>2, HostStep
<1>4. CASE c \in MayRefuse /\ UNCHANGED stackVars /\ Return("app")
  <2>1. c \in Ignored
    BY <1>2, <1>4 DEF SetUpAccepted
  <2>2. Nothing'
    BY <1>1, <1>4 DEF Nothing, CallbackIdle, stackVars
  <2>3. Proceed("app", <<>>)
    BY <1>4, <2>1, SetUpReturns
  <2> QED BY <1>1, <1>2, <1>4, <2>2, <2>3, SetUpGoes, SetUpAgain DEF stackVars, linkVars
<1>5. CASE Accept(c) /\ Enter("app", "wait")
  <2>1. LocalDone(c)
    BY <1>2, <1>3, <1>5, HostStep
  <2>2. Report(<<Event(Reply[c], "none")>>) /\ UNCHANGED <<rf, linkVars>>
    BY <2>1 DEF LocalDone
  <2>3. PICK type : type = Reply[c] OBVIOUS
  <2>4. Sole(type)'
    BY <1>1, <2>2, <2>3, SoleReported
  <2>5. /\ SettingUpCalls' /\ at'["app"] = "wait" /\ Step("app")' = c
        /\ calls'["handler"] = calls["handler"]
    BY <1>1, <1>5, SetUpEntered
  <2>6. Reply[c] # "none"
    BY <1>2, <1>3, HostStep
  <2>7. Answered'
    BY <2>3, <2>4, <2>5, <2>6 DEF Answered, Sole
  <2> QED BY <1>1, <2>2, <2>5, <2>7, SetUpAgain DEF linkVars
<1> QED BY <1>4, <1>5 DEF IssueP2p

(* A step that is no command has been taken by now.                        *)
LEMMA SetUpWaits ==
  ASSUME DtaAssumption, Typed, SettingUp, at["app"] # "run"
  PROVE  /\ Step("app") \in HostSteps \ {"SaveLlcpInit"}
         /\ at["app"] = "wait" => Reply[Step("app")] \in HostTypes
<1>1. Step("app") \in DOMAIN Reply
  BY DEF DtaAssumption, Typed, ControlTyped, CallsTyped
<1>2. "Enable" \notin DOMAIN Reply /\ "SaveLlcpInit" \notin DOMAIN Reply
  BY DEF Reply
<1>3. Step("app") \in HostSteps \ {"SaveLlcpInit"}
  BY <1>1, <1>2, SetUpIs DEF SettingUp
<1>4. at["app"] = "wait" => Reply[Step("app")] # "none"
  BY DEF SettingUp, Answered
<1> QED BY <1>3, <1>4, HostStep

LEMMA SetUpChecks ==
  ASSUME DtaAssumption, Typed, SettingUp, UNCHANGED appState, Check("app")
  PROVE  SettingUp'
<1>1. /\ at["app"] = "check" /\ SettingUpCalls /\ Answered
      /\ UNCHANGED <<stackVars, gx_status, cb, mwQueue, dtaQueue, appState>>
  BY DEF Check, SettingUp, mwVars, queueVars
<1>2. Step("app") \in HostSteps
  BY <1>1, SetUpWaits
<1>3. UNCHANGED <<rf, links, sdp, nfaOut>>
  BY <1>1 DEF stackVars, linkVars
<1>4. ASSUME Nothing, Proceed("app", <<>>) PROVE SettingUp'
  <2>1. Nothing' BY <1>1, <1>3, <1>4 DEF Nothing, CallbackIdle
  <2> QED BY <1>1, <1>2, <1>3, <1>4, <2>1, SetUpGoes, SetUpAgain
<1>5. CASE gx_status # "OK" /\ Return("app")
  <2>1. Nothing /\ Step("app") \in Ignored
    BY <1>1, <1>5 DEF Answered
  <2> QED BY <1>4, <1>5, <2>1, SetUpReturns
<1>6. CASE gx_status = "OK" /\ Reply[Step("app")] = "none" /\ Proceed("app", <<>>)
  <2>1. Nothing BY <1>1, <1>6 DEF Answered, Expected
  <2> QED BY <1>4, <1>6, <2>1
<1>7. CASE gx_status = "OK" /\ Reply[Step("app")] # "none" /\ Enter("app", "wait")
  <2>1. Sole(Reply[Step("app")]) BY <1>1, <1>7 DEF Answered, Expected
  <2>2. /\ SettingUpCalls' /\ at'["app"] = "wait" /\ Step("app")' = Step("app")
        /\ calls'["handler"] = calls["handler"]
    BY <1>1, <1>7, SetUpEntered
  <2>3. PICK type : type = Reply[Step("app")] OBVIOUS
  <2>4. Sole(type)'
    BY <1>1, <1>3, <2>1, <2>3 DEF Sole, CallbackIdle
  <2>5. Answered'
    BY <1>7, <2>2, <2>3, <2>4 DEF Answered, Sole
  <2> QED BY <1>1, <1>3, <2>2, <2>5, SetUpAgain
<1> QED BY <1>5, <1>6, <1>7 DEF Check

LEMMA SetUpPulls ==
  ASSUME DtaAssumption, Typed, SettingUp, UNCHANGED appState, WaitPull("app")
  PROVE  SettingUp'
<1>1. at["app"] = "wait" /\ SettingUpCalls /\ Answered
      /\ UNCHANGED <<stackVars, dtaQueue, appState>>
  BY DEF WaitPull, SettingUp
<1>2. Step("app") \in HostSteps /\ Reply[Step("app")] \in HostTypes
  BY <1>1, SetUpWaits
<1>3. Sole(Reply[Step("app")])
  BY <1>1 DEF Answered
<1>4. Nothing' /\ Proceed("app", <<>>)
  BY <1>1, <1>2, <1>3, SolePulled
<1>5. UNCHANGED <<rf, links, sdp>>
  BY <1>1 DEF stackVars, linkVars
<1> QED BY <1>1, <1>2, <1>4, <1>5, SetUpGoes, SetUpAgain

LEMMA SetUpSaves ==
  ASSUME DtaAssumption, Typed, SettingUp, UNCHANGED appState, SaveLlcpInit("app")
  PROVE  SettingUp'
<1>1. /\ at["app"] = "run" /\ Step("app") = "SaveLlcpInit" /\ Proceed("app", <<>>)
      /\ UNCHANGED <<stackVars, cb, mwQueue, dtaQueue>>
  BY DEF SaveLlcpInit, At, queueVars
<1>2. UNCHANGED <<rf, links, sdp, nfaOut>>
  BY <1>1 DEF stackVars, linkVars
<1>3. SettingUpCalls /\ Nothing
  BY <1>1 DEF SettingUp, Answered
<1>4. Nothing'
  BY <1>1, <1>2, <1>3 DEF Nothing, CallbackIdle
<1>5. "SaveLlcpInit" \in HostSteps
  BY DEF HostSteps
<1> QED BY <1>1, <1>2, <1>3, <1>4, <1>5, SetUpGoes, SetUpAgain

LEMMA SetUpCall ==
  ASSUME DtaAssumption, Typed, OnTime, Chosen, llcpMode, SetUpAccepted, SettingUp,
         UNCHANGED appState, CallStep("app")
  PROVE  SettingUp'
<1>1. SettingUpCalls /\ Step("app") \in HostSteps \cup {"Enable"}
  BY SetUpIs DEF SettingUp
<1>2. ~WaitTimeout("app")
  <2>1. SUFFICES ASSUME at["app"] = "wait" PROVE ~WaitTimeout("app")
    BY DEF WaitTimeout
  <2>2. Sole(Reply[Step("app")])
    BY <2>1 DEF SettingUp, Answered
  <2> QED BY <2>2, NeverLate, SoleInTime
<1>3. Issue("app") \/ IssueP2p("app") \/ Check("app") \/ WaitPull("app") \/ SaveLlcpInit("app")
  BY <1>1, <1>2 DEF CallStep, EeGetInfo, EeStatus, DiscoveryStop, Flush, ClearAnalog, Configure, ClearCe,
         SaveConfig, SetStarted, CheckActive, BeginReceive, CheckData, IsNdef, At, HostSteps
<1> QED BY <1>3, SetUpIssues, SetUpIssuesP2p, SetUpChecks, SetUpPulls, SetUpSaves

LEMMA SetUpStack ==
  ASSUME DtaAssumption, Typed, SettingUp, StackThread
  PROVE  SettingUp'
<1>1. at["app"] # "run" /\ ~(at["app"] = "check" /\ gx_status # "OK") /\ ~Nothing
  BY DEF StackThread, Callback, CallbackPush, SettingUp, Answered, Nothing
<1>2. PICK type : type = Reply[Step("app")] OBVIOUS
<1>3. Sole(type) /\ type # "none"
  BY <1>1, <1>2 DEF SettingUp, Answered, Expected
<1>4. type \in HostTypes
  BY <1>1, <1>2, <1>3, SetUpWaits, HostStep
<1>5. UNCHANGED <<threadVars, appState>>
  BY DEF StackThread, Callback, CallbackPush, dtaVars, appVars
<1>6. UNCHANGED <<rf, links, sdp>> /\ dtaQueue' = dtaQueue
      /\ (gx_status' = gx_status \/ gx_status' = "OK") /\ Sole(type)'
  <2>1. CASE Callback
    BY <1>3, <1>4, <2>1, SoleCalledBack DEF linkVars
  <2>2. CASE CallbackPush
    <3>1. Head(cb.todo) = "mw"
      <4>1. Head(<<"mw">>) = "mw" OBVIOUS
      <4> QED BY <1>3, <2>2, <4>1 DEF Sole, CallbackPush, CallbackIdle
    <3>2. UNCHANGED <<stackVars, mwVars, dtaQueue>>
      BY <2>2, <3>1 DEF CallbackPush
    <3> QED BY <1>3, <1>4, <2>2, <3>2, SolePushed DEF stackVars, linkVars, mwVars
  <2> QED BY <2>1, <2>2 DEF StackThread
<1>7. SettingUpCalls' /\ at' = at /\ Step("app")' = Step("app") /\ calls' = calls
  BY <1>5 DEF threadVars, SettingUp, SettingUpCalls, Step
<1>8. Answered'
  BY <1>1, <1>2, <1>3, <1>6, <1>7 DEF Answered, Expected, Sole
<1> QED BY <1>5, <1>6, <1>7, <1>8, SetUpAgain

(* The application's call to start discovery, with the start to come.      *)
AppStarts ==
  /\ appState = "starting" /\ Busy("app")
  /\ calls["app"][Len(calls["app"])][1] = "StartRfDiscovery"
  /\ Len(calls["app"]) = 1 => at["app"] = "run"

LEMMA EnableStarts ==
  ASSUME DtaAssumption, Typed, appState = "starting", Enable
  PROVE  AppStarts'
<1>1. /\ calls'["app"] # <<>> /\ Len(calls'["app"]) = 3
      /\ calls'["app"][3][1] = "StartRfDiscovery"
  BY EnableCalls
<1>2. appState' = "starting"
  BY DEF Enable, dtaVars, appVars
<1> QED BY <1>1, <1>2 DEF AppStarts, Busy

LEMMA SettingUpKept ==
  ASSUME StackAssumption, MwIfAssumption, DtaAssumption, NobodySelects, OnTime, SetUpAccepted,
         Typed, Chosen, llcpMode, SettingUp, [Next]_vars
  PROVE  SettingUp' \/ AppStarts'
<1>1. appState = "starting" /\ SettingUpCalls /\ Busy("app")
  BY SetUpIs DEF SettingUp
<1>2. CASE Handler
  BY <1>2, HandlerStill DEF SettingUp
<1>3. CASE StackThread
  BY <1>3, SetUpStack
<1>4. CASE TesterActs
  <2>1. rf = "stopped" /\ links = NoLinks /\ ~sdp
    BY DEF SettingUp
  <2>2. \A h \in DOMAIN links : links[h] = "free"
    BY <2>1 DEF NoLinks
  <2> QED BY <1>4, <2>1, <2>2 DEF TesterActs, Tester, PresentTag, StartEmulation, PresentSeveral,
         SendApdu, TagAnswers, TagLost, EndEmulation, OnLink, RemoteConnects, SendData,
         RemoteAnswers, RemoteAccepts, RemoteCloses, SdpAnswer, LinkUp
<1>5. CASE AppEnable \/ AppDisable \/ AppReturns
  BY <1>1, <1>5 DEF AppEnable, AppDisable, AppReturns
<1>6. CASE Enable
  BY <1>1, <1>6, EnableStarts
<1>7. CASE SavePrev
  BY <1>7, SetUpIs DEF SettingUp, SavePrev, At, HostSteps
<1>8. CASE CallStep("app") /\ UNCHANGED dtaVars
  BY <1>8, SetUpCall DEF dtaVars, appVars
<1>9. CASE UNCHANGED vars
  <2>1. UNCHANGED <<stackVars, gx_status, mwQueue, dtaQueue, cb, calls, at, appState>>
    BY <1>9 DEF vars, mwVars, queueVars, threadVars, dtaVars, appVars
  <2>2. UNCHANGED <<rf, links, sdp, nfaOut>>
    BY <2>1 DEF stackVars, linkVars
  <2>3. SettingUpCalls' /\ Step("app")' = Step("app")
    BY <1>1, <2>1 DEF SettingUpCalls, Step
  <2>4. PICK type : type = Reply[Step("app")] OBVIOUS
  <2>5. (Sole(type) => Sole(type)') /\ (Nothing => Nothing')
    BY <2>1, <2>2 DEF Sole, Nothing, CallbackIdle
  <2>6. Answered'
    BY <2>1, <2>3, <2>4, <2>5 DEF SettingUp, Answered, Expected, Sole
  <2> QED BY <2>1, <2>2, <2>3, <2>6, SetUpAgain
<1> QED BY <1>2, <1>3, <1>4, <1>5, <1>6, <1>7, <1>8, <1>9 DEF Next, App, NobodySelects

LEMMA EnablesSettingUp ==
  ASSUME StackAssumption, MwIfAssumption, DtaAssumption, OnHost, Typed, Off, Chosen, AppEnable
  PROVE  SettingUp'
<1>1. /\ rf = "stopped" /\ nfaOut = <<>> /\ links = NoLinks /\ ~sdp
      /\ CallbackIdle /\ dtaQueue = <<>> /\ mwQueue = <<>>
      /\ \A t \in Threads : ~Busy(t)
  BY DEF Off, Chosen, AppEnable
<1>2. "app" \in Threads /\ "handler" \in Threads /\ calls \in [Threads -> CallsOf(Steps)]
      /\ (~Busy("app") => at["app"] = "run")
  BY DEF DtaAssumption, Typed, ControlTyped, CallsTyped
<1>3. PICK cfg \in Configs, llcp \in LlcpModes :
        calls' = [calls EXCEPT !["app"] = << SetUp(cfg, llcp) >>]
  BY DEF AppEnable
<1>4. PICK s \in Seq(HostSteps) : SetUp(cfg, llcp) = Append(s, "Enable")
  <2>1. setting \in DOMAIN Settings
    BY DEF Typed, StackTyped
  <2> QED BY <2>1, SetUpOnHost
<1>5. calls'["app"] = << Append(s, "Enable") >> /\ calls'["handler"] = calls["handler"]
  BY <1>2, <1>3, <1>4
<1>6. at' = at /\ UNCHANGED <<stackVars, cb, mwQueue, dtaQueue>> /\ appState' = "starting"
  BY DEF AppEnable, queueVars
<1>7. UNCHANGED <<rf, links, sdp, nfaOut>>
  BY <1>6 DEF stackVars, linkVars
<1>8. Answered'
  BY <1>1, <1>2, <1>6, <1>7 DEF Answered, Nothing, CallbackIdle
<1>9. NoLinks' = NoLinks
  BY DEF NoLinks
<1> QED BY <1>1, <1>2, <1>5, <1>6, <1>7, <1>8, <1>9 DEF SettingUp, SettingUpCalls, Busy

(* A step leaves the last of several calls where it is, or one nearer.     *)
LEMMA LastKept ==
  ASSUME NEW S, NEW c \in CallsOf(S), c # <<>>, Len(c) # 1, NEW s \in Seq(S)
  PROVE  /\ Pushed(c, s) # <<>> /\ Pushed(c, s)[Len(Pushed(c, s))] = c[Len(c)]
         /\ Tail(c) # <<>> /\ Tail(c)[Len(Tail(c))] = c[Len(c)]
<1>1. Len(c) \in Nat /\ Len(c) > 1
  <2>1. Len(c) \in Nat /\ Len(c) > 0
    BY CallFacts
  <2>2. \A n \in Nat : n > 0 /\ n # 1 => n > 1 OBVIOUS
  <2> QED BY <2>1, <2>2
<1>2. Tail(c) # <<>> /\ Tail(c)[Len(Tail(c))] = c[Len(c)]
  <2> DEFINE q == Tail(c)
  <2>1. Len(q) = Len(c) - 1 /\ \A i \in 1 .. Len(c) - 1 : q[i] = c[i + 1]
    BY TailFacts
  <2> HIDE DEF q
  <2>2. Len(q) # 0 /\ Len(c) - 1 \in 1 .. Len(c) - 1 /\ (Len(c) - 1) + 1 = Len(c)
    BY <1>1, <2>1
  <2>3. Len(<<>>) = 0 OBVIOUS
  <2>4. q # <<>>
    BY <2>2, <2>3
  <2>5. q[Len(c) - 1] = c[Len(c)]
    BY <2>1, <2>2
  <2> QED BY <2>1, <2>4, <2>5 DEF q
<1>3. CASE Rest(c, s) = <<>>
  BY <1>2, <1>3 DEF Pushed
<1>4. CASE Rest(c, s) # <<>>
  <2> DEFINE p == Pushed(c, s)
  <2>1. Len(p) = Len(c) /\ \A i \in 2 .. Len(c) : p[i] = c[i]
    BY <1>4, PushedKeeps
  <2> HIDE DEF p
  <2>2. Len(c) \in 2 .. Len(c) /\ Len(p) # 0
    BY <1>1, <2>1
  <2>3. Len(<<>>) = 0 OBVIOUS
  <2>4. p # <<>>
    BY <2>2, <2>3
  <2>5. p[Len(c)] = c[Len(c)]
    BY <2>1, <2>2
  <2> QED BY <1>2, <2>1, <2>4, <2>5 DEF p
<1> QED BY <1>2, <1>3, <1>4

LEMMA AppStartsKept ==
  ASSUME StackAssumption, MwIfAssumption, DtaAssumption, StartAccepted, NobodySelects,
         Typed, AppStarts, [Next]_vars, rf = "stopped", rf' = "stopped"
  PROVE  AppStarts'
<1> DEFINE c == calls["app"]
           S == StepsOf("app")
<1>1. "app" \in Threads /\ calls \in [Threads -> CallsOf(Steps)]
      /\ at \in [Threads -> {"run", "check", "wait"}]
  BY DEF DtaAssumption, Typed, ControlTyped, CallsTyped
<1>2. /\ appState = "starting" /\ Busy("app") /\ c # <<>>
      /\ c[Len(c)][1] = "StartRfDiscovery" /\ (Len(c) = 1 => at["app"] = "run")
  BY DEF AppStarts, Busy
<1>3. c \in CallsOf(S) /\ Step("app") = c[1][1] /\ c[1][1] \in S
  BY <1>1, <1>2, StepIs DEF Typed
<1>4. Len(c) = 1 => at["app"] = "run" /\ Step("app") = "StartRfDiscovery"
  BY <1>2, <1>3
<1>5. "StartRfDiscovery" \notin Immediate
  BY DEF Immediate, Reply, P2pCommands, LinkCommands
<1>6. ASSUME Len(c) # 1, appState' = "starting",
             \/ calls'["app"] = Tail(c)
             \/ \E s \in Seq(S) : calls'["app"] = Pushed(c, s),
             at'["app"] = "run"
      PROVE  AppStarts'
  <2>1. <<>> \in Seq(S) BY EmptySeq
  <2>2. CASE calls'["app"] = Tail(c)
    <3>1. Tail(c) # <<>> /\ Tail(c)[Len(Tail(c))] = c[Len(c)]
      BY <1>2, <1>3, <1>6, <2>1, LastKept
    <3> QED BY <1>2, <1>6, <2>2, <3>1 DEF AppStarts, Busy
  <2>3. ASSUME NEW s \in Seq(S), calls'["app"] = Pushed(c, s) PROVE AppStarts'
    <3>1. Pushed(c, s) # <<>> /\ Pushed(c, s)[Len(Pushed(c, s))] = c[Len(c)]
      BY <1>2, <1>3, <1>6, LastKept
    <3> QED BY <1>2, <1>6, <2>3, <3>1 DEF AppStarts, Busy
  <2> QED BY <1>6, <2>2, <2>3
<1>7. ASSUME appState' = "starting", calls'["app"] = c, Len(c) = 1 => at'["app"] = "run"
      PROVE  AppStarts'
  BY <1>2, <1>7 DEF AppStarts, Busy
<1>8. CASE ~(AppEnable \/ AppDisable \/ App)
  BY <1>2, <1>7, <1>8, AppAlone
<1>9. CASE AppEnable \/ AppDisable \/ AppReturns
  BY <1>2, <1>9 DEF AppEnable, AppDisable, AppReturns
<1>10. CASE Enable
  BY <1>2, <1>10, EnableStarts
<1>11. CASE SavePrev
  <2>1. Step("app") = "SavePrev" /\ appState' = appState /\ Moved("app", <<>>)
    BY <1>11, Proceeded DEF SavePrev, At
  <2>2. Len(c) # 1
    BY <1>4, <2>1
  <2>3. calls'["app"] = Pushed(c, <<>>) /\ at'["app"] = "run"
    BY <1>1, <2>1 DEF Moved
  <2>4. <<>> \in Seq(S) BY EmptySeq
  <2> QED BY <1>2, <1>6, <2>1, <2>2, <2>3, <2>4
<1>12. CASE CallStep("app") /\ UNCHANGED dtaVars
  <2>1. CallEffect("app") /\ appState' = "starting"
    BY <1>1, <1>2, <1>12, CallStepTyped DEF dtaVars, appVars
  <2>2. CASE Stays("app")
    BY <1>2, <1>7, <2>1, <2>2 DEF Stays
  <2>3. CASE Commands("app")
    <3>1. Step("app") # "StartRfDiscovery"
      BY <2>3 DEF Commands, CommandEffect, Polls
    <3> QED BY <1>4, <1>7, <2>1, <2>3, <3>1 DEF Commands, Entered
  <2>4. CASE Waits("app")
    <3>1. at["app"] = "run" => Step("app") # "StartRfDiscovery"
      BY <1>5, <2>4 DEF Waits, StartAccepted
    <3> QED BY <1>4, <1>7, <2>1, <2>4, <3>1 DEF Waits, Entered
  <2>5. CASE Goes("app")
    <3>1. Len(c) # 1
      BY <1>4, <1>5, <2>5 DEF Goes
    <3>2. CASE Popped("app")
      <4>1. calls'["app"] = Tail(c) /\ at'["app"] = "run"
        BY <1>1, <3>2 DEF Popped
      <4> QED BY <1>6, <2>1, <3>1, <4>1
    <3>3. ASSUME NEW s \in Filling(Step("app")), Moved("app", s) PROVE AppStarts'
      <4>1. calls'["app"] = Pushed(c, s) /\ at'["app"] = "run"
        BY <1>1, <3>3 DEF Moved
      <4>2. s \in Seq(S)
        BY <1>3, <3>3, FillingFits
      <4> QED BY <1>6, <2>1, <3>1, <4>1, <4>2
    <3> QED BY <2>5, <3>2, <3>3 DEF Goes
  <2> QED BY <2>1, <2>2, <2>3, <2>4, <2>5 DEF CallEffect
<1> QED BY <1>8, <1>9, <1>10, <1>11, <1>12 DEF App

-----------------------------------------------------------------------------
(* In LLCP mode a radio that stopped is to be started again.               *)

(* Whoever stops it reports the end of the contact, or is to start it.     *)
LEMMA StopReported ==
  ASSUME StackAssumption, MwIfAssumption, DtaAssumption, NobodySelects, Typed, AppIdle,
         Served, AppCalls, Live, [Next]_vars, rf # "stopped", rf' = "stopped"
  PROVE  Restarts' \/ EndReported'
<1>1. CASE Handler
  <2>1. "handler" \in Threads
    BY DEF DtaAssumption
  <2>2. (CallStep("handler") \/ LlcpStep) /\ UNCHANGED dtaVars
    BY <1>1 DEF Handler, HandlerPull, CheckEot, Eot, SendLast, HcePull, UiccPull, SaveConn, SaveClSap,
           stackVars
  <2>3. CallEffect("handler") /\ MwEffect("handler")
    BY <2>1, <2>2, CallStepEffect, IssueLlcpEffect DEF LlcpStep, dtaVars, appVars
  <2>4. UNCHANGED calls /\ RadioEffect /\ Busy("handler") /\ UNCHANGED <<cb, dtaQueue>>
    BY <2>3, CallStops DEF CallEffect, MwEffect
  <2>5. CASE Step("handler") = "StopRfDiscovery"
    BY <2>4, <2>5, StoppingStarts DEF Stops, Restarts
  <2>6. CASE Step("handler") = "Deactivate" /\ rf \in {"active", "asleep"}
    <3>1. PICK s \in Seq(Events) :
            /\ Report(s) /\ \A i \in DOMAIN s : ~Wakes(s[i])
            /\ rf \in {"active", "asleep", "emulating"} => \E i \in DOMAIN s : IdleEvent(s[i])
      BY <2>4, StoppedReports
    <3>2. \E i \in DOMAIN s : TellsEnd(s[i])
      BY <2>6, <3>1 DEF IdleEvent, TellsEnd
    <3> QED BY <2>4, <3>1, <3>2, EndAfter DEF Typed, StackTyped
  <2> QED BY <2>3, <2>5, <2>6, CallStops
<1>2. CASE StackThread \/ UNCHANGED vars
  BY <1>2 DEF StackThread, Callback, CallbackPush, vars, stackVars
<1>3. CASE AppEnable \/ AppDisable \/ App
  BY <1>3, AppStopsNothing
<1>4. CASE TesterActs
  <2>1. rf = "emulating"
    BY <1>4, TesterStops DEF TesterActs
  <2>2. Restarts
    BY <2>1, StopIsStart DEF Served, Restarts
  <2> QED BY <1>4, <2>2, TesterLeaves, OthersRestart DEF Typed
<1> QED BY <1>1, <1>2, <1>3, <1>4 DEF Next, NobodySelects

(* The application is about to start it, or the handler is, or the end of  *)
(* the contact is on its way, on which the handler stops and starts.       *)
WillRestart ==
  Live /\ llcpMode /\ rf = "stopped" =>
    appState = "off" \/ SettingUp \/ AppStarts \/ Restarts \/ EndReported

LEMMA WillRestartKept ==
  ASSUME StackAssumption, MwIfAssumption, DtaAssumption, StartAccepted, NobodySelects,
         OnTime, SetUpAccepted, OnHost, Typed, Typed', AppIdle, Off, Served, AppCalls, Chosen,
         WillRestart, [Next]_vars
  PROVE  WillRestart'
<1> SUFFICES ASSUME Live', llcpMode', rf' = "stopped"
             PROVE  \/ appState' = "off" \/ SettingUp' \/ AppStarts' \/ Restarts' \/ EndReported'
  BY DEF WillRestart
<1>1. Live
  BY LiveBefore
<1>2. CASE AppEnable
  BY <1>2, EnablesSettingUp
<1>3. CASE ~AppEnable /\ rf # "stopped"
  BY <1>1, <1>3, StopReported
<1>4. CASE ~AppEnable /\ rf = "stopped"
  <2>1. llcpMode
    BY <1>4, ModeKept
  <2>2. CASE appState = "off"
    BY <1>4, <2>2, OffIsStill DEF vars, dtaVars, appVars
  <2>3. CASE SettingUp
    BY <2>1, <2>3, SettingUpKept
  <2>4. CASE AppStarts
    BY <1>4, <2>4, AppStartsKept
  <2>5. CASE Restarts
    BY <1>4, <2>5, RestartsKept
  <2>6. CASE EndReported
    BY <2>1, <2>6, EndKept
  <2> QED BY <1>1, <1>4, <2>1, <2>2, <2>3, <2>4, <2>5, <2>6 DEF WillRestart
<1> QED BY <1>2, <1>3, <1>4

(* When everything has settled.                                            *)
LEMMA SettledPeers ==
  ASSUME DtaAssumption, ContactsKept, Asleep, rf # "selecting", WillRestart
  PROVE  LlcpResumes
<1> SUFFICES ASSUME Quiet, appState = "on", llcpMode
             PROVE  \/ rf = "discovering" \/ LinkUp
                    \/ rf = "active" /\ peer = "UNKNOWN"
  BY DEF LlcpResumes
<1>1. Typed /\ rf \in RfStates
  BY DEF ContactsKept, Typed, StackTyped
<1>2. ~Restarts /\ nfaOut = <<>>
  BY <1>1, QuietIsStill
<1>3. ~EndReported
  BY <1>2 DEF Quiet, CallbackIdle, ToDta, EndReported
<1>4. rf # "stopped"
  BY <1>2, <1>3 DEF WillRestart, Live, SettingUp, AppStarts
<1>5. rf # "asleep"
  <2> DEFINE X == {"Deactivate"}
  <2>1. SUFFICES ASSUME Will(X) PROVE FALSE
    BY DEF Asleep
  <2> HIDE DEF X
  <2>2. Busy("handler") /\ "handler" \in Threads
    BY <1>1, <2>1, WillIs
  <2>3. At("handler", "Exited")
    BY <2>2 DEF Quiet
  <2>4. Step("handler") \in StepsOf("handler")
    BY <1>1, <2>2, StepIs DEF Typed
  <2> QED BY <2>3, <2>4 DEF At, StepsOf, DiscoverySteps, TestSteps, LinkSteps, Pulls, Eots,
                            ListenSteps, Stops
<1>6. rf \in {"active", "emulating"} => LinkUp \/ (rf = "active" /\ peer = "UNKNOWN")
  BY KeptIsServed, <1>1 DEF NoForgottenContact, Unattended, LinkUp, Typed, StackTyped,
                            TagProtocols, ReaderProtocols, CeProtocols
<1> QED BY <1>1, <1>4, <1>5, <1>6 DEF RfStates

(* After a contact in LLCP mode, however it ended and whatever connections *)
(* it had, the radio looks for the next peer once everything has settled,  *)
(* for any protocols, peers, connections, bounds and lengths of the        *)
(* queues: a radio that was stopped is started by the application or by    *)
(* the handler, or the end of the contact is on its way to the handler; a  *)
(* tag that was put to sleep is deactivated; a contact that is not the     *)
(* peer's is served.  If the stack never refuses the commands that end     *)
(* contacts, that start discovery, or whose refusal ends the set-up of     *)
(* LLCP or of card emulation on the host; no other emulation is set up;    *)
(* no answer comes late in LLCP mode, and several targets never answer     *)
(* together.  A device of a protocol the middleware does not know is the   *)
(* exception: nobody is told of it, and it keeps the radio as long as it   *)
(* stays.                                                                  *)
THEOREM PeersResume ==
  EndsAccepted /\ StartAccepted /\ SetUpAccepted /\ OnHost /\ OnTime /\ OneTarget =>
    (Spec => []LlcpResumes)
<1> USE StackAssumption, MwIfAssumption, DtaAssumption
<1> DEFINE Inv == /\ ContactsKept /\ Sleeper /\ AppCalls /\ Asleep /\ rf # "selecting"
                  /\ Chosen /\ WillRestart
<1> SUFFICES ASSUME EndsAccepted, StartAccepted, SetUpAccepted, OnHost, OnTime, OneTarget
             PROVE  Spec => []LlcpResumes
  OBVIOUS
<1>1. Init => Inv
  <2> SUFFICES ASSUME Init PROVE Inv
    OBVIOUS
  <2>1. ContactsKept /\ AppCalls /\ Sleeper
    BY InitStopped
  <2>2. rf = "stopped" /\ ~llcpMode /\ mwQueue = <<>> /\ calls["handler"] = <<>>
    BY DEF Init, StackInit, MwInit, DtaAssumption
  <2>3. Asleep
    BY <2>2 DEF Asleep, SleepEnds
  <2> QED BY <2>1, <2>2, <2>3 DEF Chosen, WillRestart
<1>2. Inv /\ [Next]_vars => Inv'
  <2> SUFFICES ASSUME Inv, [Next]_vars PROVE Inv'
    OBVIOUS
  <2>1. ContactsKept'
    BY NextKept
  <2>2. Typed /\ Typed' /\ AppIdle /\ Off /\ Served /\ NobodySelects
    BY <2>1, SleeperActsNot DEF ContactsKept
  <2>3. Sleeper' BY <2>2, SleeperKept
  <2>4. AppCalls' BY <2>2, AppCallsKept
  <2>5. Asleep' BY <2>2, AsleepKept
  <2>6. rf' # "selecting" BY <2>2, SelectsNot
  <2>7. Chosen' BY <2>2, ChosenKept
  <2>8. WillRestart' BY <2>2, WillRestartKept
  <2> QED BY <2>1, <2>3, <2>4, <2>5, <2>6, <2>7, <2>8
<1>3. Inv => LlcpResumes
  BY SettledPeers
<1> QED BY <1>1, <1>2, <1>3, PTL DEF Spec

=============================================================================
