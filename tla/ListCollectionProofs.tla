------------------------ MODULE ListCollectionProofs ------------------------
(***************************************************************************)
(* For all listings, page sizes, budgets, deadlines and numbers of calls:  *)
(* the types of a search, no attempt and no pause beyond its deadline, and *)
(* what a search over several calls keeps: the cursor of a call that ends with its *)
(* budget has moved, every request is charged, and no filing is lost on the *)
(* way to the cursor.                                                      *)
(***************************************************************************)
EXTENDS ListCollection, SequenceTheorems, FiniteSetTheorems, TLAPS

-----------------------------------------------------------------------------
(* Time.                                                                    *)

(* A back-off is followed by another attempt, and an attempt is in one of   *)
(* its operations.                                                          *)
Timed ==
  /\ HttpTypeOK /\ InTime
  /\ \A t \in Clients : /\ http[t].at = "resting" => http[t].attempt < MaxRetries
                        /\ http[t].at = "sent" => http[t].operation > 0

Requests == [at : {"free", "starting", "sent", "resting", "over"}, attempt : 0..MaxRetries,
             began : Nat, operation : 0..MaxOperations, until : Nat, limited : BOOLEAN,
             result : Results]

(* What one request may become.                                             *)
GoodRequest(q) ==
  /\ q \in Requests
  /\ q.at = "sent" => q.began < EndsAt /\ q.operation > 0
  /\ (q.at = "sent" /\ q.operation = 1) \/ q.at = "resting"
       => now <= q.until /\ q.until <= EndsAt
  /\ q.at = "resting" => q.attempt < MaxRetries

LEMMA TimedIs == Timed <=> /\ now \in Nat
                           /\ http \in [Clients -> Requests]
                           /\ \A t \in Clients : GoodRequest(http[t])
  BY DEF Timed, HttpTypeOK, InTime, GetsNowhere, GoodRequest, Requests

LEMMA FreshGood == GoodRequest(Free) /\ GoodRequest(Fresh)
  <1>1. Free \in Requests /\ Free.at = "free"
    BY HttpAssumption DEF Requests, Free, Results
  <1>2. Fresh \in Requests /\ Fresh.at = "starting"
    BY <1>1 DEF Requests, Free, Fresh
  <1>3. QED
    BY <1>1, <1>2 DEF GoodRequest

(* One request changes, and no time passes.                                 *)
LEMMA OneRequest ==
  ASSUME Timed, NEW t \in Clients, NEW q, GoodRequest(q),
         http' = [http EXCEPT ![t] = q], UNCHANGED now
  PROVE  Timed'
  <1>1. /\ http' \in [Clients -> Requests]
        /\ \A u \in Clients : GoodRequest(http'[u])
    BY TimedIs DEF GoodRequest
  <1>2. \A u \in Clients : GoodRequest(http[u])'
    BY <1>1 DEF GoodRequest
  <1>3. QED
    BY <1>1, <1>2, TimedIs DEF Timed, HttpTypeOK, InTime, GetsNowhere, GoodRequest, Requests

LEMMA HttpTimed ==
  ASSUME Timed, NEW t \in Clients, HttpStep(t)
  PROVE  Timed'
  <1> DEFINE q == http[t]
  <1>1. /\ q \in Requests /\ now \in Nat /\ EndsAt \in Nat /\ MaxRetries \in Nat
        /\ MaxOperations \in Nat \ {0} /\ Timeout \in Nat \ {0} /\ UNCHANGED now
        /\ q.at = "resting" => q.attempt < MaxRetries
        /\ Pause(q.attempt) \in Nat /\ http \in [Clients -> Requests]
    BY TimedIs, HttpAssumption, PauseAssumption
       DEF GoodRequest, Requests, HttpStep, Starts, GoesOn, Answers, Stalls, Breaks, Wakes
  <1>2. ASSUME NEW result \in Results, Over(t, result) PROVE Timed'
    <2>1. http' = [http EXCEPT ![t] = [q EXCEPT !.at = "over", !.result = result]]
      BY <1>2 DEF Over
    <2>2. GoodRequest([q EXCEPT !.at = "over", !.result = result])
      BY <1>1 DEF GoodRequest, Requests
    <2>3. QED
      BY <1>1, <2>1, <2>2, OneRequest
  <1>3. ASSUME NEW result \in Results, RestsOrGivesUp(t, result) PROVE Timed'
    <2>1. CASE Over(t, result) \/ Over(t, "late")
      BY <1>2, <2>1 DEF Results
    <2>2. CASE /\ q.attempt < MaxRetries /\ Remaining > Pause(q.attempt)
               /\ http' = [http EXCEPT ![t].at = "resting", ![t].until = now + Pause(q.attempt)]
      <3> DEFINE rest == [q EXCEPT !.at = "resting", !.until = now + Pause(q.attempt)]
      <3>1. http' = [http EXCEPT ![t] = rest]
        BY <1>1, <2>2
      <3>2. GoodRequest(rest)
        <4>1. /\ rest \in Requests /\ rest.until = now + Pause(q.attempt)
              /\ rest.attempt = q.attempt /\ rest.at = "resting"
          <5> HIDE DEF q
          <5>1. q \in Requests /\ now + Pause(q.attempt) \in Nat
            BY <1>1
          <5>2. QED
            BY <5>1 DEF Requests
        <4>2. now <= now + Pause(q.attempt) /\ now + Pause(q.attempt) <= EndsAt
          BY <1>1, <2>2 DEF Remaining
        <4> HIDE DEF rest
        <4>3. QED
          BY <2>2, <4>1, <4>2 DEF GoodRequest
      <3>3. QED
        BY <1>1, <3>1, <3>2, OneRequest
    <2>3. QED
      BY <1>3, <2>1, <2>2 DEF RestsOrGivesUp
  <1>4. CASE Starts(t)
    <2>1. CASE Over(t, "late")
      BY <1>2, <2>1 DEF Results
    <2>2. CASE /\ Remaining > 0
               /\ http' = [http EXCEPT ![t].at = "sent", ![t].operation = 1, ![t].began = now,
                                       ![t].until = now + AttemptTimeout,
                                       ![t].limited = AttemptTimeout < Timeout]
      <3> DEFINE sent == [q EXCEPT !.at = "sent", !.operation = 1, !.began = now,
                                   !.until = now + AttemptTimeout,
                                   !.limited = AttemptTimeout < Timeout]
      <3>1. http' = [http EXCEPT ![t] = sent]
        BY <1>1, <2>2
      <3>2. /\ AttemptTimeout \in Nat /\ now + AttemptTimeout <= EndsAt /\ now < EndsAt
            /\ (AttemptTimeout < Timeout) \in BOOLEAN
        BY <1>1, <2>2 DEF AttemptTimeout, TimeoutAt, Remaining
      <3>3. GoodRequest(sent)
        <4>1. /\ sent \in Requests /\ sent.until = now + AttemptTimeout /\ sent.at = "sent"
              /\ sent.began = now /\ sent.operation = 1
          <5> HIDE DEF q
          <5>1. q \in Requests /\ now + AttemptTimeout \in Nat /\ 1 \in 0..MaxOperations
            BY <1>1, <3>2
          <5>2. QED
            BY <1>1, <3>2, <5>1 DEF Requests
        <4>2. now <= now + AttemptTimeout
          BY <1>1, <3>2
        <4> HIDE DEF sent
        <4>3. QED
          BY <3>2, <4>1, <4>2 DEF GoodRequest
      <3>4. QED
        BY <1>1, <3>1, <3>3, OneRequest
    <2>3. QED
      BY <1>4, <2>1, <2>2 DEF Starts
  <1>5. CASE Answers(t)
    BY <1>2, <1>5 DEF Answers, Results
  <1>6. CASE Stalls(t)
    BY <1>3, <1>6 DEF Stalls, Results
  <1>7. CASE Breaks(t)
    BY <1>2, <1>3, <1>7 DEF Breaks, Results
  <1>8. CASE Wakes(t)
    <2> DEFINE next == [q EXCEPT !.at = "starting", !.attempt = @ + 1]
    <2>1. http' = [http EXCEPT ![t] = next]
      BY <1>1, <1>8 DEF Wakes
    <2>2. GoodRequest(next)
      BY <1>1, <1>8 DEF Wakes, GoodRequest, Requests
    <2>3. QED
      BY <1>1, <2>1, <2>2, OneRequest
  <1>9. CASE GoesOn(t)
    <2> DEFINE more == [q EXCEPT !.operation = @ + 1, !.until = now + TimeoutAt(q.began)]
    <2>1. http' = [http EXCEPT ![t] = more]
      BY <1>1, <1>9 DEF GoesOn
    <2>2. q.at = "sent" /\ q.began \in Nat /\ q.began < EndsAt /\ q.operation > 0
      BY <1>9, TimedIs DEF GoesOn, GoodRequest, Requests
    <2>3. TimeoutAt(q.began) \in Nat
      BY <1>1, <2>2 DEF TimeoutAt
    <2>4. q.operation \in 0..MaxOperations /\ q.operation + 1 \in 0..MaxOperations
      BY <1>1, <1>9 DEF GoesOn, Requests
    <2>5. more \in Requests /\ more.at = "sent" /\ more.began = q.began
          /\ more.operation = q.operation + 1
      <3> HIDE DEF q
      <3>1. now + TimeoutAt(q.began) \in Nat
        BY <1>1, <2>3
      <3>2. QED
        BY <1>1, <2>2, <2>4, <3>1 DEF Requests
    <2> HIDE DEF more
    <2>6. GoodRequest(more)
      BY <2>2, <2>4, <2>5 DEF GoodRequest
    <2>7. QED
      BY <1>1, <2>1, <2>6, OneRequest
  <1>10. QED
    BY <1>4, <1>5, <1>6, <1>7, <1>8, <1>9 DEF HttpStep

(* Time does not pass beyond the earliest end of a wait.                    *)
LEMMA PassesTimed == Timed /\ Passes => Timed'
  <1> SUFFICES ASSUME Timed, Passes PROVE Timed'
    OBVIOUS
  <1>1. /\ now' = now + 1 /\ UNCHANGED http
        /\ \A u \in Waiting : http[u].until \in Nat /\ now' <= http[u].until
        /\ now \in Nat
    BY DEF Passes, Timed, HttpTypeOK, Waiting
  <1>2. QED
    BY <1>1 DEF Timed, InTime, GetsNowhere, HttpTypeOK, Waiting

LEMMA TimedStep == Timed /\ [Next]_vars => Timed'
  <1> SUFFICES ASSUME Timed, [Next]_vars PROVE Timed'
    OBVIOUS
  <1>1. CASE UNCHANGED <<now, http>>
    BY <1>1 DEF Timed, HttpTypeOK, InTime, GetsNowhere
  <1>2. ASSUME NEW from, NEW kept, Begins(from, kept) PROVE Timed'
    <2>1. now' = 0 /\ http' = [t \in Clients |-> Free]
      BY <1>2 DEF Begins
    <2>2. GoodRequest(Free) /\ GoodRequest(Free)'
      BY FreshGood DEF GoodRequest, Free
    <2>3. http' \in [Clients -> Requests] /\ now' \in Nat
      BY <2>1, <2>2, HttpAssumption DEF GoodRequest
    <2>4. \A t \in Clients : http'[t].at = "free"
      BY <2>1 DEF Free
    <2>5. QED
      BY <2>3, <2>4 DEF Timed, HttpTypeOK, InTime, GetsNowhere, Requests
  <1>3. CASE Begin
    BY <1>2, <1>3 DEF Begin
  <1>4. ASSUME NEW t \in Clients, ThreadStep(t) PROVE Timed'
    <2>1. CASE HttpStep(t)
      BY <2>1, HttpTimed
    <2>2. CASE Asks(t)
      BY <1>1, <2>2, FreshGood, OneRequest DEF Asks
    <2>3. CASE Reads(t)
      BY <2>3, FreshGood, OneRequest DEF Reads
    <2>4. QED
      BY <1>4, <2>1, <2>2, <2>3 DEF ThreadStep
  <1>5. CASE Tick
    BY <1>5, PassesTimed DEF Tick
  <1>6. CASE \/ AheadFails \/ AheadComes \/ TakesAhead \/ BudgetEnds \/ ListsPage \/ PageComes
            \/ PageFails \/ Completes \/ Publish \/ Rests \/ UNCHANGED vars
    BY <1>1, <1>6 DEF AheadFails, AheadComes, TakesAhead, BudgetEnds, ListsPage, PageComes,
                      PageFails, Completes, Return, Publish, Rests, vars
  <1>7. QED
    BY <1>3, <1>4, <1>5, <1>6 DEF Next

(* No thread starts an attempt or ends a pause beyond the deadline, and an  *)
(* attempt that reaches beyond it has gone on from its first operation.     *)
THEOREM RequestsInTime == Spec => []InTime
  <1>1. Init => Timed
    <2>1. Init => GoodRequest(Free) /\ now = 0 /\ http = [t \in Clients |-> Free]
      BY FreshGood DEF Init
    <2>2. QED
      BY <2>1, TimedIs, HttpAssumption DEF GoodRequest
  <1>2. Timed => InTime
    BY DEF Timed
  <1>3. QED
    BY <1>1, <1>2, TimedStep, PTL DEF Spec

-----------------------------------------------------------------------------
(* Types.                                                                   *)

LEMMA WindowFacts ==
  /\ Len(Catalog) \in Nat \ {0} /\ Windows = 1..Len(Catalog)
  /\ \A w \in Windows : Catalog[w] \in Seq(Nat)
  /\ PageCount \in Nat \ {0} /\ Budget \in Nat \ {0} /\ Concurrency \in Nat \ {0}
  /\ MaxCalls \in Nat \ {0}
  /\ Main \in Clients /\ Main \notin Threads /\ Clients = {Main} \cup Threads
  BY ListAssumption DEF Windows, Main, Threads

(* A window is its filings, and before those of the first one what has been *)
(* published since.                                                         *)
LEMMA RowsAre ==
  ASSUME published \in 0..Len(NewFilings), NEW w \in Windows
  PROVE  LET more == IF w = 1 THEN published ELSE 0 IN
         /\ Len(Rows(w)) = more + Len(Catalog[w]) /\ DOMAIN Rows(w) = 1..Len(Rows(w))
         /\ Len(Rows(w)) \in Nat /\ more \in Nat
         /\ \A i \in DOMAIN Rows(w) :
              Rows(w)[i] = IF i <= more THEN NewFilings[Len(NewFilings) - more + i]
                           ELSE Catalog[w][i - more]
  <1> DEFINE n == Len(NewFilings)
             recent == SubSeq(NewFilings, n - published + 1, n)
  <1>1. /\ NewFilings \in Seq(Nat) /\ n \in Nat /\ published \in Nat /\ published <= n
        /\ Catalog[w] \in Seq(Nat) /\ Len(Catalog[w]) \in Nat
    BY ListAssumption, WindowFacts
  <1>2. /\ recent \in Seq(Nat) /\ Len(recent) = published
        /\ \A i \in 1..published : recent[i] = NewFilings[n - published + i]
    BY <1>1
  <1> HIDE DEF recent, n
  <1>3. CASE w = 1
    <2>1. Rows(w) = recent \o Catalog[w]
      BY <1>3 DEF Rows, recent, n
    <2>2. /\ Len(Rows(w)) = published + Len(Catalog[w]) /\ DOMAIN Rows(w) = 1..Len(Rows(w))
          /\ \A i \in 1..Len(Rows(w)) :
               Rows(w)[i] = IF i <= published THEN recent[i] ELSE Catalog[w][i - published]
      <3>1. /\ recent \in Seq(Nat) /\ Catalog[w] \in Seq(Nat) /\ Len(recent) = published
            /\ published \in Nat /\ Len(Catalog[w]) \in Nat
        BY <1>1, <1>2
      <3>2. /\ Len(recent \o Catalog[w]) = Len(recent) + Len(Catalog[w])
            /\ \A i \in 1..Len(recent) + Len(Catalog[w]) :
                 (recent \o Catalog[w])[i] = IF i <= Len(recent) THEN recent[i]
                                             ELSE Catalog[w][i - Len(recent)]
            /\ recent \o Catalog[w] \in Seq(Nat)
        BY <3>1, ConcatProperties
      <3>3. QED
        BY <2>1, <3>1, <3>2
    <2>3. \A i \in DOMAIN Rows(w) : i <= published => Rows(w)[i] = NewFilings[n - published + i]
      BY <1>1, <1>2, <2>2
    <2>4. QED
      BY <1>1, <1>3, <2>2, <2>3 DEF n
  <1>4. CASE w # 1
    BY <1>1, <1>4 DEF Rows
  <1>5. QED
    BY <1>3, <1>4

LEMMA RowsFilings ==
  ASSUME published \in 0..Len(NewFilings), NEW w \in Windows, NEW i \in DOMAIN Rows(w)
  PROVE  Rows(w)[i] \in Filings
  <1> DEFINE more == IF w = 1 THEN published ELSE 0
  <1>1. /\ i \in 1..(more + Len(Catalog[w])) /\ more \in 0..Len(NewFilings)
        /\ Rows(w)[i] = IF i <= more THEN NewFilings[Len(NewFilings) - more + i]
                        ELSE Catalog[w][i - more]
    <2>1. /\ Len(Rows(w)) = more + Len(Catalog[w]) /\ DOMAIN Rows(w) = 1..Len(Rows(w))
          /\ Rows(w)[i] = IF i <= more THEN NewFilings[Len(NewFilings) - more + i]
                          ELSE Catalog[w][i - more]
      BY RowsAre
    <2>2. more \in 0..Len(NewFilings)
      BY ListAssumption
    <2> HIDE DEF more
    <2>3. QED
      BY <2>1, <2>2
  <1>2. /\ Len(NewFilings) \in Nat /\ DOMAIN NewFilings = 1..Len(NewFilings)
        /\ Len(Catalog[w]) \in Nat /\ DOMAIN Catalog[w] = 1..Len(Catalog[w])
    BY ListAssumption, WindowFacts
  <1> HIDE DEF more
  <1>3. CASE i <= more
    <2>1. Len(NewFilings) - more + i \in DOMAIN NewFilings
      BY <1>1, <1>2, <1>3
    <2>2. QED
      BY <1>1, <1>3, <2>1 DEF Filings, RangeOf
  <1>4. CASE ~(i <= more)
    <2>1. i - more \in DOMAIN Catalog[w]
      BY <1>1, <1>2, <1>4
    <2>2. QED
      BY <1>1, <1>4, <2>1 DEF Filings, RangeOf
  <1>5. QED
    BY <1>3, <1>4

LEMMA AnswerType ==
  ASSUME published \in 0..Len(NewFilings), NEW w \in Windows, NEW p \in Nat \ {0}
  PROVE  Answer(w, p) \in AnswerTypes
  BY RowsFilings DEF Answer, AnswerTypes

(* What is being asked for has its window and page.                         *)
AskTypes == [at : {"ask", "asked"}, window : Windows, page : Nat \ {0}, again : BOOLEAN]

LEMMA TaskTypes ==
  ASSUME NEW q \in Tasks
  PROVE  /\ q.at \in {"none", "failed", "late", "ask", "asked", "page"}
         /\ q.at \in {"ask", "asked"} => q \in AskTypes
         /\ q.at = "page" => q = [at |-> "page", answer |-> q.answer] /\ q.answer \in AnswerTypes
  BY DEF Tasks, AskTypes

LEMMA TasksAre ==
  /\ \A how \in {"none", "failed", "late"} : [at |-> how] \in Tasks
  /\ \A q \in AskTypes : q \in Tasks
  /\ \A a \in AnswerTypes : [at |-> "page", answer |-> a] \in Tasks
  /\ NoTask \in Tasks
  /\ \A w \in Windows, p \in Nat \ {0} : Asking(w, p) \in AskTypes
  BY DEF Tasks, AskTypes, NoTask, Asking

(* Everything but the requests themselves.                                  *)
Typed ==
  /\ published \in 0..Len(NewFilings)
  /\ pc \in {"idle", "ahead", "loop", "page"}
  /\ start \in Cursors /\ cursor \in Cursors
  /\ task \in [Clients -> Tasks]
  /\ ahead \subseteq AnswerTypes
  /\ begun \in Nat /\ before \in Nat /\ counted \in Nat /\ before <= begun
  /\ collected \subseteq Filings /\ gathered \subseteq Filings
  /\ ended \in {"none", "complete", "budget", "late", "failed"}
  /\ calls \in 0..MaxCalls
  /\ pc = "page" => cursor.window <= Len(Catalog)

(* What a step of one thread does to its task.                              *)
Step(t, q, more) == task' = [task EXCEPT ![t] = q] /\ begun' = begun + more

LEMMA ThreadTasks ==
  ASSUME Typed, NEW t \in Clients, ThreadStep(t)
  PROVE  \/ UNCHANGED <<task, begun>>
         \/ task[t].at = "ask" /\ Step(t, [at |-> "late"], 0)
         \/ task[t].at = "ask" /\ Step(t, [task[t] EXCEPT !.at = "asked"], 1)
         \/ task[t].at = "asked" /\ Step(t, [at |-> "page", answer |-> Answer(task[t].window, task[t].page)], 0)
         \/ task[t].at = "asked" /\ ~task[t].again /\ Step(t, [task[t] EXCEPT !.at = "ask", !.again = TRUE], 0)
         \/ task[t].at = "asked" /\ \E how \in {"failed", "late"} : Step(t, [at |-> how], 0)
  <1>1. task \in [Clients -> Tasks] /\ begun \in Nat
    BY DEF Typed
  <1>2. CASE Asks(t)
    BY <1>1, <1>2 DEF Asks, Ends, Step
  <1>3. CASE Reads(t)
    <2>1. begun' = begun + 0
      BY <1>1, <1>3 DEF Reads
    <2>2. CASE task' = [task EXCEPT ![t] = [at |-> "page", answer |-> Answer(@.window, @.page)]]
      BY <1>1, <1>3, <2>1, <2>2 DEF Reads, Step
    <2>3. CASE ~task[t].again /\ task' = [task EXCEPT ![t].at = "ask", ![t].again = TRUE]
      BY <1>1, <1>3, <2>1, <2>3 DEF Reads, Step
    <2>4. CASE Ends(t, "failed") \/ Ends(t, "late")
      BY <1>1, <1>3, <2>1, <2>4 DEF Reads, Ends, Step
    <2>5. QED
      BY <1>3, <2>2, <2>3, <2>4 DEF Reads
  <1>4. QED
    BY <1>2, <1>3 DEF ThreadStep

LEMMA ThreadTyped ==
  ASSUME Typed, NEW t \in Clients, ThreadStep(t)
  PROVE  task' \in [Clients -> Tasks] /\ begun' \in Nat /\ before <= begun'
  <1> DEFINE q == task[t]
  <1>1. q \in Tasks /\ task \in [Clients -> Tasks] /\ begun \in Nat /\ before \in Nat /\ before <= begun
    BY DEF Typed
  <1>2. ASSUME q.at \in {"ask", "asked"}
        PROVE  /\ [q EXCEPT !.at = "asked"] \in AskTypes
               /\ [q EXCEPT !.at = "ask", !.again = TRUE] \in AskTypes
               /\ Answer(q.window, q.page) \in AnswerTypes
    <2>1. q \in AskTypes
      BY <1>1, <1>2, TaskTypes
    <2>2. q.window \in Windows /\ q.page \in Nat \ {0}
      BY <2>1 DEF AskTypes
    <2>3. Answer(q.window, q.page) \in AnswerTypes
      BY <2>2, AnswerType DEF Typed
    <2> HIDE DEF q
    <2>4. QED
      BY <2>1, <2>3 DEF AskTypes
  <1>3. ASSUME NEW r \in Tasks, NEW more \in Nat, Step(t, r, more)
        PROVE  task' \in [Clients -> Tasks] /\ begun' \in Nat /\ before <= begun'
    BY <1>1, <1>3 DEF Step
  <1> HIDE DEF q
  <1>4. CASE UNCHANGED <<task, begun>>
    BY <1>1, <1>4
  <1>5. CASE q.at = "ask" /\ Step(t, [at |-> "late"], 0)
    BY <1>3, <1>5, TasksAre
  <1>6. CASE q.at = "ask" /\ Step(t, [q EXCEPT !.at = "asked"], 1)
    <2>1. [q EXCEPT !.at = "asked"] \in Tasks
      BY <1>2, <1>6, TasksAre
    <2>2. QED
      BY <1>3, <1>6, <2>1
  <1>7. CASE q.at = "asked" /\ Step(t, [at |-> "page", answer |-> Answer(q.window, q.page)], 0)
    <2>1. [at |-> "page", answer |-> Answer(q.window, q.page)] \in Tasks
      BY <1>2, <1>7, TasksAre
    <2>2. QED
      BY <1>3, <1>7, <2>1
  <1>8. CASE q.at = "asked" /\ Step(t, [q EXCEPT !.at = "ask", !.again = TRUE], 0)
    <2>1. [q EXCEPT !.at = "ask", !.again = TRUE] \in Tasks
      BY <1>2, <1>8, TasksAre
    <2>2. QED
      BY <1>3, <1>8, <2>1
  <1>9. CASE q.at = "asked" /\ \E how \in {"failed", "late"} : Step(t, [at |-> how], 0)
    BY <1>3, <1>9, TasksAre
  <1>10. QED
    BY ThreadTasks, <1>4, <1>5, <1>6, <1>7, <1>8, <1>9 DEF q

LEMMA AheadTyped ==
  ASSUME NEW from \in Cursors
  PROVE  /\ AheadTasks(from) \in [Clients -> Tasks]
         /\ \A t \in 1..AheadCount(from) : t \in Threads /\ from.window + t - 1 \in Windows
         /\ AheadCount(from) <= Budget /\ AheadCount(from) <= Concurrency
         /\ AheadCount(from) \in Nat
         /\ from.window <= Len(Catalog) => 1 \in 1..AheadCount(from)
  <1>1. from.window \in 1..(Len(Catalog) + 1)
    BY DEF Cursors
  <1>2. /\ AheadCount(from) \in Nat /\ AheadCount(from) <= Len(Catalog) - from.window + 1
        /\ AheadCount(from) <= Budget /\ AheadCount(from) <= Concurrency
        /\ from.window <= Len(Catalog) => AheadCount(from) >= 1
    BY <1>1, WindowFacts DEF AheadCount, Fewer
  <1>3. \A t \in 1..AheadCount(from) : t \in Threads /\ from.window + t - 1 \in Windows
    BY <1>1, <1>2, WindowFacts DEF Threads
  <1>4. \A t \in 1..AheadCount(from) : Asking(from.window + t - 1, 1) \in Tasks
    BY <1>3, TasksAre
  <1>5. QED
    BY <1>2, <1>3, <1>4, TasksAre DEF AheadTasks

LEMMA BeginsTyped ==
  ASSUME Typed, NEW from \in Cursors, NEW kept \in SUBSET Filings, Begins(from, kept)
  PROVE  Typed'
  <1>1. task' \in [Clients -> Tasks]
    BY AheadTyped, TasksAre DEF Begins
  <1>2. calls' \in 0..MaxCalls
    BY WindowFacts DEF Begins, Typed
  <1>3. QED
    BY <1>1, <1>2 DEF Typed, Begins

LEMMA TakesTyped ==
  ASSUME Typed, cursor.window <= Len(Catalog), NEW answer \in AnswerTypes, Takes(answer)
  PROVE  cursor' \in Cursors /\ collected' \subseteq Filings
  <1>1. cursor \in Cursors /\ Len(Catalog) \in Nat /\ collected \subseteq Filings
    BY WindowFacts DEF Typed
  <1>2. NextWindow \in Cursors /\ [cursor EXCEPT !.page = @ + 1] \in Cursors
    BY <1>1 DEF NextWindow, Cursors
  <1>3. answer.rows \subseteq Filings
    BY DEF AnswerTypes
  <1>4. QED
    BY <1>1, <1>2, <1>3 DEF Takes

LEMMA ReturnTyped ==
  ASSUME Typed, NEW how \in {"complete", "budget", "late", "failed"}, Return(how), counted' \in Nat
  PROVE  Typed'
  BY TasksAre DEF Typed, Return

LEMMA TypedStep == Typed /\ [Next]_vars => Typed'
  <1> SUFFICES ASSUME Typed, [Next]_vars PROVE Typed'
    OBVIOUS
  <1> DEFINE first == [window |-> 1, page |-> 1]
  <1>1. first \in Cursors /\ {} \subseteq Filings /\ Charged \in Nat
    BY WindowFacts DEF Cursors, Charged, Typed
  <1>2. CASE Begin
    <2>1. cursor \in Cursors /\ start \in Cursors /\ gathered \in SUBSET Filings
      BY DEF Typed
    <2> HIDE DEF first
    <2>2. Begins(first, {}) \/ Begins(cursor, gathered) \/ Begins(start, gathered)
      BY <1>2 DEF Begin, first
    <2>3. QED
      BY <1>1, <2>1, <2>2, BeginsTyped
  <1>3. CASE AheadFails
    BY <1>1, <1>3, ReturnTyped DEF AheadFails, Raised
  <1>4. CASE AheadComes
    <2>1. \A t \in Clients : task[t].at = "page" => task[t].answer \in AnswerTypes
      BY TaskTypes DEF Typed
    <2>2. ahead' \subseteq AnswerTypes
      BY <1>4, <2>1, WindowFacts DEF AheadComes
    <2>3. QED
      BY <1>1, <1>4, <2>2, TasksAre DEF AheadComes, Typed
  <1>5. CASE TakesAhead
    <2>1. PICK answer \in AnswerTypes : Takes(answer) /\ ahead' \subseteq ahead
      BY <1>5 DEF TakesAhead, Prefetched, Typed
    <2>2. cursor' \in Cursors /\ collected' \subseteq Filings
      BY <1>5, <2>1, TakesTyped DEF TakesAhead, Looping
    <2>3. QED
      BY <1>5, <2>1, <2>2 DEF TakesAhead, Looping, Typed
  <1>6. CASE BudgetEnds
    BY <1>6, ReturnTyped DEF BudgetEnds, Typed
  <1>7. CASE ListsPage
    <2>1. Asking(cursor.window, cursor.page) \in Tasks
      BY <1>7, TasksAre, WindowFacts DEF ListsPage, Looping, Typed, Cursors
    <2>2. QED
      BY <1>7, <2>1, WindowFacts DEF ListsPage, Looping, Typed
  <1>8. CASE PageComes
    <2>1. task[Main].answer \in AnswerTypes
      BY <1>8, TaskTypes, WindowFacts DEF PageComes, Typed
    <2>2. cursor' \in Cursors /\ collected' \subseteq Filings
      BY <1>8, <2>1, TakesTyped DEF PageComes, Typed
    <2>3. QED
      BY <1>1, <1>8, <2>2, TasksAre DEF PageComes, Typed
  <1>9. CASE PageFails
    BY <1>1, <1>9, ReturnTyped DEF PageFails, Raised
  <1>10. CASE Completes
    BY <1>10, ReturnTyped DEF Completes, Typed
  <1>11. ASSUME NEW t \in Clients, ThreadStep(t) PROVE Typed'
    BY <1>11, ThreadTyped DEF ThreadStep, Typed
  <1>12. CASE Publish
    BY <1>12, ListAssumption DEF Publish, Typed
  <1>13. CASE Tick \/ Rests \/ UNCHANGED vars
    BY <1>13 DEF Tick, Rests, vars, Typed
  <1>14. QED
    BY <1>2, <1>3, <1>4, <1>5, <1>6, <1>7, <1>8, <1>9, <1>10, <1>11, <1>12, <1>13 DEF Next

LEMMA TypedInit == Init => Typed
  BY TasksAre, WindowFacts, ListAssumption DEF Init, Typed, Cursors

(* The variables of a search always have their types: the windows asked for *)
(* are windows of the period, and the pages start at 1.                     *)
THEOREM ListTypeCorrect == Spec => []TypeOK
  <1>1. Init => Timed
    <2>1. Init => GoodRequest(Free) /\ now = 0 /\ http = [t \in Clients |-> Free]
      BY FreshGood DEF Init
    <2>2. QED
      BY <2>1, TimedIs, HttpAssumption DEF GoodRequest
  <1>2. Timed /\ Typed => TypeOK
    BY DEF Timed, Typed, TypeOK
  <1>3. QED
    BY <1>1, <1>2, TimedStep, TypedInit, TypedStep, PTL DEF Spec

-----------------------------------------------------------------------------
(* The cursor.                                                              *)

(* The first thread fetches the page the call starts at.                    *)
AsksFirst(q) ==
  /\ q.at # "none"
  /\ q.at \in {"ask", "asked"} => q.window = start.window
  /\ q.at = "page" => q.answer.window = start.window

Advance ==
  /\ start.window <= Len(Catalog)
  /\ pc # "idle" => ended = "none"
  /\ ended = "budget" => cursor.window <= Len(Catalog)
  /\ pc = "ahead" => cursor = start /\ start.page = 1 /\ counted = 0 /\ AsksFirst(task[1])
  /\ pc \in {"loop", "page"} => Further(cursor, start) \/ cursor = start
  /\ pc = "loop" => \/ Further(cursor, start) \/ counted = 0
                    \/ start.page = 1 /\ \E a \in ahead : a.window = start.window

LEMMA FurtherOn ==
  ASSUME Typed, Further(cursor, start) \/ cursor = start, NEW answer, Takes(answer)
  PROVE  Further(cursor', start)
  <1>1. /\ cursor = [window |-> cursor.window, page |-> cursor.page]
        /\ cursor.window \in Nat /\ cursor.page \in Nat /\ start.window \in Nat /\ start.page \in Nat
    BY WindowFacts DEF Typed, Cursors
  <1>2. CASE cursor' = NextWindow
    BY <1>1, <1>2 DEF NextWindow, Further
  <1>3. CASE cursor' = [cursor EXCEPT !.page = @ + 1]
    BY <1>1, <1>3 DEF Further
  <1>4. QED
    BY <1>2, <1>3 DEF Takes

LEMMA AdvanceBegins ==
  ASSUME Typed, NEW from \in Cursors, from.window <= Len(Catalog), NEW kept, Begins(from, kept)
  PROVE  Advance'
  <1>1. 1 \in 1..AheadCount(from) /\ 1 \in Clients
    BY AheadTyped, WindowFacts
  <1>2. pc' = "ahead" => from.page = 1 /\ task'[1] = Asking(from.window, 1)
    <2>1. from.window + 1 - 1 = from.window
      BY WindowFacts DEF Cursors
    <2>2. QED
      BY <1>1, <2>1 DEF Begins, AheadTasks, FetchesAhead
  <1>3. start' = from /\ cursor' = from /\ counted' = 0 /\ ended' = "none" /\ pc' \in {"ahead", "loop"}
    BY DEF Begins
  <1>4. QED
    BY <1>2, <1>3 DEF Advance, AsksFirst, Asking

LEMMA AdvanceThread ==
  ASSUME Typed, Advance, NEW t \in Clients, ThreadStep(t)
  PROVE  Advance'
  <1>1. UNCHANGED <<pc, start, cursor, ahead, counted, ended>>
    BY DEF ThreadStep
  <1>2. ASSUME pc = "ahead" PROVE AsksFirst(task[1])'
    <2> DEFINE q == task[1]
    <2>1. AsksFirst(q) /\ q \in Tasks /\ task \in [Clients -> Tasks] /\ 1 \in Clients
      BY <1>2, WindowFacts DEF Advance, Typed, Threads
    <2>2. q.at \in {"ask", "asked"} => q \in AskTypes
      BY <2>1, TaskTypes
    <2>3. ASSUME NEW r, NEW more, Step(t, r, more), AsksFirst(r) PROVE AsksFirst(task'[1])
      BY <2>1, <2>3 DEF Step, AsksFirst
    <2>4. CASE t # 1
      BY <1>1, <2>1, <2>4, ThreadTasks DEF Step, AsksFirst
    <2>5. CASE t = 1
      <3>1. CASE UNCHANGED task
        BY <1>1, <2>1, <3>1 DEF AsksFirst
      <3>2. \A how \in {"failed", "late"} : AsksFirst([at |-> how])
        BY DEF AsksFirst
      <3>3. q.at \in {"ask", "asked"} =>
              /\ AsksFirst([q EXCEPT !.at = "asked"])
              /\ AsksFirst([q EXCEPT !.at = "ask", !.again = TRUE])
              /\ AsksFirst([at |-> "page", answer |-> Answer(q.window, q.page)])
        <4> HIDE DEF q
        <4>1. QED
          BY <2>1, <2>2 DEF AsksFirst, AskTypes, Answer
      <3>4. AsksFirst(task'[1])
        BY <2>1, <2>3, <2>5, <3>1, <3>2, <3>3, ThreadTasks
      <3>5. QED
        BY <1>1, <3>4 DEF AsksFirst
    <2>6. QED
      BY <2>4, <2>5
  <1>3. QED
    BY <1>1, <1>2 DEF Advance, Further

LEMMA MovedOn ==
  ASSUME Advance, Further(cursor', start), UNCHANGED <<start, ended>>, pc' = "loop", pc # "idle"
  PROVE  Advance'
  BY DEF Advance, Further

LEMMA AdvanceStep == Typed /\ Advance /\ [Next]_vars => Advance'
  <1> SUFFICES ASSUME Typed, Advance, [Next]_vars PROVE Advance'
    OBVIOUS
  <1>1. CASE Begin
    <2> DEFINE first == [window |-> 1, page |-> 1]
    <2>1. /\ first \in Cursors /\ first.window <= Len(Catalog)
          /\ cursor \in Cursors /\ start \in Cursors
      BY WindowFacts DEF Cursors, Typed
    <2>2. \/ Begins(first, {})
          \/ Begins(cursor, gathered) /\ cursor.window <= Len(Catalog)
          \/ Begins(start, gathered) /\ start.window <= Len(Catalog)
      BY <1>1 DEF Begin, Advance
    <2> HIDE DEF first
    <2>3. QED
      BY <2>1, <2>2, AdvanceBegins
  <1>2. CASE AheadFails \/ PageFails
    BY <1>2 DEF AheadFails, PageFails, Return, Raised, Advance
  <1>3. CASE AheadComes
    <2>1. 1 \in Threads /\ 1 \in Clients
      BY WindowFacts DEF Threads
    <2>2. task[1].at = "page" /\ task[1].answer.window = start.window
      <3>1. task[1].at # "none" /\ 1 \notin Failed
        BY <1>3 DEF AheadComes, Fetched, Advance, AsksFirst
      <3>2. QED
        BY <1>3, <2>1, <3>1 DEF AheadComes, Fetched, Done, Failed, Advance, AsksFirst
    <2>3. \E a \in ahead' : a.window = start.window
      BY <1>3, <2>1, <2>2 DEF AheadComes
    <2>4. QED
      BY <1>3, <2>3 DEF AheadComes, Fetched, Advance
  <1>4. CASE TakesAhead
    <2>1. PICK answer : Takes(answer)
      BY <1>4 DEF TakesAhead
    <2>2. Further(cursor', start)
      BY <1>4, <2>1, FurtherOn DEF TakesAhead, Looping, Advance
    <2>3. QED
      BY <1>4, <2>2, MovedOn DEF TakesAhead, Looping, Advance
  <1>5. CASE BudgetEnds
    BY <1>5 DEF BudgetEnds, Looping, Return, Advance
  <1>6. CASE ListsPage
    BY <1>6 DEF ListsPage, Looping, Advance, Further
  <1>7. CASE PageComes
    <2>1. Further(cursor', start)
      BY <1>7, FurtherOn DEF PageComes, Advance
    <2>2. QED
      BY <1>7, <2>1, MovedOn DEF PageComes, Advance
  <1>8. CASE Completes
    BY <1>8 DEF Completes, Return, Advance
  <1>9. CASE \E t \in Clients : ThreadStep(t)
    BY <1>9, AdvanceThread
  <1>10. CASE Publish \/ Tick \/ Rests \/ UNCHANGED vars
    BY <1>10 DEF Publish, Tick, Rests, vars, Advance, AsksFirst, Further
  <1>11. QED
    BY <1>1, <1>2, <1>3, <1>4, <1>5, <1>6, <1>7, <1>8, <1>9, <1>10 DEF Next

(* A call that stops at its budget has moved the cursor: of the pages it    *)
(* fetched ahead it takes at least the first one before it looks at what is *)
(* left of the budget.                                                      *)
THEOREM CursorAdvances == Spec => CursorMoves
  <1>1. Init => Advance
    BY WindowFacts DEF Init, Advance
  <1>2. Typed /\ Advance /\ [Next]_vars
        => (ended' = "budget" /\ ended # "budget" => Further(cursor, start))
    <2> SUFFICES ASSUME Typed, Advance, [Next]_vars, ended' = "budget", ended # "budget"
                 PROVE  Further(cursor, start)
      OBVIOUS
    <2>1. BudgetEnds
      BY DEF Next, Begin, Begins, AheadFails, AheadComes, TakesAhead, ListsPage, PageComes, PageFails,
             Completes, ThreadStep, Publish, Tick, Rests, vars, Return, Raised
    <2>2. pc = "loop" /\ Prefetched = {} /\ counted > 0
      BY <2>1, WindowFacts DEF BudgetEnds, Looping, Typed
    <2>3. Further(cursor, start) \/ cursor = start
      BY <2>2 DEF Advance
    <2>4. cursor = start /\ start.page = 1 => ~\E a \in ahead : a.window = start.window
      BY <2>2 DEF Prefetched
    <2>5. QED
      BY <2>2, <2>3, <2>4 DEF Advance, Typed
  <1>3. QED
    BY <1>1, <1>2, AdvanceStep, TypedInit, TypedStep, PTL DEF Spec, CursorMoves

-----------------------------------------------------------------------------
(* The budget.                                                              *)

(* Requests still to be sent, and requests that may be sent once more.      *)
Owed == {t \in Clients : task[t].at = "ask"}
Spare == {t \in Clients : task[t].at \in {"ask", "asked"} /\ ~task[t].again}

ChargedSoFar ==
  /\ pc \in {"idle", "loop"} => counted = begun /\ \A t \in Clients : task[t].at = "none"
  /\ pc \in {"ahead", "page"} => counted = before
  /\ pc = "page" => \A t \in Threads : task[t].at = "none"
  /\ begun + Cardinality(Owed) + Cardinality(Spare) <= Budget + Concurrency

LEMMA OwedFinite ==
  /\ \A S \in SUBSET Clients : IsFiniteSet(S) /\ Cardinality(S) \in Nat
  /\ Owed \subseteq Clients /\ Spare \subseteq Clients
  <1>1. IsFiniteSet(Threads) /\ IsFiniteSet(Clients)
    <2>1. IsFiniteSet(Threads)
      BY WindowFacts, FS_Interval DEF Threads
    <2>2. Clients = Threads \cup {Main}
      BY WindowFacts
    <2>3. QED
      BY <2>1, <2>2, FS_AddElement
  <1>2. \A S \in SUBSET Clients : IsFiniteSet(S)
    BY <1>1, FS_Subset
  <1>3. QED
    BY <1>2, FS_CardinalityType DEF Owed, Spare

(* Nothing is owed when no task is under way.                               *)
LEMMA NoneOwed ==
  ASSUME \A t \in Clients : task'[t].at \notin {"ask", "asked"}
  PROVE  Cardinality(Owed)' = 0 /\ Cardinality(Spare)' = 0
  <1>1. Owed' = {} /\ Spare' = {}
    BY DEF Owed, Spare
  <1>2. QED
    BY <1>1, FS_EmptySet

LEMMA ThreadCharged ==
  ASSUME Typed, ChargedSoFar, NEW t \in Clients, ThreadStep(t)
  PROVE  begun' + Cardinality(Owed)' + Cardinality(Spare)' <= Budget + Concurrency
  <1> DEFINE q == task[t]
             bound == Budget + Concurrency
  <1>1. /\ task \in [Clients -> Tasks] /\ q \in Tasks /\ begun \in Nat /\ bound \in Nat
        /\ begun + Cardinality(Owed) + Cardinality(Spare) <= bound
        /\ q.at \in {"ask", "asked"} => q \in AskTypes
    BY TaskTypes, WindowFacts DEF ChargedSoFar, Typed
  <1>2. /\ IsFiniteSet(Owed) /\ Cardinality(Owed) \in Nat
        /\ IsFiniteSet(Spare) /\ Cardinality(Spare) \in Nat
    BY OwedFinite
  <1>3. /\ t \in Owed <=> q.at = "ask"
        /\ t \in Spare <=> q.at \in {"ask", "asked"} /\ ~q.again
    BY DEF Owed, Spare
  <1>4. /\ Cardinality(Owed \ {t}) = IF t \in Owed THEN Cardinality(Owed) - 1 ELSE Cardinality(Owed)
        /\ Cardinality(Spare \ {t}) = IF t \in Spare THEN Cardinality(Spare) - 1 ELSE Cardinality(Spare)
        /\ Cardinality(Owed \cup {t}) = IF t \in Owed THEN Cardinality(Owed) ELSE Cardinality(Owed) + 1
    BY <1>2, FS_RemoveElement, FS_AddElement
  <1>5. ASSUME NEW r, NEW more, Step(t, r, more)
        PROVE  /\ r.at = "ask" => Owed' = Owed \cup {t}
               /\ r.at # "ask" => Owed' = Owed \ {t}
               /\ r.at \in {"ask", "asked"} /\ ~r.again => Spare' = Spare \cup {t}
               /\ ~(r.at \in {"ask", "asked"} /\ ~r.again) => Spare' = Spare \ {t}
               /\ begun' = begun + more
    BY <1>1, <1>5 DEF Step, Owed, Spare
  <1> HIDE DEF q, bound
  <1>6. CASE UNCHANGED <<task, begun>>
    <2>1. Owed' = Owed /\ Spare' = Spare /\ begun' = begun
      BY <1>6 DEF Owed, Spare
    <2>2. QED
      BY <1>1, <2>1 DEF bound
  <1>7. ASSUME NEW r, Step(t, r, 0), r.at \notin {"ask", "asked"}
        PROVE  begun' + Cardinality(Owed)' + Cardinality(Spare)' <= bound
    <2>1. Owed' = Owed \ {t} /\ Spare' = Spare \ {t} /\ begun' = begun + 0
      BY <1>5, <1>7
    <2>2. QED
      BY <1>1, <1>2, <1>4, <2>1
  <1>8. CASE q.at = "ask" /\ Step(t, [q EXCEPT !.at = "asked"], 1)
    <2> DEFINE r == [q EXCEPT !.at = "asked"]
    <2>1. r.at = "asked" /\ r.again = q.again
      BY <1>1, <1>8 DEF AskTypes
    <2>2. Owed' = Owed \ {t} /\ begun' = begun + 1 /\ Spare' = Spare
      <3> HIDE DEF r
      <3>1. Step(t, r, 1)
        BY <1>8 DEF r
      <3>2. /\ Owed' = Owed \ {t} /\ begun' = begun + 1
            /\ ~r.again => Spare' = Spare \cup {t}
            /\ r.again => Spare' = Spare \ {t}
        BY <1>5, <2>1, <3>1
      <3>3. QED
        BY <1>3, <1>8, <2>1, <3>2
    <2>3. Cardinality(Owed)' = Cardinality(Owed) - 1 /\ Cardinality(Spare)' = Cardinality(Spare)
      BY <1>3, <1>4, <1>8, <2>2
    <2> HIDE DEF r
    <2>4. QED
      BY <1>1, <1>2, <2>2, <2>3 DEF bound
  <1>9. CASE q.at = "asked" /\ ~q.again /\ Step(t, [q EXCEPT !.at = "ask", !.again = TRUE], 0)
    <2> DEFINE r == [q EXCEPT !.at = "ask", !.again = TRUE]
    <2>1. r.at = "ask" /\ r.again
      BY <1>1, <1>9 DEF AskTypes
    <2>2. Owed' = Owed \cup {t} /\ begun' = begun + 0 /\ Spare' = Spare \ {t}
      BY <1>5, <1>9, <2>1
    <2>3. Cardinality(Owed)' <= Cardinality(Owed) + 1 /\ Cardinality(Spare)' = Cardinality(Spare) - 1
          /\ Cardinality(Owed)' \in Nat
      BY <1>2, <1>3, <1>4, <1>9, <2>2
    <2> HIDE DEF r
    <2>4. QED
      BY <1>1, <1>2, <2>2, <2>3 DEF bound
  <1>10. QED
    BY ThreadTasks, <1>6, <1>7, <1>8, <1>9 DEF q, bound

LEMMA BeginsCharged ==
  ASSUME Typed, NEW from \in Cursors, NEW kept, Begins(from, kept)
  PROVE  ChargedSoFar'
  <1>1. begun' = 0 /\ before' = 0 /\ counted' = 0 /\ Budget \in Nat /\ Concurrency \in Nat
    BY WindowFacts DEF Begins
  <1>2. CASE FetchesAhead(from)
    <2> DEFINE some == 1..AheadCount(from)
    <2>1. pc' = "ahead" /\ task' = AheadTasks(from)
      BY <1>2 DEF Begins
    <2>2. some \subseteq Clients /\ AheadCount(from) \in Nat
          /\ AheadCount(from) <= Budget /\ AheadCount(from) <= Concurrency
      BY AheadTyped, WindowFacts
    <2>3. Owed' = some /\ Spare' = some
      BY <2>1, <2>2 DEF AheadTasks, Owed, Spare, Asking, NoTask
    <2>4. Cardinality(some) = AheadCount(from)
      BY <2>2, FS_Interval
    <2>5. QED
      BY <1>1, <2>1, <2>2, <2>3, <2>4 DEF ChargedSoFar
  <1>3. CASE ~FetchesAhead(from)
    <2>1. pc' = "loop" /\ \A t \in Clients : task'[t].at = "none"
      BY <1>3 DEF Begins, NoTask
    <2>2. QED
      BY <1>1, <2>1, NoneOwed DEF ChargedSoFar
  <1>4. QED
    BY <1>2, <1>3

LEMMA ChargedLoop ==
  ASSUME Typed, ChargedSoFar, pc' \in {"idle", "loop"}, UNCHANGED begun, counted' = begun,
         \A t \in Clients : task'[t].at = "none"
  PROVE  ChargedSoFar'
  <1>1. /\ Cardinality(Owed) \in Nat /\ Cardinality(Spare) \in Nat /\ begun \in Nat
        /\ Budget \in Nat /\ Concurrency \in Nat
    BY OwedFinite, WindowFacts DEF Typed
  <1>2. QED
    BY <1>1, NoneOwed DEF ChargedSoFar

LEMMA ChargedStep == Typed /\ ChargedSoFar /\ [Next]_vars => ChargedSoFar'
  <1> SUFFICES ASSUME Typed, ChargedSoFar, [Next]_vars PROVE ChargedSoFar'
    OBVIOUS
  <1>1. CASE Begin
    <2> DEFINE first == [window |-> 1, page |-> 1]
    <2>1. first \in Cursors /\ cursor \in Cursors /\ start \in Cursors
      BY WindowFacts DEF Cursors, Typed
    <2> HIDE DEF first
    <2>2. Begins(first, {}) \/ Begins(cursor, gathered) \/ Begins(start, gathered)
      BY <1>1 DEF Begin, first
    <2>3. QED
      BY <2>1, <2>2, BeginsCharged
  <1>2. pc \in {"ahead", "page"} => Charged = begun
    BY DEF Charged, ChargedSoFar, Typed
  <1>3. pc \in {"idle", "loop"} => counted = begun /\ \A t \in Clients : task[t].at = "none"
    BY DEF ChargedSoFar
  <1>4. CASE AheadFails \/ PageFails
    BY <1>2, <1>4, ChargedLoop DEF AheadFails, PageFails, Fetched, Return, NoTask
  <1>5. CASE BudgetEnds \/ Completes
    BY <1>3, <1>5, ChargedLoop DEF BudgetEnds, Completes, Looping, Return, NoTask
  <1>6. CASE AheadComes
    BY <1>2, <1>6, ChargedLoop DEF AheadComes, Fetched, NoTask
  <1>7. CASE TakesAhead
    BY <1>3, <1>7, ChargedLoop DEF TakesAhead, Looping
  <1>8. CASE PageComes
    <2>1. \A t \in Clients : task'[t].at = "none"
      BY <1>8, WindowFacts DEF PageComes, NoTask, ChargedSoFar, Typed
    <2>2. QED
      BY <1>2, <1>8, <2>1, ChargedLoop DEF PageComes
  <1>9. CASE ListsPage
    <2>1. /\ pc' = "page" /\ before' = begun /\ counted' = begun /\ begun' = begun
          /\ \A t \in Clients : task[t].at = "none"
          /\ task' = [task EXCEPT ![Main] = Asking(cursor.window, cursor.page)]
          /\ begun < Budget
      BY <1>3, <1>9 DEF ListsPage, Looping
    <2>2. Owed' = {Main} /\ Spare' = {Main}
      BY <2>1, WindowFacts DEF Owed, Spare, Asking, Typed
    <2>3. Cardinality({Main}) = 1
      BY FS_Singleton
    <2>4. begun \in Nat /\ Budget \in Nat /\ Concurrency \in Nat \ {0}
      BY WindowFacts DEF Typed
    <2>5. \A t \in Threads : task'[t].at = "none"
      BY <2>1, WindowFacts DEF Typed
    <2>6. QED
      BY <2>1, <2>2, <2>3, <2>4, <2>5 DEF ChargedSoFar
  <1>10. ASSUME NEW t \in Clients, ThreadStep(t) PROVE ChargedSoFar'
    <2>1. UNCHANGED <<pc, counted, before>>
      BY <1>10 DEF ThreadStep
    <2>2. pc \in {"idle", "loop"} => UNCHANGED <<task, begun>>
      BY <1>3, <1>10, ThreadTasks
    <2>3. pc = "page" => \A u \in Threads : task'[u].at = "none"
      BY <1>10, ThreadTasks, WindowFacts DEF ChargedSoFar, Step, Typed
    <2>4. QED
      BY <1>10, <2>1, <2>2, <2>3, ThreadCharged DEF ChargedSoFar
  <1>11. CASE Publish \/ Tick \/ Rests \/ UNCHANGED vars
    BY <1>11 DEF Publish, Tick, Rests, vars, ChargedSoFar, Owed, Spare
  <1>12. QED
    BY <1>1, <1>4, <1>5, <1>6, <1>7, <1>8, <1>9, <1>10, <1>11 DEF Next

LEMMA ChargedInit == Init => ChargedSoFar
  <1> SUFFICES ASSUME Init PROVE ChargedSoFar
    OBVIOUS
  <1>1. Owed = {} /\ Spare = {} /\ begun = 0 /\ counted = 0 /\ pc = "idle"
        /\ \A t \in Clients : task[t].at = "none"
    BY DEF Init, Owed, Spare, NoTask
  <1>2. QED
    BY <1>1, FS_EmptySet, WindowFacts DEF ChargedSoFar

(* Every request of every thread is charged to the budget of the call, and  *)
(* beyond the budget goes at most one for each thread.                      *)
THEOREM BudgetCharged == Spec => []BudgetKept
  <1>1. Typed /\ ChargedSoFar => BudgetKept
    <2> SUFFICES ASSUME Typed, ChargedSoFar PROVE begun <= Budget + Concurrency
      BY DEF BudgetKept, ChargedSoFar
    <2>1. /\ Cardinality(Owed) \in Nat /\ Cardinality(Spare) \in Nat /\ begun \in Nat
          /\ Budget \in Nat /\ Concurrency \in Nat
      BY OwedFinite, WindowFacts DEF Typed
    <2>2. QED
      BY <2>1 DEF ChargedSoFar
  <1>2. QED
    BY <1>1, ChargedInit, ChargedStep, TypedInit, TypedStep, PTL DEF Spec

-----------------------------------------------------------------------------
(* The filings.                                                             *)

(* Rows that have come before those of the catalog.                         *)
Later(w) == IF w = 1 THEN published ELSE 0

(* The filings of the catalog up to a cursor are at hand.                   *)
Passed(c, have) ==
  \A w \in Windows : \A i \in DOMAIN Catalog[w] :
    w < c.window \/ (w = c.window /\ Later(w) + i <= Before(c.page)) => Catalog[w][i] \in have

(* With a page, those to the end of the page are.                           *)
Holds(answer, p, have) ==
  \A i \in DOMAIN Catalog[answer.window] :
    answer.last \/ Later(answer.window) + i <= Before(p + 1)
      => Catalog[answer.window][i] \in have \cup answer.rows

Kept ==
  /\ pc # "idle" => /\ ended = "none"
                    /\ Passed(start, gathered) /\ Passed(cursor, gathered \cup collected)
  /\ pc = "idle" /\ ended \in {"budget", "complete"} => Passed(cursor, gathered)
  /\ pc = "idle" /\ ended = "late" => Passed(start, gathered)
  /\ \A a \in ahead : Holds(a, 1, {})
  /\ \A t \in Threads : /\ task[t].at \in {"ask", "asked"} => task[t].page = 1
                        /\ task[t].at = "page" => Holds(task[t].answer, 1, {})
  /\ task[Main].at # "none" => pc = "page"
  /\ task[Main].at \in {"ask", "asked"}
       => task[Main].window = cursor.window /\ task[Main].page = cursor.page
  /\ task[Main].at = "page"
       => /\ task[Main].answer.window = cursor.window
          /\ Holds(task[Main].answer, cursor.page, gathered \cup collected)

LEMMA BeforeIs ==
  /\ Before(1) = 0
  /\ \A p \in Nat \ {0} : Before(p) \in Nat /\ Before(p + 1) = Before(p) + PageCount
  <1>1. \A p \in Nat \ {0} : (p - 1) * PageCount \in Nat /\ p * PageCount = (p - 1) * PageCount + PageCount
    BY WindowFacts
  <1>2. \A p \in Nat \ {0} : (p + 1) - 1 = p
    OBVIOUS
  <1>3. QED
    BY <1>1, <1>2, WindowFacts DEF Before

(* The catalog follows what has been published.                             *)
LEMMA CatalogRows ==
  ASSUME Typed, NEW w \in Windows
  PROVE  /\ Len(Rows(w)) = Later(w) + Len(Catalog[w]) /\ DOMAIN Rows(w) = 1..Len(Rows(w))
         /\ Later(w) \in Nat /\ Len(Catalog[w]) \in Nat /\ DOMAIN Catalog[w] = 1..Len(Catalog[w])
         /\ \A i \in DOMAIN Catalog[w] : Rows(w)[Later(w) + i] = Catalog[w][i]
         /\ \A i \in DOMAIN Rows(w) :
              Rows(w)[i] \in RangeOf(Catalog[w])
                => i - Later(w) \in DOMAIN Catalog[w] /\ Rows(w)[i] = Catalog[w][i - Later(w)]
  <1> DEFINE more == Later(w)
  <1>1. /\ Len(Rows(w)) = more + Len(Catalog[w]) /\ DOMAIN Rows(w) = 1..Len(Rows(w)) /\ more \in Nat
        /\ \A i \in DOMAIN Rows(w) :
             Rows(w)[i] = IF i <= more THEN NewFilings[Len(NewFilings) - more + i]
                          ELSE Catalog[w][i - more]
    BY RowsAre DEF Typed, Later
  <1>2. /\ Len(Catalog[w]) \in Nat /\ DOMAIN Catalog[w] = 1..Len(Catalog[w])
        /\ DOMAIN NewFilings = 1..Len(NewFilings) /\ Len(NewFilings) \in Nat
        /\ more \in 0..Len(NewFilings)
    BY WindowFacts, ListAssumption DEF Typed, Later
  <1> HIDE DEF more
  <1>3. \A i \in DOMAIN Catalog[w] : more + i \in DOMAIN Rows(w) /\ ~(more + i <= more) /\ (more + i) - more = i
    BY <1>1, <1>2
  <1>4. ASSUME NEW i \in DOMAIN Rows(w), Rows(w)[i] \in RangeOf(Catalog[w])
        PROVE  i - more \in DOMAIN Catalog[w] /\ Rows(w)[i] = Catalog[w][i - more]
    <2>1. CASE i <= more
      <3>1. Len(NewFilings) - more + i \in DOMAIN NewFilings
        BY <1>1, <1>2, <2>1
      <3>2. PICK j \in DOMAIN Catalog[w] : Rows(w)[i] = Catalog[w][j]
        BY <1>4 DEF RangeOf
      <3>3. w \in DOMAIN Catalog
        BY ListAssumption DEF Windows
      <3>4. QED
        BY <1>1, <2>1, <3>1, <3>2, <3>3, ListAssumption
    <2>2. CASE ~(i <= more)
      BY <1>1, <1>2, <2>2
    <2>3. QED
      BY <2>1, <2>2
  <1>5. QED
    BY <1>1, <1>2, <1>3, <1>4 DEF more

(* A page taken from the server, when the filings before it are at hand.    *)
LEMMA AnswerHolds ==
  ASSUME Typed, NEW w \in Windows, NEW p \in Nat \ {0}, NEW have,
         \A i \in DOMAIN Catalog[w] : Later(w) + i <= Before(p) => Catalog[w][i] \in have
  PROVE  Holds(Answer(w, p), p, have)
  <1> DEFINE a == Answer(w, p)
  <1>1. /\ a.window = w
        /\ a.rows = {Rows(w)[i] : i \in (DOMAIN Rows(w)) \cap (Before(p) + 1)..(Before(p) + PageCount)}
        /\ a.last <=> Len(Rows(w)) <= Before(p) + PageCount
    BY DEF Answer
  <1>2. Before(p) \in Nat /\ Before(p + 1) = Before(p) + PageCount /\ PageCount \in Nat
    BY BeforeIs, WindowFacts
  <1> HIDE DEF a
  <1>3. ASSUME NEW i \in DOMAIN Catalog[w], a.last \/ Later(w) + i <= Before(p + 1)
        PROVE  Catalog[w][i] \in have \cup a.rows
    <2>1. /\ i \in 1..Len(Catalog[w]) /\ Len(Rows(w)) = Later(w) + Len(Catalog[w])
          /\ Later(w) \in Nat /\ Len(Catalog[w]) \in Nat
          /\ DOMAIN Rows(w) = 1..Len(Rows(w)) /\ Rows(w)[Later(w) + i] = Catalog[w][i]
      BY CatalogRows
    <2>2. Later(w) + i <= Before(p) + PageCount /\ Later(w) + i \in DOMAIN Rows(w)
      BY <1>1, <1>2, <1>3, <2>1
    <2>3. CASE Later(w) + i <= Before(p)
      BY <2>3
    <2>4. CASE ~(Later(w) + i <= Before(p))
      <3>1. Later(w) + i \in (DOMAIN Rows(w)) \cap (Before(p) + 1)..(Before(p) + PageCount)
        BY <1>2, <2>1, <2>2, <2>4
      <3>2. QED
        BY <1>1, <2>1, <3>1
    <2>5. QED
      BY <2>3, <2>4
  <1>4. QED
    BY <1>1, <1>3 DEF Holds, a

(* What is at hand stays at hand.                                           *)
LEMMA MoreAtHand ==
  ASSUME NEW have, NEW more, have \subseteq more
  PROVE  /\ \A c : Passed(c, have) => Passed(c, more)
         /\ \A a, p : Holds(a, p, have) => Holds(a, p, more)
  BY DEF Passed, Holds

(* The loop takes a page that holds what it should.                         *)
LEMMA TakesPassed ==
  ASSUME Typed, cursor.window <= Len(Catalog), NEW answer \in AnswerTypes,
         answer.window = cursor.window, Holds(answer, cursor.page, gathered \cup collected),
         Passed(cursor, gathered \cup collected), Takes(answer), UNCHANGED <<published, gathered>>
  PROVE  Passed(cursor, gathered \cup collected)'
  <1> DEFINE have == gathered \cup collected
  <1>1. /\ cursor.window \in Nat /\ cursor.page \in Nat \ {0} /\ cursor.window \in Windows
        /\ cursor = [window |-> cursor.window, page |-> cursor.page]
    BY WindowFacts DEF Typed, Cursors
  <1>2. (gathered \cup collected)' = have \cup answer.rows
    BY DEF Takes
  <1>3. ASSUME NEW w \in Windows, NEW i \in DOMAIN Catalog[w],
               w < cursor'.window \/ (w = cursor'.window /\ Later(w) + i <= Before(cursor'.page))
        PROVE  Catalog[w][i] \in have \cup answer.rows
    <2>1. i \in Nat \ {0} /\ Later(w) \in Nat /\ w \in Nat
      BY CatalogRows, WindowFacts
    <2>2. CASE w < cursor.window
      BY <2>2 DEF Passed
    <2>3. CASE w = cursor.window
      <3>1. CASE answer.last
        BY <2>3, <3>1 DEF Holds
      <3>2. CASE ~answer.last
        <4>1. cursor'.window = cursor.window /\ cursor'.page = cursor.page + 1
          BY <1>1, <3>2 DEF Takes
        <4>2. Later(w) + i <= Before(cursor.page + 1)
          BY <1>1, <1>3, <2>3, <4>1
        <4>3. QED
          BY <2>3, <4>2 DEF Holds
      <3>3. QED
        BY <3>1, <3>2
    <2>4. CASE w > cursor.window
      <3>1. w = cursor.window + 1 /\ cursor' = NextWindow
        BY <1>1, <1>3, <2>1, <2>4 DEF Takes, NextWindow
      <3>2. Later(w) + i <= 0
        <4>1. cursor'.window = w /\ cursor'.page = 1
          BY <3>1 DEF NextWindow
        <4>2. ~(w < cursor'.window)
          BY <2>1, <4>1
        <4>3. QED
          BY <1>3, <4>1, <4>2, BeforeIs
      <3>3. QED
        BY <2>1, <3>2
    <2>5. QED
      BY <1>1, <2>1, <2>2, <2>3, <2>4
  <1>4. QED
    BY <1>2, <1>3 DEF Passed, Later

LEMMA KeptBegins ==
  ASSUME Typed, NEW from \in Cursors, NEW kept, Passed(from, kept), Begins(from, kept)
  PROVE  Kept'
  <1>1. /\ start' = from /\ cursor' = from /\ gathered' = kept /\ collected' = {} /\ ahead' = {}
        /\ ended' = "none" /\ UNCHANGED published
    BY DEF Begins
  <1>2. Passed(from, kept \cup {}) /\ kept \cup {} = kept
    BY MoreAtHand
  <1>3. Passed(start, gathered)' /\ Passed(cursor, gathered \cup collected)'
    BY <1>1, <1>2 DEF Passed, Later
  <1>4. \A t \in Clients : \/ task'[t] = NoTask
                           \/ task'[t] = Asking(from.window + t - 1, 1) /\ t \in Threads
    BY AheadTyped DEF Begins, AheadTasks
  <1>5. task'[Main].at = "none"
        /\ \A t \in Threads : task'[t].at = "none" \/ (task'[t].at = "ask" /\ task'[t].page = 1)
    <2>1. /\ NoTask.at = "none"
          /\ \A w : Asking(w, 1).at = "ask" /\ Asking(w, 1).page = 1
      BY DEF NoTask, Asking
    <2>2. Main \in Clients /\ Main \notin Threads /\ Threads \subseteq Clients
      BY WindowFacts
    <2>3. QED
      BY <1>4, <2>1, <2>2
  <1>6. pc' # "idle"
    BY DEF Begins
  <1>7. QED
    BY <1>1, <1>3, <1>5, <1>6 DEF Kept

(* A thread does one of these to its own task.                              *)
Outcome(q, r) ==
  \/ r.at \in {"late", "failed"}
  \/ r = [q EXCEPT !.at = "asked"]
  \/ r = [q EXCEPT !.at = "ask", !.again = TRUE]
  \/ r = [at |-> "page", answer |-> Answer(q.window, q.page)]

LEMMA ThreadOutcome ==
  ASSUME Typed, NEW t \in Clients, ThreadStep(t), ~UNCHANGED task
  PROVE  /\ task[t].at \in {"ask", "asked"} /\ Outcome(task[t], task'[t])
         /\ \A u \in Clients : u # t => task'[u] = task[u]
  <1>1. \A r, more : Step(t, r, more) => task'[t] = r /\ \A u \in Clients : u # t => task'[u] = task[u]
    BY DEF Step, Typed
  <1>2. \A how \in {"late", "failed"} : Outcome(task[t], [at |-> how])
    BY DEF Outcome
  <1>3. /\ Outcome(task[t], [task[t] EXCEPT !.at = "asked"])
        /\ Outcome(task[t], [task[t] EXCEPT !.at = "ask", !.again = TRUE])
        /\ Outcome(task[t], [at |-> "page", answer |-> Answer(task[t].window, task[t].page)])
    BY DEF Outcome
  <1> HIDE DEF Outcome
  <1>4. PICK r, more : Step(t, r, more) /\ Outcome(task[t], r) /\ task[t].at \in {"ask", "asked"}
    BY <1>2, <1>3, ThreadTasks
  <1>5. QED
    BY <1>1, <1>4

LEMMA KeptThread ==
  ASSUME Typed, Kept, pc = "page" => cursor.window <= Len(Catalog),
         NEW t \in Clients, ThreadStep(t)
  PROVE  Kept'
  <1> DEFINE q == task[t]
             have == gathered \cup collected
  <1>1. UNCHANGED <<published, pc, start, cursor, ahead, collected, gathered, ended>>
    BY DEF ThreadStep
  <1>2. /\ q \in Tasks /\ task \in [Clients -> Tasks]
        /\ q.at \in {"ask", "asked"} => q \in AskTypes
    BY TaskTypes DEF Typed
  <1>3. q.at \in {"ask", "asked"} =>
          LET r == [q EXCEPT !.at = "asked"]
              s == [q EXCEPT !.at = "ask", !.again = TRUE]
          IN /\ r.at = "asked" /\ r.window = q.window /\ r.page = q.page
             /\ s.at = "ask" /\ s.window = q.window /\ s.page = q.page
             /\ q.window \in Windows /\ q.page \in Nat \ {0}
    <2> HIDE DEF q
    <2>1. QED
      BY <1>2 DEF AskTypes
  <1>4. CASE UNCHANGED task
    BY <1>1, <1>4 DEF Kept, Passed, Holds, Later
  <1>5. CASE t \in Threads /\ ~UNCHANGED task
    <2>1. Main # t /\ task'[Main] = task[Main] /\ \A u \in Threads : u # t => task'[u] = task[u]
      BY <1>5, ThreadOutcome, WindowFacts
    <2>2. /\ task'[t].at \in {"ask", "asked"} => task'[t].page = 1
          /\ task'[t].at = "page" => Holds(task'[t].answer, 1, {})
      <3>1. q.at \in {"ask", "asked"} => q.page = 1
        BY <1>5 DEF Kept
      <3>2. q.at \in {"ask", "asked"} => Holds(Answer(q.window, 1), 1, {})
        <4>1. \A w \in Windows : \A i \in DOMAIN Catalog[w] : ~(Later(w) + i <= Before(1))
          <5>1. ASSUME NEW w \in Windows, NEW i \in DOMAIN Catalog[w] PROVE ~(Later(w) + i <= 0)
            <6>1. Later(w) \in Nat /\ i \in 1..Len(Catalog[w]) /\ Len(Catalog[w]) \in Nat
              BY CatalogRows
            <6>2. QED
              BY <6>1
          <5>2. QED
            BY <5>1, BeforeIs
        <4>2. QED
          BY <1>3, <4>1, AnswerHolds
      <3>3. q.at \in {"ask", "asked"} /\ Outcome(q, task'[t])
        BY <1>5, ThreadOutcome
      <3> HIDE DEF q
      <3>4. CASE task'[t] = [at |-> "page", answer |-> Answer(q.window, q.page)]
        BY <3>1, <3>2, <3>3, <3>4
      <3>5. CASE task'[t].at \in {"late", "failed"}
        BY <3>5
      <3>6. CASE \/ task'[t] = [q EXCEPT !.at = "asked"]
                 \/ task'[t] = [q EXCEPT !.at = "ask", !.again = TRUE]
        BY <1>3, <3>1, <3>3, <3>6
      <3>7. QED
        BY <3>3, <3>4, <3>5, <3>6 DEF Outcome
    <2>3. QED
      BY <1>1, <2>1, <2>2 DEF Kept, Passed, Holds, Later
  <1>6. CASE t = Main /\ ~UNCHANGED task
    <2>1. \A u \in Threads : task'[u] = task[u]
      BY <1>6, ThreadOutcome, WindowFacts
    <2>2. q.at # "none" /\ pc = "page"
      <3>1. q.at # "none"
        BY <1>6, ThreadTasks
      <3>2. QED
        BY <1>6, <3>1 DEF Kept
    <2>3. q.at \in {"ask", "asked"} => q.window = cursor.window /\ q.page = cursor.page
      BY <1>6 DEF Kept
    <2>4. q.at \in {"ask", "asked"} => Holds(Answer(q.window, q.page), q.page, have)
      <3>1. ASSUME q.at \in {"ask", "asked"}
            PROVE  \A i \in DOMAIN Catalog[q.window] :
                     Later(q.window) + i <= Before(q.page) => Catalog[q.window][i] \in have
        BY <1>3, <2>2, <2>3, <3>1 DEF Kept, Passed
      <3>2. QED
        BY <1>3, <3>1, AnswerHolds
    <2>5. /\ task'[t].at \in {"ask", "asked"}
               => task'[t].window = cursor.window /\ task'[t].page = cursor.page
          /\ task'[t].at = "page"
               => task'[t].answer.window = cursor.window /\ Holds(task'[t].answer, cursor.page, have)
      <3>1. q.at \in {"ask", "asked"} /\ Outcome(q, task'[t])
        BY <1>6, ThreadOutcome
      <3> HIDE DEF q, have
      <3>2. Answer(q.window, q.page).window = q.window
        BY DEF Answer
      <3>3. CASE task'[t] = [at |-> "page", answer |-> Answer(q.window, q.page)]
        BY <2>3, <2>4, <3>1, <3>2, <3>3
      <3>4. CASE task'[t].at \in {"late", "failed"}
        BY <3>4
      <3>5. CASE \/ task'[t] = [q EXCEPT !.at = "asked"]
                 \/ task'[t] = [q EXCEPT !.at = "ask", !.again = TRUE]
        BY <1>3, <2>3, <3>1, <3>5
      <3>6. QED
        BY <3>1, <3>3, <3>4, <3>5 DEF Outcome
    <2>6. QED
      BY <1>1, <1>6, <2>1, <2>2, <2>5 DEF Kept, Passed, Holds, Later
  <1>7. QED
    BY <1>4, <1>5, <1>6, WindowFacts

LEMMA KeptReturn ==
  ASSUME Typed, Kept, pc # "idle", NEW how \in {"budget", "complete", "late", "failed"}, Return(how)
  PROVE  Kept'
  <1>1. /\ pc' = "idle" /\ ended' = how /\ ahead' = {} /\ UNCHANGED <<start, cursor, published>>
        /\ \A t \in Clients : task'[t].at = "none"
    BY DEF Return, NoTask
  <1>2. how \in {"budget", "complete"} => Passed(cursor, gathered)'
    BY <1>1 DEF Return, Kept, Passed, Later
  <1>3. how = "late" => Passed(start, gathered)'
    BY <1>1 DEF Return, Kept, Passed, Later
  <1>4. QED
    BY <1>1, <1>2, <1>3, WindowFacts DEF Kept

LEMMA KeptTakes ==
  ASSUME Typed, Kept, cursor.window <= Len(Catalog), NEW answer \in AnswerTypes,
         answer.window = cursor.window, Holds(answer, cursor.page, gathered \cup collected),
         Takes(answer), pc # "idle", pc' = "loop", ahead' \subseteq ahead,
         task'[Main].at = "none", \A t \in Threads : task'[t] = task[t],
         UNCHANGED <<published, start, gathered, ended>>
  PROVE  Kept'
  <1>1. Passed(cursor, gathered \cup collected)'
    BY TakesPassed DEF Kept
  <1>2. Passed(start, gathered)'
    BY DEF Kept, Passed, Later
  <1>3. \A a \in ahead' : Holds(a, 1, {})'
    BY DEF Kept, Holds, Later
  <1>4. \A t \in Threads : task'[t].at = "page" => Holds(task[t].answer, 1, {})'
    BY DEF Kept, Holds, Later
  <1>5. QED
    BY <1>1, <1>2, <1>3, <1>4 DEF Kept

(* What is published comes before the rows at hand.                         *)
LEMMA KeptPublish ==
  ASSUME Typed, Kept, Publish
  PROVE  Kept'
  <1>1. /\ UNCHANGED <<pc, start, cursor, task, ahead, collected, gathered, ended>>
        /\ published \in Nat /\ published' = published + 1
    BY ListAssumption DEF Publish, Typed
  <1>2. ASSUME NEW w \in Windows, NEW i \in DOMAIN Catalog[w], NEW n \in Nat, Later(w)' + i <= n
        PROVE  Later(w) + i <= n
    <2>1. i \in Nat /\ Later(w) \in Nat /\ Later(w)' \in Nat /\ Later(w) <= Later(w)'
      <3>1. i \in 1..Len(Catalog[w]) /\ Len(Catalog[w]) \in Nat
        BY CatalogRows
      <3>2. QED
        BY <1>1, <3>1 DEF Later
    <2>2. QED
      BY <1>2, <2>1
  <1>3. \A c \in Cursors : \A have : Passed(c, have) => Passed(c, have)'
    <2>1. SUFFICES ASSUME NEW c \in Cursors, NEW have, Passed(c, have),
                          NEW w \in Windows, NEW i \in DOMAIN Catalog[w],
                          w < c.window \/ (w = c.window /\ Later(w)' + i <= Before(c.page))
                   PROVE  Catalog[w][i] \in have
      BY DEF Passed
    <2>2. Before(c.page) \in Nat
      BY BeforeIs DEF Cursors
    <2>3. QED
      BY <1>2, <2>1, <2>2 DEF Passed
  <1>4. \A a \in AnswerTypes, p \in Nat \ {0} : \A have : Holds(a, p, have) => Holds(a, p, have)'
    <2>1. SUFFICES ASSUME NEW a \in AnswerTypes, NEW p \in Nat \ {0}, NEW have, Holds(a, p, have),
                          NEW i \in DOMAIN Catalog[a.window],
                          a.last \/ Later(a.window)' + i <= Before(p + 1)
                   PROVE  Catalog[a.window][i] \in have \cup a.rows
      BY DEF Holds
    <2>2. Before(p + 1) \in Nat /\ a.window \in Windows
      <3>1. Before(p) \in Nat /\ Before(p + 1) = Before(p) + PageCount /\ PageCount \in Nat
        BY BeforeIs, WindowFacts
      <3>2. QED
        BY <3>1 DEF AnswerTypes
    <2>3. QED
      BY <1>2, <2>1, <2>2 DEF Holds
  <1>5. /\ start \in Cursors /\ cursor \in Cursors /\ cursor.page \in Nat \ {0} /\ ahead \subseteq AnswerTypes
        /\ \A t \in Clients : task[t].at = "page" => task[t].answer \in AnswerTypes
    BY TaskTypes DEF Typed, Cursors
  <1>6. /\ pc # "idle" => Passed(start, gathered)' /\ Passed(cursor, gathered \cup collected)'
        /\ pc = "idle" /\ ended \in {"budget", "complete"} => Passed(cursor, gathered)'
        /\ pc = "idle" /\ ended = "late" => Passed(start, gathered)'
    BY <1>1, <1>3, <1>5 DEF Kept
  <1>7. /\ \A a \in ahead : Holds(a, 1, {})'
        /\ \A t \in Threads : task[t].at = "page" => Holds(task[t].answer, 1, {})'
        /\ task[Main].at = "page" => Holds(task[Main].answer, cursor.page, gathered \cup collected)'
    BY <1>1, <1>4, <1>5, WindowFacts DEF Kept
  <1>8. QED
    BY <1>1, <1>6, <1>7 DEF Kept

LEMMA KeptStep == Typed /\ Kept /\ [Next]_vars => Kept'
  <1> SUFFICES ASSUME Typed, Kept, [Next]_vars PROVE Kept'
    OBVIOUS
  <1>1. CASE Begin
    <2> DEFINE first == [window |-> 1, page |-> 1]
    <2>1. first \in Cursors /\ cursor \in Cursors /\ start \in Cursors
      BY WindowFacts DEF Cursors, Typed
    <2>2. Passed(first, {})
      <3>1. ASSUME NEW w \in Windows, NEW i \in DOMAIN Catalog[w]
            PROVE  ~(w < 1) /\ ~(Later(w) + i <= 0)
        <4>1. /\ Later(w) \in Nat /\ i \in 1..Len(Catalog[w]) /\ Len(Catalog[w]) \in Nat
              /\ w \in 1..Len(Catalog) /\ Len(Catalog) \in Nat
          BY CatalogRows, WindowFacts
        <4>2. QED
          BY <4>1
      <3>2. QED
        BY <3>1, BeforeIs DEF Passed
    <2> HIDE DEF first
    <2>3. \/ Begins(first, {})
          \/ Begins(cursor, gathered) /\ Passed(cursor, gathered)
          \/ Begins(start, gathered) /\ Passed(start, gathered)
      BY <1>1 DEF Begin, Begins, Kept, first
    <2>4. QED
      BY <2>1, <2>2, <2>3, KeptBegins
  <1>2. CASE AheadFails \/ PageFails
    BY <1>2, KeptReturn DEF AheadFails, PageFails, Fetched, Raised
  <1>3. CASE BudgetEnds \/ Completes
    BY <1>3, KeptReturn DEF BudgetEnds, Completes, Looping
  <1>4. CASE AheadComes
    <2>1. \A a \in ahead' : Holds(a, 1, {})'
      BY <1>4 DEF AheadComes, Kept, Holds, Later
    <2>2. \A t \in Clients : task'[t].at = "none"
      BY <1>4 DEF AheadComes, NoTask
    <2>3. QED
      BY <1>4, <2>1, <2>2, WindowFacts DEF AheadComes, Fetched, Kept, Passed, Later
  <1>5. CASE TakesAhead
    <2>1. PICK a \in ahead : a.window = cursor.window /\ cursor.page = 1 /\ Takes(a) /\ ahead' \subseteq ahead
      BY <1>5 DEF TakesAhead, Prefetched
    <2>2. a \in AnswerTypes /\ Holds(a, cursor.page, gathered \cup collected)
      BY <2>1, MoreAtHand DEF Typed, Kept
    <2>3. task[Main].at = "none"
      BY <1>5 DEF TakesAhead, Looping, Kept
    <2>4. QED
      BY <1>5, <2>1, <2>2, <2>3, KeptTakes DEF TakesAhead, Looping
  <1>6. CASE PageComes
    <2>1. task[Main].answer \in AnswerTypes
      BY <1>6, TaskTypes, WindowFacts DEF PageComes, Typed
    <2>2. task'[Main].at = "none" /\ \A t \in Threads : task'[t] = task[t]
      BY <1>6, WindowFacts DEF PageComes, NoTask, Typed
    <2>3. QED
      BY <1>6, <2>1, <2>2, KeptTakes DEF PageComes, Kept, Typed
  <1>7. CASE ListsPage
    <2>1. /\ task'[Main] = Asking(cursor.window, cursor.page)
          /\ \A t \in Threads : task'[t] = task[t]
      BY <1>7, WindowFacts DEF ListsPage, Typed
    <2>2. QED
      BY <1>7, <2>1 DEF ListsPage, Looping, Kept, Passed, Holds, Later, Asking
  <1>8. ASSUME NEW t \in Clients, ThreadStep(t) PROVE Kept'
    BY <1>8, KeptThread DEF Typed
  <1>9. CASE Publish
    BY <1>9, KeptPublish
  <1>10. CASE Tick \/ Rests \/ UNCHANGED vars
    BY <1>10 DEF Tick, Rests, vars, Kept, Passed, Holds, Later
  <1>11. QED
    BY <1>1, <1>2, <1>3, <1>4, <1>5, <1>6, <1>7, <1>8, <1>9, <1>10 DEF Next

(* No filing listed when the search began is lost on the way to the cursor: *)
(* rows only move to later pages, so a page read later, in this call or in  *)
(* the one that resumes, starts no further on than where the last one ended. *)
THEOREM NoFilingLost == Spec => []NothingLost
  <1>1. Init => Kept
    BY WindowFacts DEF Init, Kept, NoTask
  <1>2. Typed /\ Kept => NothingLost
    <2> SUFFICES ASSUME Typed, Kept, NEW w \in Windows, NEW i \in DOMAIN Rows(w),
                        Rows(w)[i] \in RangeOf(Catalog[w]),
                        w < cursor.window \/ (w = cursor.window /\ i <= Before(cursor.page)),
                        pc # "idle" \/ ended \in {"budget", "complete"}
                 PROVE  Rows(w)[i] \in gathered \cup collected
      BY DEF NothingLost
    <2> DEFINE j == i - Later(w)
    <2>1. /\ j \in DOMAIN Catalog[w] /\ Rows(w)[i] = Catalog[w][j]
          /\ Later(w) + j = i
      <3>1. i \in Nat /\ Later(w) \in Nat
        BY CatalogRows
      <3>2. QED
        BY <3>1, CatalogRows
    <2>2. Passed(cursor, gathered \cup collected)
      BY MoreAtHand DEF Kept
    <2>3. Catalog[w][j] \in gathered \cup collected
      BY <2>1, <2>2 DEF Passed
    <2>4. QED
      BY <2>1, <2>3
  <1>3. QED
    BY <1>1, <1>2, KeptStep, TypedInit, TypedStep, PTL DEF Spec
=============================================================================
