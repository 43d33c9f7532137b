---------------------------- MODULE TellingProofs ----------------------------
(***************************************************************************)
(* What is sent says what was asked, for every call of Exchange.           *)
(*                                                                         *)
(* What a request says is followed through everything that is done to it:  *)
(* read from the caller's arguments, masked, asked again with a feedback,  *)
(* given back in the form of its own provider or translated for another.   *)
(* Telling says of the request at every step that it tells what was asked. *)
(***************************************************************************)
EXTENDS ExchangeProofs

(***************************************************************************)
(* What is said by readings, one after the other                           *)
(***************************************************************************)

\* What an utterance is: a word, something of another kind, or a call.
Utterances == {"word", "tool", "thought", "media", "call"} \X (Words \union Text)

\* What is said in one role.
Voices == [role : Roles \union ItemKinds, says : Seq(Utterances)]

\* What a reading adds to the system prompt.
SystemWords(r) == IF r.role = "system" THEN r.says ELSE <<>>

\* Sequences put together in either order.
LEMMA PutTogether ==
    ASSUME NEW X, NEW a \in Seq(X), NEW b \in Seq(X), NEW c \in Seq(X)
    PROVE  (a \o b) \o c = a \o (b \o c)
OBVIOUS

\* A sequence with one more value, value by value.
LEMMA AppendedForm ==
    ASSUME NEW X, NEW a \in Seq(X), NEW x \in X, NEW n \in Nat, n = Len(a)
    PROVE  /\ Append(a, x) \in [1..(n + 1) -> X] /\ Append(a, x)[n + 1] = x
           /\ \A i \in 1..n : Append(a, x)[i] = a[i]
           /\ \A y \in X : [Append(a, x) EXCEPT ![n + 1] = y] = Append(a, y)
<1>1. ASSUME NEW z \in X
      PROVE  /\ Append(a, z) \in [1..(n + 1) -> X] /\ Append(a, z)[n + 1] = z
             /\ \A i \in 1..n : Append(a, z)[i] = a[i]
  <2>1. Append(a, z) \in Seq(X)
    OBVIOUS
  <2>2. PICK v \in Seq(X) : v = Append(a, z)
    BY <2>1
  <2>3. Len(v) = n + 1 /\ DOMAIN v = 1..(n + 1) /\ v[n + 1] = z /\ \A i \in 1..n : v[i] = a[i]
    BY <2>2
  <2>4. v \in [1..(n + 1) -> X]
    BY <2>3
  <2> QED BY <2>2, <2>3, <2>4
<1>2. ASSUME NEW y \in X
      PROVE  [Append(a, x) EXCEPT ![n + 1] = y] = Append(a, y)
  <2>1. PICK w, v : w = Append(a, x) /\ v = Append(a, y)
    OBVIOUS
  <2>2. w \in [1..(n + 1) -> X] /\ \A i \in 1..n : w[i] = a[i]
    BY <1>1, <2>1
  <2>3. v \in [1..(n + 1) -> X] /\ v[n + 1] = y /\ \A i \in 1..n : v[i] = a[i]
    BY <1>1, <2>1
  <2>4. PICK u : u = [w EXCEPT ![n + 1] = y]
    OBVIOUS
  <2>5. u \in [1..(n + 1) -> X] /\ u[n + 1] = y /\ \A i \in 1..n : u[i] = a[i]
    BY <2>2, <2>4
  <2>6. \A i \in 1..(n + 1) : i \in 1..n \/ i = n + 1
    OBVIOUS
  <2>7. u = v
    BY <2>3, <2>5, <2>6
  <2> QED BY <2>1, <2>4, <2>7
<1> QED BY <1>1, <1>2

\* A reading of another role than the last opens a turn.
LEMMA ReadingOpens ==
    ASSUME NEW turns \in Seq(Voices), NEW r \in Voices, r.role # "system",
           turns = <<>> \/ Last(turns).role # r.role
    PROVE  /\ WithReading(turns, r) = Append(turns, r)
           /\ Append(turns, r) \in Seq(Voices) /\ Append(turns, r) # <<>>
           /\ Last(Append(turns, r)) = r
<1>1. WithReading(turns, r) = Append(turns, r)
    BY DEF WithReading
<1>2. PICK new \in Seq(Voices) : new = Append(turns, r)
    BY ValuesAppended
<1>3. new # <<>> /\ Last(new) = r
    BY <1>2 DEF Last
<1> QED BY <1>1, <1>2, <1>3

\* A reading that says something else.
LEMMA VoiceEdited ==
    ASSUME NEW v \in Voices, NEW all
    PROVE  [v EXCEPT !.says = all] = [role |-> v.role, says |-> all]
BY DEF Voices

\* The last turn with more words.
GoneOn(turns, n, r) == [turns EXCEPT ![n] = [role |-> r.role, says |-> turns[n].says \o r.says]]

\* A reading of the role of the last turn goes on with it.
IsLast(turns, n, r) ==
    n \in Nat \ {0} /\ n = Len(turns) /\ turns[n].role = r.role /\ r.role # "system"

\* A run of turns whose last one only is longer.
LongerLast(new, turns, n, r) ==
    /\ Len(new) = n /\ DOMAIN new = 1..n
    /\ new[n] = [role |-> r.role, says |-> turns[n].says \o r.says]
    /\ \A i \in 1..n : i # n => new[i] = turns[i]

\* A reading of the last turn's role goes on with the last turn.
LEMMA ReadingGoesOn ==
    ASSUME NEW turns \in Seq(Voices), NEW r \in Voices, NEW n, IsLast(turns, n, r)
    PROVE  /\ WithReading(turns, r) = GoneOn(turns, n, r)
           /\ GoneOn(turns, n, r) \in Seq(Voices)
           /\ LongerLast(GoneOn(turns, n, r), turns, n, r)
<1>0. n \in Nat \ {0} /\ n = Len(turns) /\ turns[n].role = r.role /\ r.role # "system"
    BY DEF IsLast
<1>1. turns # <<>> /\ DOMAIN turns = 1..n /\ n \in 1..n /\ Last(turns) = turns[n]
    BY <1>0 DEF Last
<1>2. PICK last \in Voices : last = turns[n] /\ last.role = r.role
    BY <1>0, <1>1
<1>3. PICK k : k = [role |-> r.role, says |-> last.says \o r.says]
    OBVIOUS
<1>4. k \in Voices
  <2>1. last.says \o r.says \in Seq(Utterances)
    BY DEF Voices
  <2> QED BY <1>3, <2>1 DEF Voices
<1>5. [last EXCEPT !.says = @ \o r.says] = k
  <2>1. PICK all : all = last.says \o r.says
    OBVIOUS
  <2>2. [last EXCEPT !.says = all] = [role |-> last.role, says |-> all]
    BY VoiceEdited
  <2>3. [last EXCEPT !.says = @ \o r.says] = [last EXCEPT !.says = all]
    BY <2>1
  <2> QED BY <1>2, <1>3, <2>1, <2>2, <2>3
<1>6. PICK new : new = [turns EXCEPT ![n] = k]
    OBVIOUS
<1>7. new \in [1..n -> Voices]
    BY <1>1, <1>4, <1>6
<1>8. new \in Seq(Voices) /\ Len(new) = n
    BY <1>0, <1>7
<1>9. new[n] = k /\ \A i \in 1..n : i # n => new[i] = turns[i]
    BY <1>1, <1>6
<1>10. new = GoneOn(turns, n, r)
    BY <1>2, <1>3, <1>6 DEF GoneOn
<1>11. WithReading(turns, r) = new
  <2>1. WithReading(turns, r) = [turns EXCEPT ![n].says = @ \o r.says]
    BY <1>0, <1>1 DEF WithReading
  <2>2. [turns EXCEPT ![n].says = @ \o r.says] = [turns EXCEPT ![n] = [turns[n] EXCEPT !.says = @ \o r.says]]
    OBVIOUS
  <2> QED BY <1>2, <1>5, <1>6, <2>1, <2>2
<1>12. LongerLast(new, turns, n, r)
    BY <1>2, <1>3, <1>7, <1>8, <1>9 DEF LongerLast
<1> QED BY <1>8, <1>10, <1>11, <1>12

\* Turns with one more reading are turns.
LEMMA ReadingTyped ==
    ASSUME NEW turns \in Seq(Voices), NEW r \in Voices
    PROVE  WithReading(turns, r) \in Seq(Voices)
<1>1. CASE r.role = "system"
    BY <1>1 DEF WithReading
<1>2. CASE r.role # "system" /\ (turns = <<>> \/ Last(turns).role # r.role)
    BY <1>2, ReadingOpens
<1>3. CASE r.role # "system" /\ turns # <<>> /\ Last(turns).role = r.role
  <2>1. PICK n \in Nat \ {0} : n = Len(turns) /\ turns[n] = Last(turns)
    BY <1>3 DEF Last
  <2>2. IsLast(turns, n, r)
    BY <1>3, <2>1 DEF IsLast
  <2>3. WithReading(turns, r) = GoneOn(turns, n, r) /\ GoneOn(turns, n, r) \in Seq(Voices)
    BY <2>1, <2>2, ReadingGoesOn
  <2> QED BY <2>3
<1> QED BY <1>1, <1>2, <1>3

\* sys and turns follow the readings one by one.
Tells(sys, turns, R, N) ==
    /\ sys[0] = <<>> /\ turns[0] = <<>>
    /\ \A n \in 1..N : /\ sys[n] = sys[n - 1] \o SystemWords(R[n])
                       /\ turns[n] = WithReading(turns[n - 1], R[n])

\* SystemSaid and TurnsSaid follow the readings.
LEMMA SaidSteps ==
    ASSUME NEW R \in Seq(Voices), NEW N \in Nat, N = Len(R)
    PROVE  \E sys, turns :
              /\ Tells(sys, turns, R, N)
              /\ SystemSaid(R) = sys[N] /\ TurnsSaid(R) = turns[N]
              /\ \A n \in 0..N : sys[n] \in Seq(Utterances) /\ turns[n] \in Seq(Voices)
<1>0. DOMAIN R = 1..N /\ \A n \in 1..N : R[n] \in Voices
    OBVIOUS
<1>1. PICK words : words = [i \in 1..N |-> SystemWords(R[i])]
    OBVIOUS
<1>2. \A n \in 1..N : words[n] = SystemWords(R[n]) /\ words[n] \in Seq(Utterances)
  <2>1. <<>> \in Seq(Utterances)
    OBVIOUS
  <2> QED BY <1>0, <1>1, <2>1 DEF SystemWords, Voices
<1>3. SystemSaid(R) = Joined(words)
    BY <1>0, <1>1 DEF SystemSaid, SystemWords
<1>4. Len(words) = N
  <2>1. words \in [1..N -> Seq(Utterances)]
    BY <1>1, <1>2
  <2> QED BY <1>1, <2>1
<1>5. PICK sys : Joins(sys, words, N) /\ Joined(words) = sys[N]
    BY <1>2, <1>4, JoinedSteps
<1>6. \A n \in 0..N : sys[n] \in Seq(Utterances)
  <2> DEFINE I == {n \in Nat : n <= N => sys[n] \in Seq(Utterances)}
  <2>0. <<>> \in Seq(Utterances)
    OBVIOUS
  <2>1. 0 \in I
    BY <1>5, <2>0 DEF Joins
  <2>2. ASSUME NEW n \in Nat, n \in I PROVE n + 1 \in I
    <3> SUFFICES ASSUME n + 1 <= N PROVE sys[n + 1] \in Seq(Utterances)
      OBVIOUS
    <3>1. n + 1 \in 1..N /\ (n + 1) - 1 = n /\ sys[n] \in Seq(Utterances)
      BY <2>2
    <3>2. sys[n + 1] = sys[n] \o words[n + 1]
      BY <1>5, <3>1 DEF Joins
    <3> QED BY <1>2, <3>1, <3>2
  <2>3. Nat \subseteq I
    <3> HIDE DEF I
    <3> QED BY <2>1, <2>2, SetInduction
  <2> QED BY <2>3
<1>7. PICK step : step = [n \in 1..N |-> [x \in Seq(Voices) |-> WithReading(x, R[n])]]
    OBVIOUS
<1>8. \A n \in 1..N : \A x \in Seq(Voices) :
        step[n][x] = WithReading(x, R[n]) /\ step[n][x] \in Seq(Voices)
  <2> SUFFICES ASSUME NEW n \in 1..N, NEW x \in Seq(Voices)
               PROVE  step[n][x] = WithReading(x, R[n]) /\ step[n][x] \in Seq(Voices)
    OBVIOUS
  <2>1. step[n][x] = WithReading(x, R[n])
    BY <1>7
  <2>2. WithReading(x, R[n]) \in Seq(Voices)
    BY <1>0, ReadingTyped
  <2> QED BY <2>1, <2>2
<1>9. PICK g \in [0..N -> Seq(Voices)] : FollowsSteps(g, N, <<>>, step)
  <2>1. StepsWithin(N, Seq(Voices), step)
    BY <1>8 DEF StepsWithin
  <2>2. <<>> \in Seq(Voices)
    OBVIOUS
  <2> QED BY <2>1, <2>2, StepsDefineAFunction, Zenon
<1>10. g[0] = <<>> /\ \A n \in 1..N : g[n] = WithReading(g[n - 1], R[n])
  <2>1. g[0] = <<>> /\ \A n \in 1..N : g[n] = step[n][g[n - 1]]
    BY <1>9 DEF FollowsSteps
  <2>2. \A n \in 1..N : g[n - 1] \in Seq(Voices)
    OBVIOUS
  <2> QED BY <2>1, <2>2, <1>8
<1> DEFINE F(h) == h = [n \in 0..N |-> IF n = 0 THEN <<>> ELSE WithReading(h[n - 1], R[n])]
<1>11. F(g)
  <2>1. \A n \in 0..N : n # 0 => n \in 1..N
    OBVIOUS
  <2>2. \A n \in 0..N : g[n] = IF n = 0 THEN <<>> ELSE WithReading(g[n - 1], R[n])
    BY <1>10, <2>1
  <2> QED BY <2>2
<1>12. PICK h : h = CHOOSE k : F(k)
    OBVIOUS
<1>13. F(h)
    BY <1>11, <1>12
<1>14. TurnsSaid(R) = h[N]
    BY <1>12 DEF TurnsSaid
<1>15. h[0] = <<>> /\ \A n \in 1..N : h[n] = WithReading(h[n - 1], R[n])
  <2>1. 0 \in 0..N /\ \A n \in 1..N : n \in 0..N /\ n # 0
    OBVIOUS
  <2> QED BY <1>13, <2>1
<1>16. \A n \in 0..N : h[n] \in Seq(Voices)
  <2> DEFINE I == {n \in Nat : n <= N => h[n] \in Seq(Voices)}
  <2>0. <<>> \in Seq(Voices)
    OBVIOUS
  <2>1. 0 \in I
    BY <1>15, <2>0
  <2>2. ASSUME NEW n \in Nat, n \in I PROVE n + 1 \in I
    <3> SUFFICES ASSUME n + 1 <= N PROVE h[n + 1] \in Seq(Voices)
      OBVIOUS
    <3>1. n + 1 \in 1..N /\ (n + 1) - 1 = n /\ h[n] \in Seq(Voices)
      BY <2>2
    <3>2. h[n + 1] = WithReading(h[n], R[n + 1]) /\ R[n + 1] \in Voices
      BY <1>0, <1>15, <3>1
    <3> QED BY <3>1, <3>2, ReadingTyped
  <2>3. Nat \subseteq I
    <3> HIDE DEF I
    <3> QED BY <2>1, <2>2, SetInduction
  <2> QED BY <2>3
<1>17. Tells(sys, h, R, N)
  <2>1. \A n \in 1..N : sys[n] = sys[n - 1] \o SystemWords(R[n])
    BY <1>2, <1>5 DEF Joins
  <2> QED BY <1>5, <1>15, <2>1 DEF Tells, Joins
<1>18. SystemSaid(R) = sys[N]
    BY <1>3, <1>5
<1> HIDE DEF F
<1> QED BY <1>6, <1>14, <1>16, <1>17, <1>18

\* Readings that begin alike say the same so far.
LEMMA TellsAgree ==
    ASSUME NEW N \in Nat, NEW R, NEW S, NEW s, NEW t, NEW u, NEW v,
           Tells(s, t, R, N), Tells(u, v, S, N), \A n \in 1..N : R[n] = S[n]
    PROVE  s[N] = u[N] /\ t[N] = v[N]
<1> DEFINE I == {n \in Nat : n <= N => s[n] = u[n] /\ t[n] = v[n]}
<1>1. 0 \in I
    BY DEF Tells
<1>2. ASSUME NEW n \in Nat, n \in I
      PROVE  n + 1 \in I
  <2> SUFFICES ASSUME n + 1 <= N PROVE s[n + 1] = u[n + 1] /\ t[n + 1] = v[n + 1]
    OBVIOUS
  <2>1. n + 1 \in 1..N /\ (n + 1) - 1 = n /\ s[n] = u[n] /\ t[n] = v[n]
    BY <1>2
  <2> QED BY <2>1 DEF Tells
<1>3. N \in I
  <2> HIDE DEF I
  <2> QED BY <1>1, <1>2, SetInduction
<1> QED BY <1>3

\* No reading says nothing.
LEMMA SaidByNone == SystemSaid(<<>>) = <<>> /\ TurnsSaid(<<>>) = <<>>
<1>1. PICK none \in Seq(Voices) : none = <<>> /\ Len(none) = 0
  <2>1. <<>> \in Seq(Voices) /\ Len(<<>>) = 0
    OBVIOUS
  <2> QED BY <2>1
<1>2. PICK N \in Nat : N = Len(none)
    OBVIOUS
<1>3. PICK sys, turns : /\ Tells(sys, turns, none, N)
                        /\ SystemSaid(none) = sys[N] /\ TurnsSaid(none) = turns[N]
    BY <1>2, SaidSteps
<1>4. N = 0
    BY <1>1, <1>2
<1> QED BY <1>1, <1>3, <1>4 DEF Tells

\* What is said with one more reading.
LEMMA SaidAppended ==
    ASSUME NEW R \in Seq(Voices), NEW r \in Voices
    PROVE  /\ Append(R, r) \in Seq(Voices)
           /\ SystemSaid(R) \in Seq(Utterances) /\ TurnsSaid(R) \in Seq(Voices)
           /\ SystemSaid(Append(R, r)) = SystemSaid(R) \o SystemWords(r)
           /\ TurnsSaid(Append(R, r)) = WithReading(TurnsSaid(R), r)
<1>1. PICK N \in Nat : N = Len(R) /\ DOMAIN R = 1..N
    OBVIOUS
<1>2. PICK more \in Seq(Voices) : more = Append(R, r)
    BY ValuesAppended
<1>3. /\ Len(more) = N + 1 /\ N + 1 \in Nat
      /\ more[N + 1] = r /\ \A n \in 1..N : more[n] = R[n]
    BY <1>1, <1>2
<1>4. PICK s, t : /\ Tells(s, t, R, N)
                  /\ SystemSaid(R) = s[N] /\ TurnsSaid(R) = t[N]
                  /\ s[N] \in Seq(Utterances) /\ t[N] \in Seq(Voices)
  <2>1. N \in 0..N
    OBVIOUS
  <2> QED BY <1>1, <2>1, SaidSteps
<1>5. PICK u, v : /\ Tells(u, v, more, N + 1)
                  /\ SystemSaid(more) = u[N + 1] /\ TurnsSaid(more) = v[N + 1]
    BY <1>3, SaidSteps
<1>6. Tells(u, v, more, N)
  <2>1. \A n \in 1..N : n \in 1..(N + 1)
    OBVIOUS
  <2> QED BY <1>5, <2>1 DEF Tells
<1>7. s[N] = u[N] /\ t[N] = v[N]
    BY <1>3, <1>4, <1>6, TellsAgree
<1>8. u[N + 1] = u[N] \o SystemWords(r) /\ v[N + 1] = WithReading(v[N], r)
  <2>1. N + 1 \in 1..(N + 1) /\ (N + 1) - 1 = N
    OBVIOUS
  <2> QED BY <1>3, <1>5, <2>1 DEF Tells
<1> QED BY <1>2, <1>4, <1>5, <1>7, <1>8

\* A reading in two pieces says the same.
LEMMA InTwoPieces ==
    ASSUME NEW turns \in Seq(Voices), NEW role \in Roles \union ItemKinds,
           NEW a \in Seq(Utterances), NEW b \in Seq(Utterances)
    PROVE  LET one == [role |-> role, says |-> a]
               two == [role |-> role, says |-> b]
               all == [role |-> role, says |-> a \o b]
           IN /\ one \in Voices /\ two \in Voices /\ all \in Voices
              /\ WithReading(turns, all) = WithReading(WithReading(turns, one), two)
              /\ SystemWords(all) = SystemWords(one) \o SystemWords(two)
<1>1. PICK one \in Voices : one = [role |-> role, says |-> a]
    BY DEF Voices
<1>2. PICK two \in Voices : two = [role |-> role, says |-> b]
    BY DEF Voices
<1>3. PICK all \in Voices : all = [role |-> role, says |-> a \o b]
  <2>1. a \o b \in Seq(Utterances)
    OBVIOUS
  <2> QED BY <2>1 DEF Voices
<1>4. SystemWords(all) = SystemWords(one) \o SystemWords(two)
  <2>1. <<>> \o <<>> = <<>>
    OBVIOUS
  <2> QED BY <1>1, <1>2, <1>3, <2>1 DEF SystemWords
<1>5. PICK first \in Seq(Voices) : first = WithReading(turns, one)
    BY ReadingTyped
<1>6. WithReading(turns, all) = WithReading(first, two)
  <2>1. CASE role = "system"
    BY <1>1, <1>2, <1>3, <1>5, <2>1 DEF WithReading
  <2>2. CASE role # "system" /\ (turns = <<>> \/ Last(turns).role # role)
    <3>1. PICK n \in Nat : n = Len(turns)
      OBVIOUS
    <3>2. one.role = role /\ two.role = role /\ all.role = role /\ one.says = a /\ two.says = b
      BY <1>1, <1>2, <1>3
    <3>3. first = Append(turns, one) /\ WithReading(turns, all) = Append(turns, all)
      BY <1>5, <2>2, <3>2, ReadingOpens
    <3>4. Len(first) = n + 1 /\ n + 1 \in Nat \ {0} /\ first[n + 1] = one
      BY <3>1, <3>3
    <3>5. WithReading(first, two) = GoneOn(first, n + 1, two)
      <4>1. IsLast(first, n + 1, two)
        BY <2>2, <3>2, <3>4 DEF IsLast
      <4> QED BY <4>1, ReadingGoesOn
    <3>6. GoneOn(first, n + 1, two) = [first EXCEPT ![n + 1] = all]
      BY <1>3, <3>2, <3>4 DEF GoneOn
    <3>7. [Append(turns, one) EXCEPT ![n + 1] = all] = Append(turns, all)
      BY <3>1, AppendedForm
    <3> QED BY <3>3, <3>5, <3>6, <3>7
  <2>3. CASE role # "system" /\ turns # <<>> /\ Last(turns).role = role
    <3>1. PICK n \in Nat \ {0} : n = Len(turns) /\ DOMAIN turns = 1..n
      BY <2>3
    <3>2. PICK last \in Voices : last = turns[n] /\ last.role = role
      BY <2>3, <3>1 DEF Last
    <3>3. one.role = role /\ two.role = role /\ all.role = role
          /\ one.says = a /\ two.says = b /\ all.says = a \o b
      BY <1>1, <1>2, <1>3
    <3>4. PICK k : k = [role |-> role, says |-> last.says \o a]
      OBVIOUS
    <3>5. first = [turns EXCEPT ![n] = k] /\ Len(first) = n /\ first[n] = k
      <4>1. first = GoneOn(turns, n, one) /\ LongerLast(first, turns, n, one)
        <5>1. IsLast(turns, n, one)
          BY <2>3, <3>1, <3>2, <3>3 DEF IsLast
        <5> QED BY <1>5, <5>1, ReadingGoesOn
      <4>2. GoneOn(turns, n, one) = [turns EXCEPT ![n] = k]
        BY <3>2, <3>3, <3>4 DEF GoneOn
      <4>3. Len(first) = n
        BY <4>1 DEF LongerLast
      <4>4. first[n] = k
        BY <3>1, <4>1, <4>2
      <4> QED BY <4>1, <4>2, <4>3, <4>4
    <3>6. WithReading(first, two) = [first EXCEPT ![n] = [role |-> role, says |-> k.says \o b]]
      <4>1. IsLast(first, n, two)
        BY <2>3, <3>1, <3>3, <3>4, <3>5 DEF IsLast
      <4>2. WithReading(first, two) = GoneOn(first, n, two)
        BY <4>1, ReadingGoesOn
      <4> QED BY <3>3, <3>5, <4>2 DEF GoneOn
    <3>7. WithReading(turns, all) = [turns EXCEPT ![n] = [role |-> role, says |-> last.says \o (a \o b)]]
      <4>1. WithReading(turns, all) = GoneOn(turns, n, all)
        <5>1. IsLast(turns, n, all)
          BY <2>3, <3>1, <3>2, <3>3 DEF IsLast
        <5> QED BY <5>1, ReadingGoesOn
      <4> QED BY <3>2, <3>3, <4>1 DEF GoneOn
    <3>8. k.says \o b = last.says \o (a \o b)
      <4>1. PICK x \in Seq(Utterances) : x = last.says
        BY DEF Voices
      <4>2. (x \o a) \o b = x \o (a \o b)
        BY PutTogether
      <4> QED BY <3>4, <4>1, <4>2
    <3>9. ASSUME NEW z
          PROVE  [first EXCEPT ![n] = z] = [turns EXCEPT ![n] = z]
      BY <3>1, <3>5
    <3> QED BY <3>6, <3>7, <3>8, <3>9
  <2> QED BY <2>1, <2>2, <2>3
<1> QED BY <1>1, <1>2, <1>3, <1>4, <1>5, <1>6

\* y says in one reading what x and then r say, in the same role.
InOne(y, x, r) == x.role = r.role /\ y = [role |-> r.role, says |-> x.says \o r.says]

\* The same of readings.
LEMMA InOneReading ==
    ASSUME NEW turns \in Seq(Voices), NEW x \in Voices, NEW r \in Voices, NEW y, InOne(y, x, r)
    PROVE  y \in Voices /\ WithReading(turns, y) = WithReading(WithReading(turns, x), r)
<1>1. PICK a \in Seq(Utterances), b \in Seq(Utterances), role \in Roles \union ItemKinds :
          a = x.says /\ b = r.says /\ role = r.role
    BY DEF Voices
<1>2. x = [role |-> role, says |-> a]
    BY <1>1 DEF Voices, InOne
<1>3. r = [role |-> role, says |-> b]
    BY <1>1 DEF Voices
<1>4. y = [role |-> role, says |-> a \o b]
    BY <1>1 DEF InOne
<1>5. LET one == [role |-> role, says |-> a]
          two == [role |-> role, says |-> b]
          all == [role |-> role, says |-> a \o b]
      IN /\ one \in Voices /\ two \in Voices /\ all \in Voices
         /\ WithReading(turns, all) = WithReading(WithReading(turns, one), two)
         /\ SystemWords(all) = SystemWords(one) \o SystemWords(two)
    BY InTwoPieces
<1> QED BY <1>2, <1>3, <1>4, <1>5

\* A reading of the system's before others adds its words to the prompt only.
LEMMA SystemFirst ==
    ASSUME NEW R \in Seq(Voices), NEW r \in Voices, r.role = "system"
    PROVE  /\ <<r>> \o R \in Seq(Voices)
           /\ SystemSaid(<<r>> \o R) = r.says \o SystemSaid(R)
           /\ TurnsSaid(<<r>> \o R) = TurnsSaid(R)
<1>1. PICK N \in Nat : N = Len(R) /\ DOMAIN R = 1..N
    OBVIOUS
<1>2. PICK all \in Seq(Voices) : all = <<r>> \o R
  <2>1. <<r>> \in Seq(Voices)
    OBVIOUS
  <2> QED BY <2>1, ValuesJoined
<1>3. /\ Len(all) = N + 1 /\ N + 1 \in Nat
      /\ all[1] = r /\ \A n \in 1..N : all[n + 1] = R[n]
    BY <1>1, <1>2
<1>4. PICK s, t : /\ Tells(s, t, R, N)
                  /\ SystemSaid(R) = s[N] /\ TurnsSaid(R) = t[N]
                  /\ \A n \in 0..N : s[n] \in Seq(Utterances) /\ t[n] \in Seq(Voices)
    BY <1>1, SaidSteps
<1>5. PICK u, v : /\ Tells(u, v, all, N + 1)
                  /\ SystemSaid(all) = u[N + 1] /\ TurnsSaid(all) = v[N + 1]
    BY <1>3, SaidSteps
<1>6. r.says \in Seq(Utterances) /\ \A n \in 1..N : SystemWords(R[n]) \in Seq(Utterances)
  <2>1. <<>> \in Seq(Utterances)
    OBVIOUS
  <2>2. \A x \in Voices : x.says \in Seq(Utterances)
    BY DEF Voices
  <2>3. \A n \in 1..N : R[n] \in Voices
    BY <1>1
  <2> QED BY <2>1, <2>2, <2>3 DEF SystemWords
<1> DEFINE P(n) == u[n + 1] = r.says \o s[n] /\ v[n + 1] = t[n]
<1> DEFINE I == {n \in Nat : n <= N => P(n)}
<1>7. 0 \in I
  <2>1. 1 \in 1..(N + 1) /\ 1 - 1 = 0 /\ 0 + 1 = 1
    OBVIOUS
  <2>2. u[1] = u[0] \o SystemWords(all[1]) /\ v[1] = WithReading(v[0], all[1])
    BY <1>5, <2>1 DEF Tells
  <2>3. u[0] = <<>> /\ v[0] = <<>> /\ s[0] = <<>> /\ t[0] = <<>>
    BY <1>4, <1>5 DEF Tells
  <2>4. u[1] = r.says
    BY <1>3, <1>6, <2>2, <2>3 DEF SystemWords
  <2>5. v[1] = <<>>
    BY <1>3, <2>2, <2>3 DEF WithReading
  <2>6. r.says \o <<>> = r.says
    BY <1>6
  <2> QED BY <2>1, <2>3, <2>4, <2>5, <2>6
<1>8. ASSUME NEW n \in Nat, n \in I
      PROVE  n + 1 \in I
  <2> SUFFICES ASSUME n + 1 <= N
               PROVE  P(n + 1)
    <3> HIDE DEF P
    <3> QED OBVIOUS
  <2>1. n + 1 \in 1..N /\ (n + 1) + 1 \in 1..(N + 1) /\ ((n + 1) + 1) - 1 = n + 1 /\ (n + 1) - 1 = n
        /\ n \in 0..N
    OBVIOUS
  <2>2. u[n + 1] = r.says \o s[n] /\ v[n + 1] = t[n]
    <3>1. P(n)
      <4> HIDE DEF P
      <4> QED BY <1>8
    <3> QED BY <3>1
  <2>3. all[(n + 1) + 1] = R[n + 1]
    BY <1>3, <2>1
  <2>4. /\ u[(n + 1) + 1] = u[n + 1] \o SystemWords(R[n + 1])
        /\ v[(n + 1) + 1] = WithReading(v[n + 1], R[n + 1])
    BY <1>5, <2>1, <2>3 DEF Tells
  <2>5. s[n + 1] = s[n] \o SystemWords(R[n + 1]) /\ t[n + 1] = WithReading(t[n], R[n + 1])
    BY <1>4, <2>1 DEF Tells
  <2>6. (r.says \o s[n]) \o SystemWords(R[n + 1]) = r.says \o (s[n] \o SystemWords(R[n + 1]))
    <3>1. PICK a, b, d : a = r.says /\ b = s[n] /\ d = SystemWords(R[n + 1])
      OBVIOUS
    <3>2. a \in Seq(Utterances) /\ b \in Seq(Utterances) /\ d \in Seq(Utterances)
      BY <1>4, <1>6, <2>1, <3>1
    <3>3. (a \o b) \o d = a \o (b \o d)
      BY <3>2, PutTogether
    <3> QED BY <3>1, <3>3
  <2> QED BY <2>2, <2>4, <2>5, <2>6
<1>9. N \in I
  <2> HIDE DEF I
  <2> QED BY <1>7, <1>8, SetInduction
<1>10. P(N)
  <2> HIDE DEF P
  <2> QED BY <1>9
<1> QED BY <1>2, <1>4, <1>5, <1>10

\* The turns with c before them if they do not begin with the user's.
Opened(c, turns) ==
    IF turns # <<>> /\ Head(turns).role = "assistant" THEN <<c>> \o turns ELSE turns

\* One more reading leaves the first turn the one it is.
LEMMA OpenedMore ==
    ASSUME NEW c \in Voices, NEW turns \in Seq(Voices), turns # <<>>, NEW r \in Voices
    PROVE  /\ WithReading(turns, r) # <<>>
           /\ Head(WithReading(turns, r)).role = Head(turns).role
           /\ WithReading(Opened(c, turns), r) = Opened(c, WithReading(turns, r))
<1>1. PICK n \in Nat \ {0} : n = Len(turns) /\ DOMAIN turns = 1..n
    OBVIOUS
<1>2. PICK new \in Seq(Voices) : new = WithReading(turns, r)
    BY ReadingTyped
<1>3. PICK all \in Seq(Voices) : all = <<c>> \o turns
  <2>1. <<c>> \in Seq(Voices)
    OBVIOUS
  <2> QED BY <2>1, ValuesJoined
<1>4. /\ all # <<>> /\ Len(all) = n + 1 /\ DOMAIN all = 1..(n + 1)
      /\ all[1] = c /\ \A i \in 1..n : all[i + 1] = turns[i]
    BY <1>1, <1>3
<1>5. Last(all) = Last(turns)
  <2>1. Last(turns) = turns[n] /\ Last(all) = all[n + 1]
    BY <1>1, <1>4 DEF Last
  <2> QED BY <1>1, <1>4, <2>1
<1>6. SUFFICES new # <<>> /\ Head(new).role = Head(turns).role /\ WithReading(all, r) = <<c>> \o new
    BY <1>2, <1>3 DEF Opened
<1>7. CASE r.role = "system"
    BY <1>2, <1>3, <1>7 DEF WithReading
<1>8. CASE r.role # "system" /\ Last(turns).role # r.role
  <2>1. new = Append(turns, r) /\ WithReading(all, r) = Append(all, r)
    BY <1>2, <1>4, <1>5, <1>8, ReadingOpens
  <2>2. Append(<<c>> \o turns, r) = <<c>> \o Append(turns, r)
    OBVIOUS
  <2>3. new # <<>> /\ Head(new) = Head(turns)
    BY <1>1, <2>1
  <2> QED BY <1>3, <2>1, <2>2, <2>3
<1>9. CASE r.role # "system" /\ Last(turns).role = r.role
  <2>1. PICK k : k = [role |-> r.role, says |-> Last(turns).says \o r.says]
    OBVIOUS
  <2>a. turns[n].role = r.role /\ all[n + 1] = turns[n] /\ Last(turns) = turns[n] /\ n + 1 \in Nat \ {0}
    BY <1>1, <1>4, <1>9 DEF Last
  <2>b. /\ new = GoneOn(turns, n, r) /\ Len(new) = n /\ DOMAIN new = 1..n /\ new[n] = k
        /\ \A i \in 1..n : i # n => new[i] = turns[i]
    <3>1. IsLast(turns, n, r)
      BY <1>1, <1>9, <2>a DEF IsLast
    <3>2. new = GoneOn(turns, n, r)
      BY <1>2, <3>1, ReadingGoesOn
    <3>3. /\ Len(new) = n /\ DOMAIN new = 1..n /\ new[n] = [role |-> r.role, says |-> turns[n].says \o r.says]
          /\ \A i \in 1..n : i # n => new[i] = turns[i]
      <4>1. LongerLast(new, turns, n, r)
        BY <3>1, <3>2, ReadingGoesOn
      <4> QED BY <4>1 DEF LongerLast
    <3> QED BY <2>1, <2>a, <3>2, <3>3
  <2>c. WithReading(all, r) = GoneOn(all, n + 1, r)
    <3>1. IsLast(all, n + 1, r)
      BY <1>4, <1>9, <2>a DEF IsLast
    <3> QED BY <3>1, ReadingGoesOn
  <2>2. new = [turns EXCEPT ![n] = k] /\ WithReading(all, r) = [all EXCEPT ![n + 1] = k]
    BY <2>a, <2>b, <2>c, <2>1 DEF GoneOn
  <2>3. \A i \in 1..n : new[i] = IF i = n THEN k ELSE turns[i]
    BY <2>b
  <2>4. [all EXCEPT ![n + 1] = k] = <<c>> \o new
    <3>1. PICK x : x = [all EXCEPT ![n + 1] = k]
      OBVIOUS
    <3>2. PICK y \in Seq(Voices) : y = <<c>> \o new
      <4>1. <<c>> \in Seq(Voices)
        OBVIOUS
      <4> QED BY <4>1, ValuesJoined
    <3>3. DOMAIN y = 1..(n + 1) /\ y[1] = c /\ \A i \in 1..n : y[i + 1] = new[i]
      BY <2>b, <3>2
    <3>4. DOMAIN x = 1..(n + 1) /\ x[n + 1] = k /\ \A i \in 1..n : x[i] = all[i]
      BY <1>4, <3>1
    <3>5. ASSUME NEW i \in 1..(n + 1)
          PROVE  x[i] = y[i]
      <4>1. CASE i = 1
        BY <1>1, <1>4, <3>3, <3>4, <4>1
      <4>2. CASE i # 1
        <5>1. i - 1 \in 1..n /\ (i - 1) + 1 = i
          BY <4>2
        <5>2. y[i] = new[i - 1]
          BY <3>3, <5>1
        <5>3. CASE i = n + 1
          BY <2>3, <3>4, <5>1, <5>2, <5>3
        <5>4. CASE i # n + 1
          <6>1. i \in 1..n /\ i - 1 # n
            BY <5>4
          <6>2. all[i] = turns[i - 1]
            BY <1>4, <5>1
          <6> QED BY <2>3, <3>4, <5>1, <5>2, <6>1, <6>2
        <5> QED BY <5>3, <5>4
      <4> QED BY <4>1, <4>2
    <3>6. x = y
      <4>1. x = [i \in 1..(n + 1) |-> x[i]]
        BY <1>4, <3>1
      <4>2. y = [i \in 1..(n + 1) |-> y[i]]
        BY <3>3
      <4> QED BY <3>5, <4>1, <4>2
    <3> QED BY <3>1, <3>2, <3>6
  <2>5. new # <<>> /\ Head(new).role = Head(turns).role
    <3>1. Head(new) = new[1] /\ Head(turns) = turns[1] /\ 1 \in 1..n
      BY <1>1, <2>b
    <3>2. CASE n = 1
      <4>1. Last(turns) = turns[1]
        BY <1>1, <3>2 DEF Last
      <4> QED BY <1>1, <1>9, <2>1, <2>b, <3>1, <3>2, <4>1
    <3>3. CASE n # 1
      BY <1>1, <2>b, <3>1, <3>3
    <3> QED BY <3>2, <3>3
  <2> QED BY <2>2, <2>4, <2>5
<1> QED BY <1>7, <1>8, <1>9

(***************************************************************************)
(* Placeholders resolved                                                   *)
(***************************************************************************)

\* Texts put together are joined one after the other.
LEMMA JoinedTwo ==
    ASSUME NEW W, NEW r \in Seq(Seq(W)), NEW s \in Seq(Seq(W))
    PROVE  Joined(r \o s) = Joined(r) \o Joined(s)
<1>1. PICK M \in Nat, N \in Nat : /\ M = Len(r) /\ DOMAIN r = 1..M
                                  /\ N = Len(s) /\ DOMAIN s = 1..N
  <2>1. PICK M \in Nat : M = Len(r) /\ DOMAIN r = 1..M
    OBVIOUS
  <2>2. PICK N \in Nat : N = Len(s) /\ DOMAIN s = 1..N
    OBVIOUS
  <2> QED BY <2>1, <2>2
<1>2. PICK all \in Seq(Seq(W)) : all = r \o s
    BY ValuesJoined
<1>3. /\ Len(all) = M + N /\ M + N \in Nat /\ \A n \in 1..M : all[n] = r[n]
      /\ \A n \in 1..N : all[M + n] = s[n]
    BY <1>1, <1>2
<1>4. /\ \A n \in 1..M : r[n] \in Seq(W)
      /\ \A n \in 1..N : s[n] \in Seq(W)
      /\ \A n \in 1..(M + N) : all[n] \in Seq(W)
    BY <1>1, <1>3
<1>5. PICK f : Joins(f, r, M) /\ Joined(r) = f[M]
    BY <1>1, <1>4, JoinedSteps
<1>6. PICK g : Joins(g, s, N) /\ Joined(s) = g[N]
    BY <1>1, <1>4, JoinedSteps
<1>7. PICK h : Joins(h, all, M + N) /\ Joined(all) = h[M + N]
    BY <1>3, <1>4, JoinedSteps
<1>8. h[M] = f[M]
  <2>1. Joins(h, all, M)
    <3>1. \A n \in 1..M : n \in 1..(M + N)
      OBVIOUS
    <3> QED BY <1>7, <3>1 DEF Joins
  <2> QED BY <1>3, <1>5, <2>1, JoinsAgree
<1>9. f[M] \in Seq(W)
    BY <1>5, JoinedValues
<1> DEFINE P(n) == g[n] \in Seq(W) /\ h[M + n] = f[M] \o g[n]
           I == {n \in Nat : n <= N => P(n)}
<1>10. 0 \in I
  <2>1. <<>> \in Seq(W) /\ f[M] \o <<>> = f[M] /\ M + 0 = M
    BY <1>9
  <2> QED BY <1>6, <1>8, <2>1 DEF Joins
<1>11. ASSUME NEW n \in Nat, n \in I
       PROVE  n + 1 \in I
  <2> SUFFICES ASSUME n + 1 <= N PROVE P(n + 1)
    <3> HIDE DEF P
    <3> QED OBVIOUS
  <2>1. P(n)
    <3> HIDE DEF P
    <3> QED BY <1>11
  <2>2. n + 1 \in 1..N /\ (n + 1) - 1 = n /\ M + (n + 1) \in 1..(M + N) /\ (M + (n + 1)) - 1 = M + n
    OBVIOUS
  <2>3. g[n + 1] = g[n] \o s[n + 1]
    BY <1>6, <2>2 DEF Joins
  <2>4. h[M + (n + 1)] = h[M + n] \o s[n + 1]
    BY <1>3, <1>7, <2>2 DEF Joins
  <2>5. s[n + 1] \in Seq(W)
    BY <1>4, <2>2
  <2>6. PICK a \in Seq(W), b \in Seq(W), c \in Seq(W) : a = f[M] /\ b = g[n] /\ c = s[n + 1]
    BY <1>9, <2>1, <2>5
  <2>7. (a \o b) \o c = a \o (b \o c) /\ b \o c \in Seq(W)
    BY PutTogether, SMTT(30)
  <2> QED BY <2>1, <2>3, <2>4, <2>6, <2>7
<1>12. P(N)
  <2>1. Nat \subseteq I
    <3> HIDE DEF I
    <3> QED BY <1>10, <1>11, SetInduction
  <2> HIDE DEF P
  <2> QED BY <2>1
<1> QED BY <1>2, <1>5, <1>6, <1>7, <1>8, <1>12

\* The entries of a registry stand for texts.
Known(entries) == \A r \in entries : r.value \in Text

\* What a word stands for.
Meant(word, entries) ==
    LET known == {r \in entries : r.entity = word[2] /\ r.index = word[3]}
    IN IF word[1] # "mask" \/ known = {} THEN <<word>> ELSE (CHOOSE r \in known : TRUE).value

\* What a word stands for, its placeholder resolved, is a text.
LEMMA MeantTyped ==
    ASSUME NEW entries, Known(entries), NEW word \in Words
    PROVE  Meant(word, entries) \in Text
<1> DEFINE known == {r \in entries : r.entity = word[2] /\ r.index = word[3]}
<1>1. <<word>> \in Text
  <2>1. <<word>> \in Seq(Words)
    BY OneValue
  <2> QED BY <2>1 DEF Text
<1>2. CASE known = {} \/ word[1] # "mask"
  <2>1. Meant(word, entries) = <<word>>
    BY <1>2 DEF Meant
  <2> QED BY <1>1, <2>1
<1>3. CASE known # {} /\ word[1] = "mask"
  <2>1. PICK r : r = CHOOSE s \in known : TRUE
    OBVIOUS
  <2>2. r \in known
    BY <1>3, <2>1
  <2>3. Meant(word, entries) = r.value
    BY <1>3, <2>1 DEF Meant
  <2> QED BY <2>2, <2>3 DEF Known
<1> QED BY <1>2, <1>3

\* The texts that words stand for, joined.
LEMMA ResolvedWords ==
    ASSUME NEW entries, Known(entries), NEW text \in Text
    PROVE  /\ [i \in DOMAIN text |-> Meant(text[i], entries)] \in Seq(Seq(Words))
           /\ Resolved(text, entries) = Joined([i \in DOMAIN text |-> Meant(text[i], entries)])
           /\ Resolved(text, entries) \in Text
<1>1. PICK N \in Nat : N = Len(text) /\ DOMAIN text = 1..N /\ \A i \in 1..N : text[i] \in Words
    BY DEF Text
<1>2. PICK all : all = [i \in 1..N |-> Meant(text[i], entries)]
    OBVIOUS
<1>3. all \in [1..N -> Seq(Words)]
  <2>1. \A i \in 1..N : Meant(text[i], entries) \in Seq(Words)
    BY <1>1, MeantTyped DEF Text
  <2> QED BY <1>2, <2>1
<1>4. all \in Seq(Seq(Words))
    BY <1>3
<1>5. Resolved(text, entries) = Joined(all)
    BY <1>1, <1>2 DEF Resolved, Meant
<1>6. Joined(all) \in Text
    BY <1>4, JoinedValues DEF Text
<1> QED BY <1>1, <1>2, <1>4, <1>5, <1>6

\* Two sequences put together, value by value.
IsTogether(c, a, m, b, n) ==
    /\ DOMAIN c = 1..(m + n) /\ Len(c) = m + n
    /\ \A i \in 1..m : c[i] = a[i]
    /\ \A i \in 1..n : c[m + i] = b[i]

\* A concatenation holds its first sequence, then its second.
LEMMA TogetherForm ==
    ASSUME NEW X, NEW a \in Seq(X), NEW b \in Seq(X)
    PROVE  IsTogether(a \o b, a, Len(a), b, Len(b))
BY DEF IsTogether

\* The values of a function along a sequence.
Mapped(f, s) == [i \in DOMAIN s |-> f[s[i]]]

\* A function that takes one set to another.
MapsTo(f, X, Y) == \A x \in X : f[x] \in Y

\* Mapping distributes over concatenation.
LEMMA MappedTwo ==
    ASSUME NEW X, NEW Y, NEW f, MapsTo(f, X, Y), NEW r \in Seq(X), NEW s \in Seq(X)
    PROVE  /\ Mapped(f, r) \in Seq(Y)
           /\ Mapped(f, r \o s) = Mapped(f, r) \o Mapped(f, s)
<1>1. PICK M \in Nat : M = Len(r) /\ DOMAIN r = 1..M
    OBVIOUS
<1>2. PICK N \in Nat : N = Len(s) /\ DOMAIN s = 1..N
    OBVIOUS
<1>3. PICK all \in Seq(X) : all = r \o s
    BY ValuesJoined
<1>4. /\ DOMAIN all = 1..(M + N) /\ \A n \in 1..M : all[n] = r[n]
      /\ \A n \in 1..N : all[M + n] = s[n]
    BY <1>1, <1>2, <1>3
<1>5. PICK a : a = [i \in DOMAIN r |-> f[r[i]]]
    OBVIOUS
<1>6. PICK b : b = [i \in DOMAIN s |-> f[s[i]]]
    OBVIOUS
<1>7. PICK c : c = [i \in DOMAIN all |-> f[all[i]]]
    OBVIOUS
<1>8. /\ a \in Seq(Y) /\ Len(a) = M /\ DOMAIN a = 1..M
      /\ b \in Seq(Y) /\ Len(b) = N /\ DOMAIN b = 1..N
  <2>1. a \in [1..M -> Y] /\ b \in [1..N -> Y]
    BY <1>1, <1>2, <1>5, <1>6 DEF MapsTo
  <2> QED BY <2>1
<1>9. PICK d \in Seq(Y) : d = a \o b
    BY <1>8, ValuesJoined
<1>10. /\ DOMAIN d = 1..(M + N) /\ \A n \in 1..M : d[n] = a[n]
       /\ \A n \in 1..N : d[M + n] = b[n]
  <2>1. IsTogether(d, a, M, b, N)
    BY <1>8, <1>9, TogetherForm
  <2> QED BY <2>1 DEF IsTogether
<1>11. ASSUME NEW n \in 1..(M + N)
       PROVE  c[n] = d[n]
  <2>1. c[n] = f[all[n]]
    BY <1>4, <1>7
  <2>2. CASE n \in 1..M
    BY <1>1, <1>4, <1>5, <1>10, <2>1, <2>2
  <2>3. CASE n \notin 1..M
    <3>1. n - M \in 1..N /\ M + (n - M) = n
      BY <2>3
    <3>2. all[n] = s[n - M] /\ d[n] = b[n - M]
      BY <1>4, <1>10, <3>1
    <3> QED BY <1>2, <1>6, <2>1, <3>1, <3>2
  <2> QED BY <2>2, <2>3
<1>12. c = d
  <2>1. c = [n \in 1..(M + N) |-> c[n]]
    BY <1>4, <1>7
  <2>2. d = [n \in 1..(M + N) |-> d[n]]
    BY <1>10
  <2> QED BY <1>11, <2>1, <2>2
<1> QED BY <1>3, <1>5, <1>6, <1>7, <1>8, <1>9, <1>12 DEF Mapped

\* Resolving is done text by text.
LEMMA ResolvedDistributes ==
    ASSUME NEW entries, Known(entries)
    PROVE  Distributes([text \in Text |-> Resolved(text, entries)], Words, Words)
<1>1. PICK h : h = [text \in Text |-> Resolved(text, entries)]
    OBVIOUS
<1>2. PICK f : f = [word \in Words |-> Meant(word, entries)]
    OBVIOUS
<1>3. f \in [Words -> Seq(Words)]
  <2>1. \A word \in Words : Meant(word, entries) \in Seq(Words)
    BY MeantTyped DEF Text
  <2> QED BY <1>2, <2>1
<1>4. ASSUME NEW text \in Text
      PROVE  /\ h[text] \in Seq(Words)
             /\ Mapped(f, text) \in Seq(Seq(Words))
             /\ h[text] = Joined(Mapped(f, text))
  <2>1. \A i \in DOMAIN text : f[text[i]] = Meant(text[i], entries)
    BY <1>2 DEF Text
  <2>2. Mapped(f, text) = [i \in DOMAIN text |-> Meant(text[i], entries)]
    BY <2>1 DEF Mapped
  <2>3. h[text] = Resolved(text, entries)
    BY <1>1
  <2> QED BY <2>2, <2>3, ResolvedWords DEF Text
<1>5. <<>> \in Text
  <2>1. <<>> \in Seq(Words)
    OBVIOUS
  <2> QED BY <2>1 DEF Text
<1>6. h[<<>>] = <<>>
  <2>1. Mapped(f, <<>>) = <<>>
    BY DEF Mapped
  <2>2. Joined(<<>>) = <<>>
    BY <1>5, JoinedFew DEF Text
  <2> QED BY <1>4, <1>5, <2>1, <2>2
<1>7. ASSUME NEW r \in Text, NEW s \in Text
      PROVE  h[r \o s] = h[r] \o h[s]
  <2>1. PICK a : a = Mapped(f, r)
    OBVIOUS
  <2>2. PICK b : b = Mapped(f, s)
    OBVIOUS
  <2>3. r \o s \in Text
    BY ValuesJoined DEF Text
  <2>4. h[r \o s] = Joined(a \o b)
    <3>1. PICK V, Y : V = Words /\ Y = Seq(Words)
      OBVIOUS
    <3>2. MapsTo(f, V, Y) /\ r \in Seq(V) /\ s \in Seq(V)
      BY <1>3, <3>1 DEF Text, MapsTo
    <3>3. Mapped(f, r) \in Seq(Y) /\ Mapped(f, r \o s) = Mapped(f, r) \o Mapped(f, s)
      BY <3>2, MappedTwo
    <3> QED BY <1>4, <2>1, <2>2, <2>3, <3>3
  <2>5. Joined(a \o b) = Joined(a) \o Joined(b)
    <3>1. a \in Seq(Seq(Words)) /\ b \in Seq(Seq(Words))
      BY <1>4, <2>1, <2>2
    <3> QED BY <3>1, JoinedTwo
  <2> QED BY <1>4, <2>1, <2>2, <2>4, <2>5
<1>8. h \in [Seq(Words) -> Seq(Words)]
  <2>1. \A text \in Text : Resolved(text, entries) \in Seq(Words)
    BY ResolvedWords DEF Text
  <2> QED BY <1>1, <2>1 DEF Text
<1>9. Distributes(h, Words, Words)
    BY <1>6, <1>7, <1>8 DEF Distributes, Text
<1> QED BY <1>1, <1>9

(***************************************************************************)
(* What a content says                                                     *)
(***************************************************************************)

\* The words of a text, as what is said.
Spelled(text, entries) ==
    LET all == Resolved(text, entries) IN [i \in DOMAIN all |-> <<"word", all[i]>>]

\* Spelling a text out distributes over concatenation.
LEMMA SpelledDistributes ==
    ASSUME NEW entries, Known(entries)
    PROVE  Distributes([text \in Text |-> Spelled(text, entries)], Words, Utterances)
<1>1. PICK h : h = [text \in Text |-> Resolved(text, entries)]
    OBVIOUS
<1>2. Distributes(h, Words, Words)
    BY <1>1, ResolvedDistributes
<1>3. /\ \A text \in Seq(Words) : h[text] \in Seq(Words)
      /\ h[<<>>] = <<>> /\ \A r, s \in Seq(Words) : h[r \o s] = h[r] \o h[s]
    BY <1>2 DEF Distributes
<1>4. PICK f : f = [word \in Words |-> <<"word", word>>]
    OBVIOUS
<1>5. MapsTo(f, Words, Utterances)
    BY <1>4 DEF MapsTo, Utterances
<1>6. PICK k : k = [text \in Text |-> Spelled(text, entries)]
    OBVIOUS
<1>7. ASSUME NEW text \in Seq(Words)
      PROVE  k[text] = Mapped(f, h[text])
  <2>1. text \in Text /\ h[text] = Resolved(text, entries)
    BY <1>1 DEF Text
  <2>2. k[text] = Spelled(text, entries)
    BY <1>6, <2>1
  <2>3. PICK all \in Seq(Words) : all = Resolved(text, entries)
    BY <1>3, <2>1
  <2>4. \A i \in DOMAIN all : f[all[i]] = <<"word", all[i]>>
    BY <1>4
  <2>5. Mapped(f, all) = [i \in DOMAIN all |-> <<"word", all[i]>>]
    BY <2>4 DEF Mapped
  <2> QED BY <2>1, <2>2, <2>3, <2>5 DEF Spelled
<1>8. ASSUME NEW text \in Seq(Words)
      PROVE  k[text] \in Seq(Utterances)
    BY <1>3, <1>5, <1>7, MappedTwo
<1>9. k[<<>>] = <<>>
  <2>1. Mapped(f, <<>>) = <<>> /\ <<>> \in Seq(Words)
    BY DEF Mapped
  <2> QED BY <1>3, <1>7, <2>1
<1>10. ASSUME NEW r \in Seq(Words), NEW s \in Seq(Words)
       PROVE  k[r \o s] = k[r] \o k[s]
  <2>1. PICK a \in Seq(Words), b \in Seq(Words) : a = h[r] /\ b = h[s]
    BY <1>3
  <2>2. Mapped(f, a \o b) = Mapped(f, a) \o Mapped(f, b)
    BY <1>5, MappedTwo, SMTT(30)
  <2>3. r \o s \in Seq(Words) /\ h[r \o s] = a \o b
    BY <1>3, <2>1, ValuesJoined
  <2> QED BY <1>7, <2>1, <2>2, <2>3
<1>11. k \in [Seq(Words) -> Seq(Utterances)]
  <2>1. k = [text \in Seq(Words) |-> k[text]]
    BY <1>6 DEF Text
  <2> QED BY <1>8, <2>1
<1> QED BY <1>6, <1>9, <1>10, <1>11 DEF Distributes

\* A text spelled out is utterances, and the empty text says nothing.
LEMMA SpelledFacts ==
    ASSUME NEW entries, Known(entries)
    PROVE  /\ \A text \in Text : Spelled(text, entries) \in Seq(Utterances)
           /\ Spelled(<<>>, entries) = <<>>
<1>1. PICK k : k = [text \in Text |-> Spelled(text, entries)]
    OBVIOUS
<1>2. k \in [Text -> Seq(Utterances)] /\ k[<<>>] = <<>>
    BY <1>1, SpelledDistributes DEF Distributes, Text
<1>3. <<>> \in Text
  <2>1. <<>> \in Seq(Words)
    OBVIOUS
  <2> QED BY <2>1 DEF Text
<1> QED BY <1>1, <1>2, <1>3

\* What a part says is typed.
LEMMA SaysTyped ==
    ASSUME NEW entries, Known(entries), NEW part \in ContentParts
    PROVE  /\ Says(part, entries) \in Seq(Utterances)
           /\ IsTextPart(part) => Says(part, entries) = Spelled(part.text, entries)
<1>1. part.text \in Text /\ part.kind \in {"text", "tool", "thought", "media"}
    BY DEF ContentParts
<1>2. CASE part.kind = "text"
  <2>1. Says(part, entries) = Spelled(part.text, entries)
    BY <1>2 DEF Says, Spelled
  <2> QED BY <1>1, <2>1, SpelledFacts
<1>3. CASE part.kind # "text"
  <2>1. PICK said : said = <<part.kind, Resolved(part.text, entries)>>
    OBVIOUS
  <2>2. said \in Utterances
    BY <1>1, <1>3, <2>1, ResolvedWords DEF Utterances
  <2>3. Says(part, entries) = <<said>>
    BY <1>3, <2>1 DEF Says
  <2> QED BY <1>3, <2>2, <2>3, OneValue DEF IsTextPart
<1> QED BY <1>2, <1>3

\* What parts say, one after the other.
Voiced(parts, entries) == Joined([i \in DOMAIN parts |-> Says(parts[i], entries)])

\* The function from a part to what it says.
Sayings(entries) == [part \in ContentParts |-> Says(part, entries)]

\* What parts say is what each says, in order.
LEMMA VoicedParts ==
    ASSUME NEW entries, Known(entries), NEW parts \in Seq(ContentParts)
    PROVE  /\ MapsTo(Sayings(entries), ContentParts, Seq(Utterances))
           /\ Mapped(Sayings(entries), parts) \in Seq(Seq(Utterances))
           /\ Voiced(parts, entries) = Joined(Mapped(Sayings(entries), parts))
           /\ Voiced(parts, entries) \in Seq(Utterances)
<1>1. PICK f : f = Sayings(entries)
    OBVIOUS
<1>2. \A part \in ContentParts : f[part] = Says(part, entries)
    BY <1>1 DEF Sayings
<1>3. PICK Y : Y = Seq(Utterances)
    OBVIOUS
<1>4. MapsTo(f, ContentParts, Y)
    BY <1>2, <1>3, SaysTyped DEF MapsTo
<1>5. Mapped(f, parts) \in Seq(Y)
    BY <1>4, MappedTwo
<1>6. Mapped(f, parts) = [i \in DOMAIN parts |-> Says(parts[i], entries)]
    BY <1>2 DEF Mapped
<1>7. Voiced(parts, entries) = Joined(Mapped(f, parts))
    BY <1>6 DEF Voiced
<1>8. Joined(Mapped(f, parts)) \in Seq(Utterances)
    BY <1>3, <1>5, JoinedValues
<1> QED BY <1>1, <1>3, <1>4, <1>5, <1>7, <1>8

\* No part says nothing, parts put together say one after the other what they say.
LEMMA VoicedTwo ==
    ASSUME NEW entries, Known(entries), NEW a \in Seq(ContentParts), NEW b \in Seq(ContentParts)
    PROVE  Voiced(a \o b, entries) = Voiced(a, entries) \o Voiced(b, entries)
<1>1. PICK f, Y : f = Sayings(entries) /\ Y = Seq(Utterances)
    OBVIOUS
<1>2. a \o b \in Seq(ContentParts)
    BY ValuesJoined
<1>3. MapsTo(f, ContentParts, Y)
    BY <1>1, VoicedParts
<1>4. Mapped(f, a \o b) = Mapped(f, a) \o Mapped(f, b)
    BY <1>3, MappedTwo
<1>5. /\ Mapped(f, a) \in Seq(Seq(Utterances)) /\ Mapped(f, b) \in Seq(Seq(Utterances))
      /\ Voiced(a, entries) = Joined(Mapped(f, a)) /\ Voiced(b, entries) = Joined(Mapped(f, b))
    BY <1>1, VoicedParts
<1>6. Voiced(a \o b, entries) = Joined(Mapped(f, a \o b))
    BY <1>1, <1>2, VoicedParts
<1>7. Joined(Mapped(f, a) \o Mapped(f, b)) = Joined(Mapped(f, a)) \o Joined(Mapped(f, b))
    BY <1>5, JoinedTwo
<1> QED BY <1>4, <1>5, <1>6, <1>7

\* No part says nothing, and one part says what it says.
LEMMA VoicedFew ==
    ASSUME NEW entries, Known(entries)
    PROVE  /\ Voiced(<<>>, entries) = <<>>
           /\ \A part \in ContentParts : Voiced(<<part>>, entries) = Says(part, entries)
<1>1. Voiced(<<>>, entries) = <<>>
  <2>1. [i \in DOMAIN <<>> |-> Says(<<>>[i], entries)] = <<>>
    OBVIOUS
  <2>2. <<>> \in Seq(Utterances)
    OBVIOUS
  <2> QED BY <2>1, <2>2, JoinedFew DEF Voiced
<1>2. ASSUME NEW part \in ContentParts
      PROVE  Voiced(<<part>>, entries) = Says(part, entries)
  <2>1. [i \in DOMAIN <<part>> |-> Says(<<part>>[i], entries)] = <<Says(part, entries)>>
    OBVIOUS
  <2>2. Joined(<<Says(part, entries)>>) = Says(part, entries)
    BY SaysTyped, JoinedFew
  <2> QED BY <2>1, <2>2 DEF Voiced
<1> QED BY <1>1, <1>2

\* Parts of text only say the words of their text.
LEMMA VoicedText ==
    ASSUME NEW entries, Known(entries), NEW parts \in Seq(ContentParts),
           \A i \in DOMAIN parts : IsTextPart(parts[i])
    PROVE  /\ TextOfParts(parts) \in Text
           /\ Voiced(parts, entries) = Spelled(TextOfParts(parts), entries)
<1>1. PICK texts : texts = [i \in DOMAIN parts |-> parts[i].text]
    OBVIOUS
<1>2. PICK N \in Nat : N = Len(parts) /\ DOMAIN parts = 1..N /\ \A i \in 1..N : parts[i] \in ContentParts
    OBVIOUS
<1>3. texts \in Seq(Seq(Words))
  <2>1. \A i \in 1..N : parts[i].text \in Seq(Words)
    BY <1>2 DEF ContentParts, Text
  <2>2. texts \in [1..N -> Seq(Words)]
    BY <1>1, <1>2, <2>1
  <2> QED BY <2>2
<1>4. TextOfParts(parts) = Joined(texts)
  <2>1. [i \in DOMAIN parts |-> IF IsTextPart(parts[i]) THEN parts[i].text ELSE <<>>] = texts
    BY <1>1
  <2> QED BY <2>1 DEF TextOfParts
<1>5. PICK k : k = [text \in Text |-> Spelled(text, entries)]
    OBVIOUS
<1>6. Distributes(k, Words, Utterances)
    BY <1>5, SpelledDistributes
<1>7. k[Joined(texts)] = Joined([i \in DOMAIN texts |-> k[texts[i]]])
    BY <1>3, <1>6, JoinedMapped
<1>8. [i \in DOMAIN texts |-> k[texts[i]]] = [i \in DOMAIN parts |-> Says(parts[i], entries)]
  <2>1. DOMAIN texts = DOMAIN parts
    BY <1>1
  <2>2. ASSUME NEW i \in DOMAIN parts
        PROVE  k[texts[i]] = Says(parts[i], entries)
    <3>1. texts[i] = parts[i].text /\ texts[i] \in Text /\ parts[i] \in ContentParts
      BY <1>1, <1>2 DEF ContentParts
    <3>2. k[texts[i]] = Spelled(texts[i], entries)
      BY <1>5, <3>1
    <3>3. Says(parts[i], entries) = Spelled(parts[i].text, entries)
      BY <3>1, SaysTyped
    <3> QED BY <3>1, <3>2, <3>3
  <2> QED BY <2>1, <2>2
<1>9. Joined(texts) \in Text
    BY <1>3, JoinedValues DEF Text
<1> QED BY <1>4, <1>5, <1>7, <1>8, <1>9 DEF Voiced

\* What is said beside the content.
LEMMA UtteredTyped ==
    ASSUME NEW entries, Known(entries), NEW content, content.parts \in Seq(ContentParts),
           NEW calls \in Seq(Text)
    PROVE  /\ Uttered(content, calls, entries) \in Seq(Utterances)
           /\ calls = <<>> => Uttered(content, calls, entries) = Voiced(content.parts, entries)
<1>1. PICK a \in Seq(Utterances) : a = Voiced(content.parts, entries)
    BY VoicedParts
<1>2. PICK b : b = [i \in DOMAIN calls |-> <<"call", Resolved(calls[i], entries)>>]
    OBVIOUS
<1>3. Uttered(content, calls, entries) = a \o b
    BY <1>1, <1>2 DEF Uttered, Voiced
<1>4. b \in Seq(Utterances)
  <2>1. PICK N \in Nat : DOMAIN calls = 1..N
    OBVIOUS
  <2>2. \A i \in 1..N : <<"call", Resolved(calls[i], entries)>> \in Utterances
    <3> SUFFICES ASSUME NEW i \in 1..N
                 PROVE  <<"call", Resolved(calls[i], entries)>> \in Utterances
      OBVIOUS
    <3>1. calls[i] \in Text
      BY <2>1
    <3>2. Resolved(calls[i], entries) \in Text
      BY <3>1, ResolvedWords
    <3> QED BY <3>2 DEF Utterances
  <2>3. b \in [1..N -> Utterances]
    BY <1>2, <2>1, <2>2
  <2> QED BY <2>3
<1>5. calls = <<>> => b = <<>>
    BY <1>2
<1>6. a \o <<>> = a
    OBVIOUS
<1> QED BY <1>1, <1>3, <1>4, <1>5, <1>6, ValuesJoined

\* One word alone.
LEMMA ResolvedOne ==
    ASSUME NEW entries, Known(entries), NEW word \in Words
    PROVE  <<word>> \in Text /\ Resolved(<<word>>, entries) = Meant(word, entries)
<1>1. <<word>> \in Text
    BY OneValue DEF Text
<1>2. [i \in DOMAIN <<word>> |-> Meant(<<word>>[i], entries)] = <<Meant(word, entries)>>
    OBVIOUS
<1>3. Joined(<<Meant(word, entries)>>) = Meant(word, entries)
    BY MeantTyped, JoinedFew DEF Text
<1> QED BY <1>1, <1>2, <1>3, ResolvedWords

\* A placeholder of a registry stands for the value it was made for.
LEMMA MaskMeans ==
    ASSUME NEW entries, OneToOne(entries), NEW r \in entries
    PROVE  Meant(<<"mask", r.entity, r.index>>, entries) = r.value
<1> DEFINE known == {s \in entries : s.entity = r.entity /\ s.index = r.index}
<1>1. \A s \in known : s.value = r.value
    BY DEF OneToOne
<1>2. r \in known
    OBVIOUS
<1>3. (CHOOSE s \in known : TRUE) \in known
    BY <1>2
<1>4. (CHOOSE s \in known : TRUE).value = r.value
    BY <1>1, <1>3
<1>5. PICK w : w = <<"mask", r.entity, r.index>>
    OBVIOUS
<1>6. w[1] = "mask" /\ w[2] = r.entity /\ w[3] = r.index
    BY <1>5
<1>7. Meant(w, entries) = (CHOOSE s \in known : TRUE).value
    BY <1>2, <1>6 DEF Meant
<1> QED BY <1>4, <1>5, <1>7

\* One value of a sequence, or two.
LEMMA OneOrTwo ==
    ASSUME NEW X, NEW s \in Seq(X), NEW n \in 1..Len(s)
    PROVE  /\ SubSeq(s, n, n) = <<s[n]>>
           /\ n + 1 \in 1..Len(s) => SubSeq(s, n, n + 1) = <<s[n], s[n + 1]>>
<1>0. PICK N \in Nat : N = Len(s) /\ DOMAIN s = 1..N
    OBVIOUS
<1>1. SubSeq(s, n, n) = <<s[n]>>
  <2>1. PICK t : t = SubSeq(s, n, n)
    OBVIOUS
  <2>2. t \in Seq(X) /\ Len(t) = 1
    BY <1>0, <2>1
  <2>3. SubSeq(s, n, n)[1] = s[n + 1 - 1]
    BY <1>0
  <2>4. t = <<t[1]>>
    BY <2>2
  <2>5. n + 1 - 1 = n
    BY <1>0
  <2> QED BY <2>1, <2>3, <2>4, <2>5
<1>2. ASSUME n + 1 \in 1..Len(s)
      PROVE  SubSeq(s, n, n + 1) = <<s[n], s[n + 1]>>
  <2>1. PICK t : t = SubSeq(s, n, n + 1)
    OBVIOUS
  <2>2. t \in Seq(X) /\ Len(t) = 2
    BY <1>2, <2>1
  <2>a. SubSeq(s, n, n + 1) = [i \in 1..2 |-> s[n + i - 1]]
    BY <1>0, <1>2
  <2>b. n + 1 - 1 = n /\ n + 2 - 1 = n + 1
    BY <1>0
  <2>3. t[1] = s[n] /\ t[2] = s[n + 1]
    BY <2>1, <2>a, <2>b
  <2>4. t = <<t[1], t[2]>>
    BY <2>2
  <2> QED BY <2>1, <2>3, <2>4
<1> QED BY <1>1, <1>2

\* A finding is one word or two words next to each other, that stand for themselves.
LEMMA FindingWords ==
    ASSUME NEW text \in Text, NEW entities, NEW f \in Findings(text, entities), NEW entries
    PROVE  /\ f.start \in 1..Len(text) /\ f.end \in Nat /\ f.end <= Len(text) + 1
           /\ f.entity \in Entities
           /\ f.end = f.start + 1 \/ f.end = f.start + 2
           /\ f.end = f.start + 1 => f.value = <<text[f.start]>>
           /\ f.end = f.start + 2 => f.value = <<text[f.start], text[f.start + 1]>>
           /\ \A i \in 1..Len(text) : f.start <= i /\ i < f.end =>
                Meant(text[i], entries) = <<text[i]>>
<1>1. PICK N \in Nat : N = Len(text) /\ DOMAIN text = 1..N
    BY DEF Text
<1>2. IsFinding(f, text, entities)
    BY FindingsFacts
<1>3. /\ f.start \in Nat /\ f.end \in Nat /\ f.entity \in Entities
      /\ f.value = SubSeq(text, f.start, f.end - 1)
    BY <1>2 DEF IsFinding
<1>4. IsSpan(<<f.start, f.end - f.start>>, f.entity, text)
    BY <1>2 DEF IsFinding
<1>5. /\ f.start \in 1..N /\ f.end - f.start \in {1, 2} /\ f.start + (f.end - f.start) <= N + 1
      /\ \A i \in 1..N : f.start <= i /\ i < f.start + (f.end - f.start) =>
            IsWord(text, i, WordFor(f.entity))
    BY <1>1, <1>4 DEF IsSpan
<1>6. /\ f.end <= N + 1 /\ (f.end = f.start + 1 \/ f.end = f.start + 2)
      /\ f.start + (f.end - f.start) = f.end
    BY <1>3, <1>5
<1>7. ASSUME NEW i \in 1..N, f.start <= i, i < f.end
      PROVE  Meant(text[i], entries) = <<text[i]>>
  <2>1. text[i][1] = "pii"
    BY <1>5, <1>6, <1>7 DEF IsWord
  <2> QED BY <2>1 DEF Meant
<1>8. f.end = f.start + 1 => f.value = <<text[f.start]>>
  <2> HAVE f.end = f.start + 1
  <2>1. f.end - 1 = f.start
    BY <1>3
  <2>2. PICK n \in 1..N : n = f.start
    BY <1>5
  <2>3. SubSeq(text, n, n) = <<text[n]>>
    BY <1>1, OneOrTwo DEF Text
  <2> QED BY <1>3, <2>1, <2>2, <2>3
<1>9. f.end = f.start + 2 => f.value = <<text[f.start], text[f.start + 1]>>
  <2> HAVE f.end = f.start + 2
  <2>1. f.end - 1 = f.start + 1 /\ f.start + 1 \in 1..N
    BY <1>3, <1>6
  <2>2. PICK n \in 1..N : n = f.start /\ n + 1 \in 1..N
    BY <1>5, <2>1
  <2>3. SubSeq(text, n, n + 1) = <<text[n], text[n + 1]>>
    BY <1>1, <2>2, OneOrTwo DEF Text
  <2> QED BY <1>3, <2>1, <2>2, <2>3
<1> QED BY <1>1, <1>3, <1>5, <1>6, <1>7, <1>8, <1>9

\* Values one after the other, or two at once.
LEMMA TwoAtOnce ==
    ASSUME NEW X, NEW a \in Seq(X), NEW x \in X, NEW y \in X
    PROVE  (a \o <<x>>) \o <<y>> = a \o <<x, y>>
<1>1. PICK b \in Seq(X), c \in Seq(X) : b = <<x>> /\ c = <<y>>
    BY OneValue
<1>2. b \o c = <<x, y>>
  <2>1. PICK t \in Seq(X) : t = b \o c
    BY ValuesJoined
  <2>2. Len(b) = 1 /\ Len(c) = 1 /\ b[1] = x /\ c[1] = y
    BY <1>1
  <2>3. Len(t) = 2 /\ t[1] = x /\ t[2] = y
    <3>1. IsTogether(t, b, 1, c, 1)
      BY <2>1, <2>2, TogetherForm
    <3>2. Len(t) = 1 + 1 /\ t[1] = b[1] /\ t[1 + 1] = c[1]
      BY <3>1 DEF IsTogether
    <3> QED BY <2>2, <3>2
  <2>4. t = <<t[1], t[2]>>
    BY <2>3
  <2> QED BY <2>1, <2>3, <2>4
<1>3. (a \o b) \o c = a \o (b \o c)
    BY PutTogether
<1> QED BY <1>1, <1>2, <1>3

\* A redacted text says, with its placeholders resolved, what the text says.
LEMMA RedactedResolves ==
    ASSUME NEW text \in Text, NEW entities, NEW entries, Resolves(entries, text, entities),
           OneToOne(entries), Known(entries)
    PROVE  Resolved(Redact(text, entities, entries), entries) = Resolved(text, entries)
<1>1. PICK N \in Nat : N = Len(text) /\ DOMAIN text = 1..N /\ \A i \in 1..N : text[i] \in Words
    BY DEF Text
<1>2. PICK F : F = Findings(text, entities)
    OBVIOUS
<1> DEFINE Covering(i) == {f \in F : f.start <= i /\ i < f.end}
           Chosen(f) == CHOOSE r \in entries : r.entity = f.entity /\ r.value = f.value
           Piece(i) == IF Covering(i) = {} THEN <<text[i]>>
                       ELSE IF i = (CHOOSE g \in Covering(i) : TRUE).start
                            THEN << <<"mask", (CHOOSE g \in Covering(i) : TRUE).entity,
                                      Chosen(CHOOSE g \in Covering(i) : TRUE).index>> >>
                            ELSE <<>>
<1>3. PICK pieces : pieces = [i \in 1..N |-> Piece(i)]
    OBVIOUS
<1>4. Redact(text, entities, entries) = Joined(pieces)
    BY <1>1, <1>2, <1>3 DEF Redact
<1>5. ASSUME NEW i \in 1..N, Covering(i) = {}
      PROVE  /\ pieces[i] \in Text
             /\ Resolved(pieces[i], entries) = Meant(text[i], entries)
  <2>1. pieces[i] = <<text[i]>>
    BY <1>3, <1>5
  <2> QED BY <1>1, <2>1, ResolvedOne
<1>6. ASSUME NEW i \in 1..N, NEW f \in F, f.start <= i, i < f.end
      PROVE  /\ pieces[i] \in Text
             /\ Resolved(pieces[i], entries) = IF i = f.start THEN f.value ELSE <<>>
  <2>1. PICK g : g = CHOOSE k \in Covering(i) : TRUE
    OBVIOUS
  <2>2. f \in Covering(i) /\ g \in Covering(i)
    BY <1>6, <2>1
  <2>3. \A k \in F : k.start \in Nat /\ k.end \in Nat
    BY <1>1, <1>2, FindingWords
  <2>4. g = f
    <3>1. Apart(F)
      BY <1>2, FindingsFacts
    <3>2. g \in F /\ g.start <= i /\ i < g.end
      BY <2>2
    <3> QED BY <1>6, <2>3, <3>1, <3>2 DEF Apart
  <2>5. PICK r \in entries : r = Chosen(f) /\ r.entity = f.entity /\ r.value = f.value
    BY <1>2 DEF Resolves
  <2>6. pieces[i] = IF i = f.start THEN << <<"mask", r.entity, r.index>> >> ELSE <<>>
    <3>1. pieces[i] = Piece(i)
      BY <1>3
    <3> HIDE DEF Chosen
    <3>2. Covering(i) # {}
      BY <2>2
    <3> HIDE DEF Covering
    <3> QED BY <2>1, <2>4, <2>5, <3>1, <3>2
  <2>7. CASE i = f.start
    <3>1. f.entity \in Entities
      BY <1>2, FindingWords
    <3>2. r.index \in Int
      BY DEF Resolves
    <3>3. <<"mask", r.entity, r.index>> \in Words
      BY <2>5, <3>1, <3>2 DEF Entities, Words
    <3>4. Meant(<<"mask", r.entity, r.index>>, entries) = f.value
      BY <2>5, MaskMeans
    <3>5. pieces[i] = << <<"mask", r.entity, r.index>> >>
      BY <2>6, <2>7
    <3>6. pieces[i] \in Text /\ Resolved(pieces[i], entries) = f.value
      BY <3>3, <3>4, <3>5, ResolvedOne
    <3> QED BY <2>7, <3>6
  <2>8. CASE i # f.start
    <3>1. pieces[i] = <<>>
      BY <2>6, <2>8
    <3>2. Resolved(<<>>, entries) = <<>> /\ <<>> \in Text
      <4>1. [text1 \in Text |-> Resolved(text1, entries)][<<>>] = <<>>
        BY ResolvedDistributes DEF Distributes
      <4>2. <<>> \in Seq(Words)
        OBVIOUS
      <4>3. <<>> \in Text
        BY <4>2 DEF Text
      <4> QED BY <4>1, <4>3
    <3> QED BY <2>8, <3>1, <3>2
  <2> QED BY <2>7, <2>8
<1> HIDE DEF Piece
<1>7. pieces \in Seq(Seq(Words)) /\ \A i \in 1..N : pieces[i] \in Text
  <2>1. ASSUME NEW i \in 1..N PROVE pieces[i] \in Text
    <3>1. CASE Covering(i) = {}
      BY <1>5, <3>1
    <3>2. CASE Covering(i) # {}
      <4>1. PICK f \in F : f.start <= i /\ i < f.end
        BY <3>2
      <4> QED BY <1>6, <4>1
    <3> QED BY <3>1, <3>2
  <2>2. pieces \in [1..N -> Seq(Words)]
    BY <1>3, <2>1 DEF Text
  <2>3. pieces \in Seq(Seq(Words))
    BY <2>2
  <2> QED BY <2>1, <2>3
<1>8. PICK images : images = [i \in DOMAIN pieces |-> Resolved(pieces[i], entries)]
    OBVIOUS
<1>9. PICK means : means = [i \in DOMAIN text |-> Meant(text[i], entries)]
    OBVIOUS
<1>10. /\ images \in Seq(Seq(Words)) /\ Len(images) = N
       /\ Resolved(Joined(pieces), entries) = Joined(images)
       /\ \A i \in 1..N : images[i] = Resolved(pieces[i], entries)
  <2>1. PICK h : h = [t \in Text |-> Resolved(t, entries)]
    OBVIOUS
  <2>2. Distributes(h, Words, Words)
    BY <2>1, ResolvedDistributes
  <2>3. DOMAIN pieces = 1..N
    BY <1>3
  <2>4. images = [i \in DOMAIN pieces |-> h[pieces[i]]]
    BY <1>7, <1>8, <2>1, <2>3
  <2>5. images \in Seq(Seq(Words)) /\ h[Joined(pieces)] = Joined(images)
    BY <1>7, <2>2, <2>4, JoinedMapped
  <2>6. Joined(pieces) \in Text
    BY <1>7, JoinedValues DEF Text
  <2>7. h[Joined(pieces)] = Resolved(Joined(pieces), entries)
    BY <2>1, <2>6
  <2>8. DOMAIN images = 1..N
    BY <1>8, <2>3
  <2>9. Len(images) = N
    BY <2>5, <2>8
  <2> QED BY <1>8, <2>3, <2>5, <2>7, <2>9
<1>11. /\ means \in Seq(Seq(Words)) /\ Len(means) = N
       /\ Resolved(text, entries) = Joined(means)
       /\ \A i \in 1..N : means[i] = Meant(text[i], entries)
  <2>1. means \in Seq(Seq(Words)) /\ Resolved(text, entries) = Joined(means)
    BY <1>9, ResolvedWords
  <2>2. DOMAIN means = 1..N
    BY <1>1, <1>9
  <2> QED BY <1>1, <1>9, <2>1, <2>2
<1>12. \A i \in 1..N : images[i] \in Seq(Words) /\ means[i] \in Seq(Words)
    BY <1>10, <1>11
<1>13. PICK A : Joins(A, images, N) /\ Joined(images) = A[N]
    BY <1>10, <1>12, JoinedSteps
<1>14. PICK B : Joins(B, means, N) /\ Joined(means) = B[N]
    BY <1>11, <1>12, JoinedSteps
<1> DEFINE Starts(n) == \E f \in F : f.start = n /\ f.end = n + 2
           P(n) == B[n] \in Seq(Words) /\ A[n] = IF Starts(n) THEN B[n + 1] ELSE B[n]
           I == {n \in Nat : n <= N => P(n)}
<1>15. \A f \in F : /\ f.start \in 1..N /\ f.end \in Nat /\ f.end <= N + 1
                    /\ f.end = f.start + 1 \/ f.end = f.start + 2
    BY <1>1, <1>2, FindingWords
<1>16. \A f, g \in F : f = g \/ f.end <= g.start \/ g.end <= f.start
    BY <1>2, FindingsFacts DEF Apart
<1>17. 0 \in I
  <2>1. ~Starts(0)
    BY <1>15
  <2>2. <<>> \in Seq(Words)
    OBVIOUS
  <2>3. A[0] = <<>> /\ B[0] = <<>>
    BY <1>13, <1>14 DEF Joins
  <2>4. P(0)
    BY <2>1, <2>2, <2>3
  <2> HIDE DEF P
  <2> QED BY <2>4
<1>18. ASSUME NEW n \in Nat, n \in I
       PROVE  n + 1 \in I
  <2> SUFFICES ASSUME n + 1 <= N PROVE P(n + 1)
    <3> HIDE DEF P
    <3> QED OBVIOUS
  <2>1. P(n)
    <3> HIDE DEF P
    <3> QED BY <1>18
  <2>2. n + 1 \in 1..N /\ (n + 1) - 1 = n
    OBVIOUS
  <2>3. A[n + 1] = A[n] \o images[n + 1] /\ B[n + 1] = B[n] \o means[n + 1]
    BY <1>13, <1>14, <2>2 DEF Joins
  <2>4. B[n] \in Seq(Words) /\ B[n + 1] \in Seq(Words)
    BY <1>12, <2>1, <2>2, <2>3, ValuesJoined
  <2>5. CASE Covering(n + 1) = {}
    <3>1. ~Starts(n) /\ ~Starts(n + 1)
      <4>1. \A f \in F : ~(f.start <= n + 1 /\ n + 1 < f.end)
        BY <2>5
      <4> QED BY <1>15, <4>1
    <3>2. images[n + 1] = means[n + 1]
      BY <1>5, <1>10, <1>11, <2>2, <2>5
    <3> QED BY <2>1, <2>3, <2>4, <3>1, <3>2
  <2>6. ASSUME NEW f \in F, f.start = n + 1
        PROVE  P(n + 1)
    <3>1. ~Starts(n)
      BY <1>15, <1>16, <2>6
    <3>2. A[n] = B[n] /\ n + 1 < f.end
      BY <1>15, <2>1, <2>6, <3>1
    <3>3. images[n + 1] = f.value
      BY <1>6, <1>10, <2>2, <2>6, <3>2
    <3>4. means[n + 1] = <<text[n + 1]>>
      <4>1. n + 1 \in 1..Len(text) /\ f.start <= n + 1 /\ f \in Findings(text, entities)
        BY <1>1, <1>2, <2>2, <2>6
      <4>2. Meant(text[n + 1], entries) = <<text[n + 1]>>
        BY <3>2, <4>1, FindingWords
      <4> QED BY <1>11, <2>2, <4>2
    <3>5. CASE f.end = n + 2
      <4>1. f.value = <<text[n + 1]>>
        BY <1>1, <1>2, <2>6, <3>5, FindingWords, SMTT(30)
      <4>2. ~Starts(n + 1)
        BY <1>15, <1>16, <2>6, <3>5
      <4> QED BY <2>3, <2>4, <3>2, <3>3, <3>4, <4>1, <4>2
    <3>6. CASE f.end = n + 3
      <4>1. f.value = <<text[n + 1], text[n + 2]>>
        <5>1. f.end = f.start + 2 /\ f.start + 1 = n + 2
          BY <2>6, <3>6
        <5> QED BY <1>2, <2>6, <5>1, FindingWords
      <4>2. Starts(n + 1)
        BY <2>6, <3>6
      <4>3. n + 2 \in 1..N /\ (n + 2) - 1 = n + 1 /\ n + 2 = (n + 1) + 1
        BY <1>15, <3>6
      <4>4. B[n + 2] = B[n + 1] \o means[n + 2]
        BY <1>14, <4>3 DEF Joins
      <4>5. means[n + 2] = <<text[n + 2]>>
        <5>1. f.start <= n + 2 /\ n + 2 < f.end
          BY <2>6, <3>6
        <5>2. n + 2 \in 1..Len(text) /\ f \in Findings(text, entities)
          BY <1>1, <1>2, <4>3
        <5>3. Meant(text[n + 2], entries) = <<text[n + 2]>>
          BY <5>1, <5>2, FindingWords
        <5> QED BY <1>11, <4>3, <5>3
      <4>6. (B[n] \o <<text[n + 1]>>) \o <<text[n + 2]>> = B[n] \o <<text[n + 1], text[n + 2]>>
        BY <1>1, <2>2, <2>4, <4>3, TwoAtOnce
      <4>7. A[n + 1] = B[n + 2]
        BY <2>3, <3>2, <3>3, <3>4, <4>1, <4>4, <4>5, <4>6
      <4> QED BY <2>4, <4>2, <4>3, <4>7
    <3> QED BY <1>15, <2>6, <3>5, <3>6
  <2>7. ASSUME NEW f \in F, f.start # n + 1, f.start <= n + 1, n + 1 < f.end
        PROVE  P(n + 1)
    <3>1. f.start = n /\ f.end = n + 2
      BY <1>15, <2>7
    <3>2. A[n] = B[n + 1]
      BY <2>1, <3>1
    <3>3. ~Starts(n + 1)
      BY <1>15, <1>16, <2>7, <3>1
    <3>4. images[n + 1] = <<>>
      BY <1>6, <1>10, <2>2, <2>7
    <3>5. B[n + 1] \o <<>> = B[n + 1]
      BY <2>4
    <3> QED BY <2>3, <2>4, <3>2, <3>3, <3>4, <3>5
  <2> HIDE DEF P
  <2> QED BY <2>5, <2>6, <2>7
<1>19. P(N)
  <2>1. Nat \subseteq I
    <3> HIDE DEF I
    <3> QED BY <1>17, <1>18, SetInduction
  <2> HIDE DEF P
  <2> QED BY <2>1
<1>20. ~Starts(N)
    BY <1>15
<1> QED BY <1>4, <1>10, <1>11, <1>13, <1>14, <1>19, <1>20

(***************************************************************************)
(* What the messages of a request say                                      *)
(***************************************************************************)

\* What a message says, as one reading.
HeardIn(m, entries) == Reading(Voice(m.role), m.content, m.item.calls, entries)

\* What messages say, each in its role.
Heard(messages, entries) == [i \in DOMAIN messages |-> HeardIn(messages[i], entries)]

\* The reading of a role, a content and the calls beside it.
LEMMA ReadingIsVoice ==
    ASSUME NEW entries, Known(entries), NEW role \in Roles \union ItemKinds,
           NEW content \in Contents, NEW calls \in Seq(Text)
    PROVE  /\ Reading(role, content, calls, entries) \in Voices
           /\ Reading(role, content, calls, entries).role = role
           /\ Reading(role, content, calls, entries).says = Uttered(content, calls, entries)
<1>1. content.parts \in Seq(ContentParts)
    BY DEF Contents
<1>2. Uttered(content, calls, entries) \in Seq(Utterances)
    BY <1>1, UtteredTyped
<1> QED BY <1>2 DEF Reading, Voices

\* What one message says, and in whose role.
LEMMA HeardInTyped ==
    ASSUME NEW entries, Known(entries), NEW m \in MessageTypes
    PROVE  /\ HeardIn(m, entries) \in Voices /\ HeardIn(m, entries).role = Voice(m.role)
           /\ HeardIn(m, entries).says = Uttered(m.content, m.item.calls, entries)
<1>1. m.role \in Roles \union ItemKinds /\ m.content \in Contents /\ m.item.calls \in Seq(Text)
    BY DEF MessageTypes, Items
<1>2. Voice(m.role) \in Roles \union ItemKinds
    BY <1>1 DEF Voice, Roles
<1> QED BY <1>1, <1>2, ReadingIsVoice DEF HeardIn

\* What messages say, one reading for each.
LEMMA HeardTyped ==
    ASSUME NEW entries, Known(entries), NEW messages \in Seq(MessageTypes)
    PROVE  /\ Heard(messages, entries) \in Seq(Voices)
           /\ Len(Heard(messages, entries)) = Len(messages)
           /\ DOMAIN Heard(messages, entries) = DOMAIN messages
           /\ \A i \in DOMAIN messages : Heard(messages, entries)[i] = HeardIn(messages[i], entries)
<1>1. PICK N \in Nat : N = Len(messages) /\ DOMAIN messages = 1..N
    OBVIOUS
<1>2. PICK all : all = Heard(messages, entries)
    OBVIOUS
<1>3. all \in [1..N -> Voices]
  <2>1. \A i \in 1..N : messages[i] \in MessageTypes
    BY <1>1
  <2>2. \A i \in 1..N : HeardIn(messages[i], entries) \in Voices
    BY <2>1, HeardInTyped
  <2> QED BY <1>1, <1>2, <2>2 DEF Heard
<1>4. all \in Seq(Voices) /\ Len(all) = N
    BY <1>3
<1>5. \A i \in DOMAIN messages : all[i] = HeardIn(messages[i], entries)
    BY <1>2 DEF Heard
<1> QED BY <1>1, <1>2, <1>3, <1>4, <1>5

\* What an item of arguments says.
LEMMA ReadingOfTyped ==
    ASSUME NEW entries, Known(entries), NEW item \in Items
    PROVE  /\ ReadingOf(item, entries) \in Voices
           /\ ReadingOf(item, entries).role = SpeakerOf(item)
           /\ ReadingOf(item, entries).says = Uttered(Counted(item), item.calls, entries)
<1>1. Counted(item) \in Contents /\ item.calls \in Seq(Text)
  <2>1. item.content \in Contents /\ item.calls \in Seq(Text)
    BY DEF Items
  <2>2. <<>> \in Text
    BY DEF Text
  <2>3. Str(<<>>) \in Contents
    BY <2>2, StrTyped
  <2> QED BY <2>1, <2>3 DEF Counted
<1>2. SpeakerOf(item) \in Roles \union ItemKinds
  <2>1. item.role \in Roles /\ item.kind \in ItemKinds
    BY DEF Items
  <2> QED BY <2>1 DEF SpeakerOf, RoleOf, Canonical, Roles
<1> QED BY <1>1, <1>2, ReadingIsVoice DEF ReadingOf

\* The values of a registry are texts.
LEMMA RegistryKnown ==
    ASSUME NEW req, req.messages \in Seq(MessageTypes), NEW pii
    PROVE  Known(RegistryOf(req, pii))
<1>1. PICK texts \in Seq(Text) : texts = TextsFrom(req.messages, pii.roles)
    BY ScannedTexts
<1>2. PICK found : found = FoundIn(texts, pii.entities)
    OBVIOUS
<1>3. ASSUME NEW r \in Registry(found)
      PROVE  r.value \in Text
  <2>1. PICK g \in found : r.value = g.finding.value
    <3>1. PICK firsts : firsts = {h \in found : ~ \E g \in found :
                                     /\ g.finding.entity = h.finding.entity
                                     /\ g.finding.value = h.finding.value
                                     /\ IsBefore(g, h)}
      OBVIOUS
    <3>2. Registry(found) = {[entity |-> h.finding.entity, value |-> h.finding.value,
                              index |-> 1 + Cardinality({g \in firsts : /\ g.finding.entity = h.finding.entity
                                                                        /\ IsBefore(g, h)})] : h \in firsts}
      BY <3>1, Zenon DEF Registry
    <3>3. PICK number : number = [h \in firsts |->
              1 + Cardinality({g \in firsts : g.finding.entity = h.finding.entity /\ IsBefore(g, h)})]
      OBVIOUS
    <3>4. \A h \in firsts : number[h] = 1 + Cardinality({g \in firsts :
              g.finding.entity = h.finding.entity /\ IsBefore(g, h)})
      BY <3>3
    <3>5. Registry(found) = {[entity |-> h.finding.entity, value |-> h.finding.value,
                              index |-> number[h]] : h \in firsts}
      BY <3>2, <3>4
    <3>6. \E h \in firsts : r.value = h.finding.value
      BY <3>5
    <3> QED BY <3>1, <3>6
  <2>2. IsFinding(g.finding, texts[g.at], pii.entities)
    BY <1>2, FoundFacts
  <2> QED BY <2>1, <2>2 DEF IsFinding
<1>4. RegistryOf(req, pii) = Registry(found)
    BY <1>1, <1>2 DEF RegistryOf
<1> QED BY <1>3, <1>4 DEF Known

\* Nothing is masked in no text.
LEMMA NothingRedacted ==
    ASSUME NEW entities, NEW entries
    PROVE  Redact(<<>>, entities, entries) = <<>>
<1>1. Joined(<<>>) = <<>>
  <2>1. <<>> \in Seq(Int)
    OBVIOUS
  <2> QED BY <2>1, JoinedFew
<1>2. ASSUME NEW f PROVE [i \in DOMAIN <<>> |-> f[i]] = <<>>
    OBVIOUS
<1> QED BY <1>1, <1>2 DEF Redact

\* A masked message says what it said, with its placeholders resolved.
LEMMA MaskedSays ==
    ASSUME NEW m \in MessageTypes, NEW entities, NEW entries,
           \A text \in SeenIn(m) : Resolves(entries, text, entities),
           OneToOne(entries), Known(entries),
           NEW k, k = RedactMessage(m, entities, entries)
    PROVE  /\ k.role = m.role /\ k.mark = m.mark
           /\ IsTextOnly(m) => IsTextOnly(k)
           /\ m.content = Str(<<>>) => k.content = Str(<<>>)
           /\ k.item.kind = m.item.kind
           /\ HeardIn(k, entries) = HeardIn(m, entries)
<1>1. PICK parts \in Seq(ContentParts) : parts = m.content.parts
    BY DEF MessageTypes, Contents
<1>2. PICK calls \in Seq(Text) : calls = m.item.calls
    BY DEF MessageTypes, Items
<1>3. PICK shown : shown = RedactedParts(parts, entities, entries)
    OBVIOUS
<1>4. PICK args : args = RedactedCalls(calls, entities, entries)
    OBVIOUS
<1>5. k = [m EXCEPT !.content.parts = shown, !.item.calls = args]
    BY <1>1, <1>2, <1>3, <1>4 DEF RedactMessage, RedactedParts, RedactedCalls
<1>6. /\ m \in [role : Roles \union ItemKinds, content : Contents, mark : Marks, item : Items]
      /\ m.content \in [form : {"str", "parts", "null"}, parts : Seq(ContentParts)]
      /\ m.item \in [kind : ItemKinds, role : Roles, content : Contents, calls : Seq(Text)]
    BY DEF MessageTypes, Contents, Items
<1>7. /\ k.role = m.role /\ k.mark = m.mark /\ k.content.parts = shown /\ k.item.calls = args
      /\ k.item.kind = m.item.kind
      /\ k.content = [form |-> m.content.form, parts |-> shown]
    BY <1>5, <1>6
<1>8. ASSUME NEW text \in SeenIn(m)
      PROVE  Resolved(Redact(text, entities, entries), entries) = Resolved(text, entries)
  <2>1. text \in Text
    BY IteratedTexts
  <2> QED BY <1>8, <2>1, RedactedResolves
<1>9. SeenIn(m) = {p.text : p \in {x \in ToSet(parts) : IsVisible(x)}} \union ToSet(calls)
    BY <1>1, <1>2 DEF SeenIn, Visible
<1>10. ASSUME NEW i \in DOMAIN parts
       PROVE  Says(shown[i], entries) = Says(parts[i], entries) /\ shown[i].kind = parts[i].kind
  <2>1. CASE IsVisible(parts[i])
    <3>1. parts[i].text \in SeenIn(m)
      BY <1>9, <2>1 DEF ToSet
    <3>2. PICK new : new = Redact(parts[i].text, entities, entries)
      OBVIOUS
    <3>3. shown[i] = Part(parts[i].kind, new)
      BY <1>3, <2>1, <3>2 DEF RedactedParts
    <3>4. shown[i].kind = parts[i].kind /\ shown[i].text = new
      BY <3>3 DEF Part
    <3>5. Resolved(new, entries) = Resolved(parts[i].text, entries)
      BY <1>8, <3>1, <3>2
    <3> QED BY <3>4, <3>5 DEF Says
  <2>2. CASE ~IsVisible(parts[i])
    BY <1>3, <2>2 DEF RedactedParts
  <2> QED BY <2>1, <2>2
<1>11. DOMAIN shown = DOMAIN parts
    BY <1>3 DEF RedactedParts
<1>12. [i \in DOMAIN shown |-> Says(shown[i], entries)] = [i \in DOMAIN parts |-> Says(parts[i], entries)]
    BY <1>10, <1>11
<1>13. [i \in DOMAIN args |-> <<"call", Resolved(args[i], entries)>>]
         = [i \in DOMAIN calls |-> <<"call", Resolved(calls[i], entries)>>]
  <2>1. DOMAIN args = DOMAIN calls
    BY <1>4 DEF RedactedCalls
  <2>2. ASSUME NEW i \in DOMAIN calls
        PROVE  Resolved(args[i], entries) = Resolved(calls[i], entries)
    <3>1. calls[i] \in SeenIn(m)
      BY <1>9 DEF ToSet
    <3>2. args[i] = Redact(calls[i], entities, entries)
      BY <1>4 DEF RedactedCalls
    <3> QED BY <1>8, <3>1, <3>2
  <2> QED BY <2>1, <2>2
<1>14. Uttered(k.content, k.item.calls, entries) = Uttered(m.content, m.item.calls, entries)
    BY <1>1, <1>2, <1>7, <1>12, <1>13 DEF Uttered
<1>15. IsTextOnly(m) => IsTextOnly(k)
    BY <1>1, <1>7, <1>10, <1>11 DEF IsTextOnly, IsTextPart
<1>16. m.content = Str(<<>>) => k.content = Str(<<>>)
  <2> SUFFICES ASSUME m.content = Str(<<>>) PROVE k.content = Str(<<>>)
    OBVIOUS
  <2>1. m.content.form = "str" /\ parts = <<Part("text", <<>>)>>
    BY <1>1 DEF Str
  <2>2. DOMAIN parts = {1} /\ parts[1].kind = "text" /\ parts[1].text = <<>>
    BY <2>1 DEF Part
  <2>3. IsVisible(parts[1])
    BY <2>2 DEF IsVisible
  <2>4. shown[1] = Part("text", <<>>)
    BY <1>3, <2>2, <2>3, NothingRedacted DEF RedactedParts
  <2>5. shown = <<Part("text", <<>>)>>
    BY <1>3, <1>11, <2>2, <2>4 DEF RedactedParts
  <2> QED BY <1>7, <2>1, <2>5 DEF Str
<1> QED BY <1>7, <1>14, <1>15, <1>16 DEF HeardIn, Reading

\* Only a system prompt that was given apart is marked so, and it stands first; a call of
\* a function has no content.
WellMarked(messages) ==
    \A i \in DOMAIN messages :
        /\ messages[i].mark \in {"system", "instructions"} => i = 1 /\ IsTextOnly(messages[i])
        /\ messages[i].mark = "none" => messages[i].role # "system"
        /\ messages[i].mark = "item" /\ messages[i].item.kind \in {"function_call", "other"} =>
             messages[i].content = Str(<<>>)

\* A request that has been screened says what it said.
LEMMA ScreenedSays ==
    ASSUME NEW req, RequestFields \subseteq DOMAIN req, req.messages \in Seq(MessageTypes),
           WellMarked(req.messages), NEW pii, NEW entries, entries = RegistryOf(req, pii),
           OneToOne(entries), NEW out, out = RedactRequest(req, pii, entries)
    PROVE  /\ Heard(out.messages, entries) = Heard(req.messages, entries)
           /\ WellMarked(out.messages)
           /\ out.params = req.params /\ out.extra = req.extra /\ out.pristine = req.pristine
<1>1. PICK messages \in Seq(MessageTypes) : messages = req.messages
    OBVIOUS
<1>2. Known(entries)
    BY RegistryKnown
<1>3. CASE entries = {}
  <2>1. out = req
    BY <1>3 DEF RedactRequest
  <2> QED BY <2>1
<1>4. CASE entries # {}
  <2>1. PICK masked : masked = RedactedMessages(messages, pii, entries)
    OBVIOUS
  <2>2. out = [req EXCEPT !.messages = masked]
    BY <1>1, <1>4, <2>1 DEF RedactRequest, RedactedMessages
  <2>3. /\ out.messages = masked /\ out.extra = req.extra /\ out.params = req.params
        /\ out.pristine = req.pristine
    BY <2>2 DEF RequestFields
  <2>4. DOMAIN masked = DOMAIN messages
    BY <2>1 DEF RedactedMessages
  <2>5. ASSUME NEW i \in DOMAIN messages
        PROVE  /\ masked[i].role = messages[i].role /\ masked[i].mark = messages[i].mark
               /\ IsTextOnly(messages[i]) => IsTextOnly(masked[i])
               /\ messages[i].content = Str(<<>>) => masked[i].content = Str(<<>>)
               /\ masked[i].item.kind = messages[i].item.kind
               /\ HeardIn(masked[i], entries) = HeardIn(messages[i], entries)
    <3>1. messages[i] \in MessageTypes /\ messages[i] \in ToSet(req.messages)
      BY <1>1, ValuesTyped
    <3>2. CASE messages[i].role \in pii.roles
      <4>1. masked[i] = RedactMessage(messages[i], pii.entities, entries)
        BY <2>1, <3>2 DEF RedactedMessages
      <4>2. \A text \in SeenIn(messages[i]) : Resolves(entries, text, pii.entities)
        BY <3>1, <3>2, RegistryResolves
      <4> QED BY <1>2, <3>1, <4>1, <4>2, MaskedSays
    <3>3. CASE messages[i].role \notin pii.roles
      BY <2>1, <3>3 DEF RedactedMessages
    <3> QED BY <3>2, <3>3
  <2>6. Heard(masked, entries) = Heard(messages, entries)
    BY <2>4, <2>5 DEF Heard
  <2>7. WellMarked(masked)
    BY <1>1, <2>4, <2>5 DEF WellMarked
  <2> QED BY <1>1, <2>3, <2>6, <2>7
<1> QED BY <1>3, <1>4

\* Two lists of readings tell a model the same.
SaysTheSame(R, S) == SystemSaid(R) = SystemSaid(S) /\ TurnsSaid(R) = TurnsSaid(S)

\* A list with a last value is what is before it, and that value, whichever it is.
Ends(s, F, n, X) ==
    /\ n = Len(s) /\ DOMAIN s = 1..n /\ s[n] \in X /\ Last(s) = s[n]
    /\ s = Append(F, s[n])
    /\ \A x \in X : [s EXCEPT ![n] = x] = Append(F, x)

\* A sequence that is not empty ends with its last element.
LEMMA LastOfMany ==
    ASSUME NEW X, NEW s \in Seq(X), s # <<>>
    PROVE  \E n \in Nat \ {0} : \E F \in Seq(X) : Ends(s, F, n, X)
<1>0. PICK n : n = Len(s)
    OBVIOUS
<1>1. n \in Nat \ {0} /\ DOMAIN s = 1..n /\ s[n] \in X /\ Last(s) = s[n]
    BY <1>0 DEF Last
<1>2. PICK k \in Nat : n = k + 1
  <2>1. n - 1 \in Nat /\ n = (n - 1) + 1
    BY <1>1
  <2> QED BY <2>1
<1>3. PICK F : F = [i \in 1..k |-> s[i]]
    OBVIOUS
<1>4. F \in Seq(X) /\ Len(F) = k
  <2>1. \A i \in 1..k : i \in 1..n
    BY <1>2
  <2>2. F \in [1..k -> X]
    BY <1>1, <1>3, <2>1
  <2> QED BY <2>2
<1>5. /\ Append(F, s[n]) \in [1..(k + 1) -> X] /\ Append(F, s[n])[k + 1] = s[n]
      /\ \A i \in 1..k : Append(F, s[n])[i] = F[i]
      /\ \A y \in X : [Append(F, s[n]) EXCEPT ![k + 1] = y] = Append(F, y)
    BY <1>1, <1>4, AppendedForm
<1>6. s = Append(F, s[n])
  <2>1. DOMAIN Append(F, s[n]) = 1..n
    BY <1>2, <1>5
  <2>2. \A i \in 1..n : s[i] = Append(F, s[n])[i]
    <3>1. \A i \in 1..n : i \in 1..k \/ i = k + 1
      BY <1>2
    <3>2. \A i \in 1..k : F[i] = s[i]
      BY <1>3
    <3> QED BY <1>2, <1>5, <3>1, <3>2
  <2>3. s = [i \in 1..n |-> s[i]] /\ Append(F, s[n]) = [i \in 1..n |-> Append(F, s[n])[i]]
    BY <1>1, <1>2, <1>5
  <2> QED BY <2>2, <2>3
<1>7. \A x \in X : [s EXCEPT ![n] = x] = Append(F, x)
    BY <1>2, <1>5, <1>6
<1> QED BY <1>0, <1>1, <1>4, <1>6, <1>7 DEF Ends

\* A message more is one reading more, messages put together are readings put together.
Hears(entries) == [m \in MessageTypes |-> HeardIn(m, entries)]

\* What messages say is what each says.
LEMMA HeardMapped ==
    ASSUME NEW entries, NEW messages \in Seq(MessageTypes)
    PROVE  Heard(messages, entries) = Mapped(Hears(entries), messages)
<1>1. \A i \in DOMAIN messages : messages[i] \in MessageTypes
    OBVIOUS
<1>2. \A i \in DOMAIN messages : Hears(entries)[messages[i]] = HeardIn(messages[i], entries)
    BY <1>1 DEF Hears
<1> QED BY <1>2 DEF Heard, Mapped

\* What two runs of messages say, one after the other.
LEMMA HeardTwo ==
    ASSUME NEW entries, Known(entries), NEW a \in Seq(MessageTypes), NEW b \in Seq(MessageTypes)
    PROVE  Heard(a \o b, entries) = Heard(a, entries) \o Heard(b, entries)
<1>1. PICK h : h = Hears(entries)
    OBVIOUS
<1>2. MapsTo(h, MessageTypes, Voices)
  <2>1. \A m \in MessageTypes : h[m] = HeardIn(m, entries)
    BY <1>1 DEF Hears
  <2> QED BY <2>1, HeardInTyped DEF MapsTo
<1>3. Mapped(h, a \o b) = Mapped(h, a) \o Mapped(h, b)
    BY <1>2, MappedTwo
<1>4. a \o b \in Seq(MessageTypes)
    OBVIOUS
<1> QED BY <1>1, <1>3, <1>4, HeardMapped

\* What one message says alone, and none.
LEMMA HeardOne ==
    ASSUME NEW entries, NEW m
    PROVE  Heard(<<m>>, entries) = <<HeardIn(m, entries)>> /\ Heard(<<>>, entries) = <<>>
<1>1. DOMAIN <<m>> = 1..1 /\ <<m>>[1] = m /\ DOMAIN <<>> = 1..0
    OBVIOUS
<1>2. \A f : [i \in 1..1 |-> f] = <<f>>
    OBVIOUS
<1>3. [i \in DOMAIN <<m>> |-> HeardIn(<<m>>[i], entries)] = [i \in 1..1 |-> HeardIn(m, entries)]
    BY <1>1
<1>4. [i \in DOMAIN <<>> |-> HeardIn(<<>>[i], entries)] = <<>>
    BY <1>1
<1> QED BY <1>2, <1>3, <1>4 DEF Heard

\* What is said with one more message.
LEMMA HeardAppended ==
    ASSUME NEW entries, Known(entries), NEW a \in Seq(MessageTypes), NEW m \in MessageTypes
    PROVE  Heard(Append(a, m), entries) = Append(Heard(a, entries), HeardIn(m, entries))
<1>1. <<m>> \in Seq(MessageTypes)
    OBVIOUS
<1>2. Append(a, m) = a \o <<m>>
    OBVIOUS
<1>3. Heard(a \o <<m>>, entries) = Heard(a, entries) \o <<HeardIn(m, entries)>>
    BY <1>1, HeardTwo, HeardOne
<1>4. PICK R \in Seq(Voices), r \in Voices : R = Heard(a, entries) /\ r = HeardIn(m, entries)
    BY HeardTyped, HeardInTyped
<1>5. R \o <<r>> = Append(R, r)
    OBVIOUS
<1> QED BY <1>2, <1>3, <1>4, <1>5

\* No content, and one that is the empty string, say nothing.
LEMMA EmptySays ==
    ASSUME NEW entries, Known(entries), NEW content, content.parts = <<>>, NEW calls
    PROVE  Uttered(Str(<<>>), calls, entries) = Uttered(content, calls, entries)
<1>1. Part("text", <<>>) \in ContentParts /\ Part("text", <<>>).text = <<>>
      /\ IsTextPart(Part("text", <<>>))
  <2>1. <<>> \in Text
    BY DEF Text
  <2> QED BY <2>1 DEF Part, ContentParts, IsTextPart
<1>2. Voiced(<<>>, entries) = <<>>
    BY VoicedFew
<1>3. Voiced(<<Part("text", <<>>)>>, entries) = <<>>
  <2>1. Voiced(<<Part("text", <<>>)>>, entries) = Says(Part("text", <<>>), entries)
    BY <1>1, VoicedFew
  <2>2. Says(Part("text", <<>>), entries) = Spelled(<<>>, entries)
    BY <1>1, SaysTyped
  <2> QED BY <2>1, <2>2, SpelledFacts
<1>4. Str(<<>>).parts = <<Part("text", <<>>)>>
    BY DEF Str
<1>5. \A c : Uttered(c, calls, entries)
               = Voiced(c.parts, entries) \o [i \in DOMAIN calls |-> <<"call", Resolved(calls[i], entries)>>]
    BY DEF Uttered, Voiced
<1> QED BY <1>2, <1>3, <1>4, <1>5

(***************************************************************************)
(* The messages of a call's arguments say what the arguments say           *)
(***************************************************************************)

\* An item, as a message.
LEMMA OfItemSays ==
    ASSUME NEW entries, Known(entries), NEW item,
           item.kind \in {"message", "content", "bare"}, item.role \in Roles,
           item.content.form = "null" => item.content.parts = <<>>
    PROVE  HeardIn(OfItem(item), entries) = ReadingOf(item, entries)
<1>1. SpeakerOf(item) = Canonical(item.role) /\ Counted(item) = item.content
    BY DEF SpeakerOf, RoleOf, Counted
<1>5. Voice(Canonical(item.role)) = Canonical(item.role)
    BY DEF Voice, Canonical, Roles, Items
<1>2. PICK c : c = ContentOf(item)
    OBVIOUS
<1>3. Uttered(c, item.calls, entries) = Uttered(item.content, item.calls, entries)
  <2>1. CASE item.content.form = "null"
    BY <1>2, <2>1, EmptySays DEF ContentOf
  <2>2. CASE item.content.form # "null"
    BY <1>2, <2>2 DEF ContentOf
  <2> QED BY <2>1, <2>2
<1>4. /\ OfItem(item).role = Canonical(item.role) /\ OfItem(item).content = c
      /\ OfItem(item).item = item
    BY <1>2 DEF OfItem, Message
<1> QED BY <1>1, <1>3, <1>4, <1>5 DEF HeardIn, ReadingOf, Reading

\* An item of the Responses API.
LEMMA OfInputItemSays ==
    ASSUME NEW entries, Known(entries), NEW item, Accepted("openai-responses", item)
    PROVE  HeardIn(OfInputItem(item), entries) = ReadingOf(item, entries)
<1>1. CASE item.kind = "message"
  <2>1. OfInputItem(item) = OfItem(item)
    BY <1>1 DEF OfInputItem
  <2> QED BY <1>1, <2>1, OfItemSays DEF Accepted, Items
<1>2. CASE item.kind = "function_call_output" /\ item.content.form = "str"
  <2>1. OfInputItem(item) = Message("tool", item.content, "item", item)
    BY <1>2 DEF OfInputItem
  <2>2. SpeakerOf(item) = "tool" /\ Voice("tool") = "tool" /\ Counted(item) = item.content
    BY <1>2 DEF SpeakerOf, Voice, Counted
  <2> QED BY <2>1, <2>2 DEF Message, HeardIn, ReadingOf
<1>5. CASE item.kind = "function_call_output" /\ item.content.form # "str"
  <2>1. OfInputItem(item) = Message("function_call_output", Str(<<>>), "item", item)
    BY <1>5 DEF OfInputItem
  <2>2. /\ SpeakerOf(item) = "tool" /\ Voice("function_call_output") = "tool"
        /\ Counted(item) = Str(<<>>)
    BY <1>5 DEF SpeakerOf, Voice, Counted
  <2> QED BY <2>1, <2>2 DEF Message, HeardIn, ReadingOf
<1>3. CASE item.kind \in {"function_call", "other"}
  <2>1. OfInputItem(item) = Message(item.kind, Str(<<>>), "item", item)
    BY <1>3 DEF OfInputItem
  <2>2. /\ item.content.parts = <<>> /\ SpeakerOf(item) = item.kind
        /\ Voice(item.kind) = item.kind /\ Counted(item) = item.content
    BY <1>3 DEF Accepted, SpeakerOf, RoleOf, Voice, Counted
  <2>3. Uttered(Str(<<>>), item.calls, entries) = Uttered(item.content, item.calls, entries)
    BY <2>2, EmptySays
  <2> QED BY <2>1, <2>2, <2>3 DEF Message, HeardIn, ReadingOf, Reading
<1>4. item.kind \in {"message", "function_call", "function_call_output", "other"}
    BY DEF Accepted
<1> QED BY <1>1, <1>2, <1>3, <1>4, <1>5

\* A message opened for bare parts, with one more.
LEMMA GroupGoesOn ==
    ASSUME NEW done \in GroupsSoFar, done.open, NEW item \in Items, item.kind = "bare"
    PROVE  \E F \in Seq(Made("google")) : \E m \in Made("google") :
              /\ m.role = "user" /\ m = Last(done.messages)
              /\ done.messages = Append(F, m)
              /\ Longer(m, item.content.parts) \in Made("google")
              /\ WithItem(done, item) =
                   [open |-> TRUE, messages |-> Append(F, Longer(m, item.content.parts))]
<1>1. PICK X : X = Made("google")
    OBVIOUS
<1>2. PICK old \in Seq(X) : old = done.messages /\ old # <<>> /\ Last(old).role = "user"
    BY <1>1 DEF GroupsSoFar
<1>3. PICK n \in Nat \ {0}, F \in Seq(X) : Ends(old, F, n, X)
    BY <1>2, LastOfMany
<1>4. n = Len(old) /\ n \in DOMAIN old /\ old[n] \in X /\ Last(old) = old[n] /\ old = Append(F, old[n])
    BY <1>3 DEF Ends
<1>6. PICK m \in X : m = old[n] /\ m.role = "user"
    BY <1>2, <1>4
<1>7. PICK parts \in Seq(ContentParts) : parts = item.content.parts
    BY DEF Items, Contents
<1>8. PICK k : k = Longer(m, parts)
    OBVIOUS
<1>9. k \in X
  <2>1. m \in Made("google") /\ m.role = "user"
    BY <1>1, <1>6
  <2> QED BY <1>1, <1>8, <2>1, PartsAppended
<1>10. WithItem(done, item) = [open |-> TRUE, messages |-> [old EXCEPT ![n] = k]]
  <2>1. WithItem(done, item) = [done EXCEPT !.messages[Len(old)].content.parts = @ \o parts]
    BY <1>2, <1>7 DEF WithItem
  <2>2. done = [open |-> TRUE, messages |-> old]
    BY <1>2 DEF GroupsSoFar
  <2>3. PICK new : new = [old EXCEPT ![n] = k]
    OBVIOUS
  <2>4. [done EXCEPT !.messages[n].content.parts = @ \o parts]
          = [done EXCEPT !.messages = [old EXCEPT ![n] = [m EXCEPT !.content.parts = @ \o parts]]]
    BY <1>4, <1>6, <2>2
  <2>5. PICK more : more = WithItem(done, item)
    OBVIOUS
  <2>6. new = [old EXCEPT ![n] = [m EXCEPT !.content.parts = @ \o parts]]
    BY <1>8, <2>3 DEF Longer
  <2>7. more = [done EXCEPT !.messages = new]
    BY <1>4, <2>1, <2>4, <2>5, <2>6
  <2>8. more = [open |-> TRUE, messages |-> new]
    BY <2>2, <2>7
  <2> QED BY <2>3, <2>5, <2>8
<1>11. [old EXCEPT ![n] = k] = Append(F, k)
    BY <1>3, <1>9 DEF Ends
<1>12. /\ m.role = "user" /\ m = Last(done.messages)
       /\ done.messages = Append(F, m) /\ Longer(m, item.content.parts) \in X
       /\ WithItem(done, item) = [open |-> TRUE, messages |-> Append(F, Longer(m, item.content.parts))]
    BY <1>2, <1>4, <1>6, <1>7, <1>8, <1>9, <1>10, <1>11
<1>13. F \in Seq(Made("google")) /\ m \in Made("google") /\ Longer(m, item.content.parts) \in Made("google")
    BY <1>1, <1>12
<1> QED BY <1>12, <1>13

\* What a longer message says: what it said, and the parts.
LEMMA LongerSays ==
    ASSUME NEW entries, Known(entries), NEW m \in MessageTypes, m.item.calls = <<>>,
           Voice(m.role) = m.role, NEW parts \in Seq(ContentParts), NEW k, k = Longer(m, parts)
    PROVE  /\ k.role = m.role /\ k.item = m.item
           /\ HeardIn(m, entries) = [role |-> m.role, says |-> Voiced(m.content.parts, entries)]
           /\ HeardIn(k, entries) =
                [role |-> m.role, says |-> Voiced(m.content.parts, entries) \o Voiced(parts, entries)]
           /\ Voiced(m.content.parts, entries) \in Seq(Utterances)
           /\ Voiced(parts, entries) \in Seq(Utterances)
<1>1. PICK old \in Seq(ContentParts) : old = m.content.parts
    BY DEF MessageTypes, Contents
<1>2. PICK all \in Seq(ContentParts) : all = old \o parts
  <2>1. old \o parts \in Seq(ContentParts)
    BY ValuesJoined
  <2> QED BY <2>1
<1>3. k = [m EXCEPT !.content.parts = all]
    BY <1>1, <1>2 DEF Longer
<1>4. k.role = m.role /\ k.item = m.item /\ k.content.parts = all
    BY <1>3 DEF MessageTypes, Contents
<1>5. <<>> \in Seq(Text)
    OBVIOUS
<1>6. Uttered(m.content, <<>>, entries) = Voiced(old, entries)
    BY <1>1, <1>5, UtteredTyped
<1>7. Uttered(k.content, <<>>, entries) = Voiced(all, entries)
    BY <1>4, <1>5, UtteredTyped
<1>8. Voiced(all, entries) = Voiced(old, entries) \o Voiced(parts, entries)
    BY <1>2, VoicedTwo
<1>9. Voiced(old, entries) \in Seq(Utterances) /\ Voiced(parts, entries) \in Seq(Utterances)
    BY VoicedParts
<1> QED BY <1>1, <1>4, <1>6, <1>7, <1>8, <1>9 DEF HeardIn, Reading

\* A message of one of Gemini's contents.
IsContent(m) == m.mark = "item" /\ m.item.kind \in {"message", "content"}

\* The messages Gemini's contents have so far, and what has been said.
InStep(done, entries, sys, turns) ==
    /\ done \in GroupsSoFar
    /\ SystemSaid(Heard(done.messages, entries)) = sys
    /\ TurnsSaid(Heard(done.messages, entries)) = turns
    /\ done.open => Last(done.messages).item.calls = <<>>
    /\ \A m \in ToSet(done.messages) : IsContent(m)

\* An item that is grouped (from_gemini_native) is said after what was said.
LEMMA GroupSays ==
    ASSUME NEW entries, Known(entries), NEW done, NEW sys, NEW turns,
           InStep(done, entries, sys, turns), NEW item, Accepted("google", item),
           NEW more, more = WithItem(done, item), NEW r, r = ReadingOf(item, entries)
    PROVE  InStep(more, entries, sys \o SystemWords(r), WithReading(turns, r))
<1>1. PICK X : X = Made("google") /\ X \subseteq MessageTypes
    BY DEF Made
<1>2. PICK old \in Seq(X) : old = done.messages
    BY <1>1 DEF GroupsSoFar, InStep
<1>3. /\ item \in Items /\ item.kind \in {"message", "content", "bare"}
      /\ item.content.form = "null" => item.content.parts = <<>>
      /\ item.kind = "bare" => item.role = "user" /\ item.calls = <<>>
    BY DEF Accepted
<1>4. done \in GroupsSoFar /\ more \in GroupsSoFar
    BY OneMoreItem DEF InStep
<1>5. old \in Seq(MessageTypes)
    BY <1>1
<1>6. r \in Voices
    BY <1>3, ReadingOfTyped
<1>7. PICK H \in Seq(Voices) : H = Heard(old, entries)
    BY <1>5, HeardTyped
<1>8. SystemSaid(H) = sys /\ TurnsSaid(H) = turns
    BY <1>2, <1>7 DEF InStep
<1>9. ASSUME NEW m \in MessageTypes, HeardIn(m, entries) = r, IsContent(m)
      PROVE  /\ SystemSaid(Heard(Append(old, m), entries)) = sys \o SystemWords(r)
             /\ TurnsSaid(Heard(Append(old, m), entries)) = WithReading(turns, r)
             /\ \A k \in ToSet(Append(old, m)) : IsContent(k)
  <2>0. \A k \in ToSet(Append(old, m)) : IsContent(k)
    <3>1. ToSet(Append(old, m)) = ToSet(old) \union {m}
      BY <1>5, ValuesAppended
    <3>2. \A k \in ToSet(old) : IsContent(k)
      BY <1>2 DEF InStep
    <3> QED BY <1>9, <3>1, <3>2
  <2>1. Heard(Append(old, m), entries) = Append(H, r)
    BY <1>5, <1>7, <1>9, HeardAppended
  <2> QED BY <1>6, <1>8, <2>0, <2>1, SaidAppended
<1>10. CASE item.kind # "bare"
  <2>1. PICK m : m = OfItem(item)
    OBVIOUS
  <2>2. m \in MessageTypes
    BY <1>1, <1>3, <1>10, <2>1, OfItemMade
  <2>3. HeardIn(m, entries) = r
    BY <1>3, <2>1, OfItemSays DEF Items
  <2>4. more = [open |-> FALSE, messages |-> Append(old, m)]
    BY <1>2, <1>10, <2>1 DEF WithItem
  <2>5. IsContent(m)
    BY <1>3, <1>10, <2>1 DEF IsContent, OfItem, Message
  <2> QED BY <1>4, <1>9, <2>2, <2>3, <2>4, <2>5 DEF InStep
<1>11. PICK parts \in Seq(ContentParts) : parts = item.content.parts
    BY <1>3 DEF Items, Contents
<1>12. item.kind = "bare" => r = [role |-> "user", says |-> Voiced(parts, entries)]
  <2> SUFFICES ASSUME item.kind = "bare" PROVE r = [role |-> "user", says |-> Voiced(parts, entries)]
    OBVIOUS
  <2>1. SpeakerOf(item) = "user" /\ Counted(item) = item.content
    BY <1>3 DEF SpeakerOf, RoleOf, Canonical, Counted
  <2>2. <<>> \in Seq(Text)
    OBVIOUS
  <2>3. Uttered(item.content, <<>>, entries) = Voiced(parts, entries)
    BY <1>11, <2>2, UtteredTyped
  <2> QED BY <1>3, <2>1, <2>3 DEF ReadingOf, Reading
<1>13. CASE item.kind = "bare" /\ ~done.open
  <2>1. PICK m : m = BareTurn(item)
    OBVIOUS
  <2>2. PICK content : content = Parts(parts)
    OBVIOUS
  <2>3. content \in Contents /\ content.parts = parts
    BY <2>2 DEF Parts, Contents
  <2>4. PICK none : none = Item("content", "user", Parts(<<>>), <<>>)
    OBVIOUS
  <2>5. none \in Items /\ none.calls = <<>>
    <3>1. Parts(<<>>) \in Contents
      BY DEF Parts, Contents
    <3>2. <<>> \in Seq(Text)
      OBVIOUS
    <3> QED BY <2>4, <3>1, <3>2 DEF Item, Items, ItemKinds, Roles
  <2>6. m = [role |-> "user", content |-> content, mark |-> "item", item |-> none]
    BY <1>11, <2>1, <2>2, <2>4 DEF BareTurn, Message
  <2>7. m \in MessageTypes /\ m.item.calls = <<>>
    BY <2>3, <2>5, <2>6 DEF MessageTypes, Marks, Roles
  <2>8. HeardIn(m, entries) = r
    <3>1. <<>> \in Seq(Text)
      OBVIOUS
    <3>2. Uttered(content, <<>>, entries) = Voiced(parts, entries)
      BY <2>3, <3>1, UtteredTyped
    <3>3. Voice("user") = "user"
      BY DEF Voice
    <3> QED BY <1>12, <1>13, <2>6, <2>7, <3>2, <3>3 DEF HeardIn, Reading
  <2>9. more = [open |-> TRUE, messages |-> Append(old, m)]
    BY <1>2, <1>13, <2>1 DEF WithItem
  <2>10. Last(Append(old, m)) = m
    BY <1>5, <2>7 DEF Last
  <2>11. IsContent(m)
    BY <2>4, <2>6 DEF IsContent, Item
  <2> QED BY <1>4, <1>9, <2>7, <2>8, <2>9, <2>10, <2>11 DEF InStep
<1>14. CASE item.kind = "bare" /\ done.open
  <2>1. PICK F \in Seq(X), m \in X :
              /\ m.role = "user" /\ m = Last(old)
              /\ old = Append(F, m)
              /\ Longer(m, parts) \in X
              /\ more = [open |-> TRUE, messages |-> Append(F, Longer(m, parts))]
    <3>1. \E F \in Seq(Made("google")) : \E m \in Made("google") :
              /\ m.role = "user" /\ m = Last(done.messages)
              /\ done.messages = Append(F, m)
              /\ Longer(m, item.content.parts) \in Made("google")
              /\ WithItem(done, item) =
                   [open |-> TRUE, messages |-> Append(F, Longer(m, item.content.parts))]
      BY <1>3, <1>4, <1>14, GroupGoesOn
    <3> QED BY <1>1, <1>2, <1>11, <3>1
  <2>2. PICK k \in X : k = Longer(m, parts)
    BY <2>1
  <2>3. F \in Seq(MessageTypes) /\ m \in MessageTypes /\ k \in MessageTypes
    BY <1>1
  <2>4. m.item.calls = <<>> /\ Voice(m.role) = m.role
    BY <1>2, <1>14, <2>1 DEF InStep, Voice
  <2>5. PICK a \in Seq(Utterances), b \in Seq(Utterances) :
            a = Voiced(m.content.parts, entries) /\ b = Voiced(parts, entries)
    BY <2>2, <2>3, <2>4, LongerSays
  <2>6. /\ k.item = m.item
        /\ HeardIn(m, entries) = [role |-> "user", says |-> a]
        /\ HeardIn(k, entries) = [role |-> "user", says |-> a \o b]
    <3>1. /\ k.role = m.role /\ k.item = m.item
          /\ HeardIn(m, entries) = [role |-> m.role, says |-> Voiced(m.content.parts, entries)]
          /\ HeardIn(k, entries) =
               [role |-> m.role, says |-> Voiced(m.content.parts, entries) \o Voiced(parts, entries)]
      BY <2>2, <2>3, <2>4, LongerSays
    <3> QED BY <2>1, <2>5, <3>1
  <2>7. PICK G \in Seq(Voices) : G = Heard(F, entries)
    BY <2>3, HeardTyped
  <2>8. PICK one, all : one = [role |-> "user", says |-> a] /\ all = [role |-> "user", says |-> a \o b]
    OBVIOUS
  <2>9. r = [role |-> "user", says |-> b]
    BY <1>12, <1>14, <2>5
  <2>10. TurnsSaid(G) \in Seq(Voices) /\ SystemSaid(G) \in Seq(Utterances)
    BY <1>6, SaidAppended
  <2>11. "user" \in Roles \union ItemKinds
    BY DEF Roles
  <2>12. /\ one \in Voices /\ all \in Voices
         /\ WithReading(TurnsSaid(G), all) = WithReading(WithReading(TurnsSaid(G), one), r)
         /\ SystemWords(all) = SystemWords(one) \o SystemWords(r)
    <3>1. PICK T \in Seq(Voices) : T = TurnsSaid(G)
      BY <2>10
    <3>2. LET x == [role |-> "user", says |-> a]
              y == [role |-> "user", says |-> b]
              z == [role |-> "user", says |-> a \o b]
          IN /\ x \in Voices /\ y \in Voices /\ z \in Voices
             /\ WithReading(T, z) = WithReading(WithReading(T, x), y)
             /\ SystemWords(z) = SystemWords(x) \o SystemWords(y)
      BY <2>11, InTwoPieces
    <3> QED BY <2>8, <2>9, <3>1, <3>2
  <2>13. H = Append(G, one)
    BY <1>7, <2>1, <2>3, <2>6, <2>7, <2>8, HeardAppended
  <2>14. Heard(Append(F, k), entries) = Append(G, all)
    BY <2>3, <2>6, <2>7, <2>8, HeardAppended
  <2>15. /\ sys = SystemSaid(G) \o SystemWords(one)
         /\ turns = WithReading(TurnsSaid(G), one)
    BY <1>8, <2>12, <2>13, SaidAppended
  <2>16. /\ SystemSaid(Append(G, all)) = SystemSaid(G) \o SystemWords(all)
         /\ TurnsSaid(Append(G, all)) = WithReading(TurnsSaid(G), all)
    BY <2>12, SaidAppended
  <2>17. SystemWords(one) = <<>> /\ SystemWords(r) = <<>> /\ SystemWords(all) = <<>>
    BY <2>8, <2>9 DEF SystemWords
  <2>18. sys \o SystemWords(r) = SystemSaid(G) \o SystemWords(all)
    BY <2>10, <2>15, <2>17
  <2>19. Last(Append(F, k)) = k /\ k.item.calls = <<>>
    BY <2>3, <2>4, <2>6 DEF Last
  <2>20. more.messages = Append(F, k)
    BY <2>1, <2>2
  <2>21. /\ SystemSaid(Heard(more.messages, entries)) = sys \o SystemWords(r)
         /\ TurnsSaid(Heard(more.messages, entries)) = WithReading(turns, r)
    BY <2>12, <2>14, <2>15, <2>16, <2>18, <2>20
  <2>22. k.mark = m.mark
    BY <2>2, <2>3 DEF Longer, MessageTypes
  <2>23. \A x \in ToSet(old) : IsContent(x)
    BY <1>2 DEF InStep
  <2>24. ToSet(Append(F, m)) = ToSet(F) \union {m} /\ ToSet(Append(F, k)) = ToSet(F) \union {k}
    BY <2>3, ValuesAppended
  <2>25. \A x \in ToSet(Append(F, k)) : IsContent(x)
    BY <2>1, <2>6, <2>22, <2>23, <2>24 DEF IsContent
  <2> QED BY <1>4, <2>19, <2>20, <2>21, <2>25 DEF InStep
<1> QED BY <1>10, <1>13, <1>14

\* The readings of items.
ReadAll(items, entries) == [i \in DOMAIN items |-> ReadingOf(items[i], entries)]

\* The readings of items.
LEMMA ReadAllTyped ==
    ASSUME NEW entries, Known(entries), NEW items \in Seq(Items)
    PROVE  ReadAll(items, entries) \in Seq(Voices)
<1>1. PICK N \in Nat : N = Len(items) /\ DOMAIN items = 1..N
    OBVIOUS
<1>2. PICK all : all = ReadAll(items, entries)
    OBVIOUS
<1>3. all \in [1..N -> Voices]
  <2>1. \A i \in 1..N : items[i] \in Items
    BY <1>1
  <2>2. \A i \in 1..N : ReadingOf(items[i], entries) \in Voices
    BY <2>1, ReadingOfTyped
  <2> QED BY <1>1, <1>2, <2>2 DEF ReadAll
<1> QED BY <1>2, <1>3

\* Gemini's contents say as messages what they say as contents.
LEMMA GroupedSays ==
    ASSUME NEW entries, Known(entries), NEW items \in Seq(Items),
           \A i \in DOMAIN items : Accepted("google", items[i])
    PROVE  /\ SaysTheSame(Heard(Grouped(items), entries), ReadAll(items, entries))
           /\ \A m \in ToSet(Grouped(items)) : IsContent(m)
<1>1. PICK N \in Nat : N = Len(items) /\ DOMAIN items = 1..N
    OBVIOUS
<1>2. PICK d : /\ GroupsItems(d, items, N)
               /\ Grouped(items) = d[N].messages
               /\ \A n \in 0..N : d[n] \in GroupsSoFar
    BY <1>1, GroupedSteps
<1>3. PICK R \in Seq(Voices) : R = ReadAll(items, entries)
    BY ReadAllTyped
<1>4. Len(R) = N /\ \A i \in 1..N : R[i] = ReadingOf(items[i], entries)
  <2>1. DOMAIN R = 1..N
    BY <1>1, <1>3 DEF ReadAll
  <2> QED BY <1>1, <1>3, <2>1 DEF ReadAll
<1>5. PICK s, t : Tells(s, t, R, N) /\ SystemSaid(R) = s[N] /\ TurnsSaid(R) = t[N]
    BY <1>4, SaidSteps
<1> DEFINE I == {n \in Nat : n <= N => InStep(d[n], entries, s[n], t[n])}
<1>6. 0 \in I
  <2>1. d[0] = NoGroups /\ d[0] \in GroupsSoFar
    BY <1>2 DEF GroupsItems
  <2>2. d[0].messages = <<>> /\ ~d[0].open
    BY <2>1 DEF NoGroups
  <2>3. Heard(<<>>, entries) = <<>>
    BY HeardOne
  <2>4. InStep(d[0], entries, s[0], t[0])
    BY <1>5, <2>1, <2>2, <2>3, SaidByNone DEF InStep, Tells, ToSet
  <2> QED BY <2>4
<1>7. ASSUME NEW n \in Nat, n \in I
      PROVE  n + 1 \in I
  <2> SUFFICES ASSUME n + 1 <= N PROVE InStep(d[n + 1], entries, s[n + 1], t[n + 1])
    OBVIOUS
  <2>1. n + 1 \in 1..N /\ (n + 1) - 1 = n /\ InStep(d[n], entries, s[n], t[n])
    BY <1>7
  <2>2. PICK item : item = items[n + 1]
    OBVIOUS
  <2>3. Accepted("google", item)
    BY <1>1, <2>1, <2>2
  <2>4. d[n + 1] = WithItem(d[n], item)
    BY <1>2, <2>1, <2>2 DEF GroupsItems
  <2>5. s[n + 1] = s[n] \o SystemWords(R[n + 1]) /\ t[n + 1] = WithReading(t[n], R[n + 1])
    BY <1>5, <2>1 DEF Tells
  <2>6. PICK r : r = ReadingOf(item, entries) /\ R[n + 1] = r
    BY <1>4, <2>1, <2>2
  <2>7. InStep(d[n + 1], entries, s[n] \o SystemWords(r), WithReading(t[n], r))
    BY <2>1, <2>3, <2>4, <2>6, GroupSays
  <2> QED BY <2>5, <2>6, <2>7
<1>8. InStep(d[N], entries, s[N], t[N])
  <2>1. N \in I
    <3> HIDE DEF I
    <3> QED BY <1>6, <1>7, SetInduction
  <2> QED BY <2>1
<1> QED BY <1>2, <1>3, <1>5, <1>8 DEF InStep, SaysTheSame

\* A system prompt before both.
LEMMA SystemBeforeBoth ==
    ASSUME NEW P \in Seq(Voices), Len(P) <= 1, \A i \in DOMAIN P : P[i].role = "system",
           NEW R \in Seq(Voices), NEW S \in Seq(Voices), SaysTheSame(R, S)
    PROVE  SaysTheSame(P \o R, P \o S)
<1>1. CASE Len(P) = 0
  <2>1. P \o R = R /\ P \o S = S
    BY <1>1
  <2> QED BY <2>1
<1>2. CASE Len(P) = 1
  <2>1. PICK p \in Voices : P = <<p>> /\ p.role = "system"
    <3>0. DOMAIN P = 1..Len(P) /\ 1..1 = 1..Len(P)
      BY <1>2
    <3>1. 1 \in DOMAIN P /\ DOMAIN P = 1..1 /\ P[1] \in Voices
      BY <3>0
    <3>2. PICK p : p = P[1]
      OBVIOUS
    <3>3. P = [i \in 1..1 |-> p]
      <4>1. \A i \in 1..1 : P[i] = p
        BY <3>2
      <4>2. P = [i \in DOMAIN P |-> P[i]]
        OBVIOUS
      <4> QED BY <3>1, <4>1, <4>2
    <3>4. [i \in 1..1 |-> p] = <<p>>
      OBVIOUS
    <3> QED BY <3>1, <3>2, <3>3, <3>4
  <2>2. /\ SystemSaid(<<p>> \o R) = p.says \o SystemSaid(R)
        /\ TurnsSaid(<<p>> \o R) = TurnsSaid(R)
    BY <2>1, SystemFirst
  <2>3. /\ SystemSaid(<<p>> \o S) = p.says \o SystemSaid(S)
        /\ TurnsSaid(<<p>> \o S) = TurnsSaid(S)
    BY <2>1, SystemFirst
  <2>4. SystemSaid(R) = SystemSaid(S) /\ TurnsSaid(R) = TurnsSaid(S)
    BY DEF SaysTheSame
  <2>5. SaysTheSame(<<p>> \o R, <<p>> \o S)
    BY <2>2, <2>3, <2>4 DEF SaysTheSame
  <2>6. PICK one : one = <<p>> /\ P = one
    BY <2>1
  <2>7. SaysTheSame(one \o R, one \o S)
    BY <2>5, <2>6
  <2> QED BY <2>6, <2>7, Zenon
<1>3. PICK length \in Nat : length = Len(P)
    OBVIOUS
<1>4. length = 0 \/ length = 1
    BY <1>3
<1> QED BY <1>1, <1>2, <1>3, <1>4

\* The system prompt given apart, as a message and as a reading.
SystemRead(system, entries) ==
    IF system = None THEN <<>> ELSE <<Reading("system", system, <<>>, entries)>>

\* The system messages made of a prompt say the prompt.
LEMMA SystemHeard ==
    ASSUME NEW entries, Known(entries), NEW system \in Contents \union {None}, NEW mark
    PROVE  /\ Heard(SystemMessages(system, mark), entries) = SystemRead(system, entries)
           /\ SystemRead(system, entries) \in Seq(Voices)
           /\ Len(SystemRead(system, entries)) <= 1
           /\ \A i \in DOMAIN SystemRead(system, entries) :
                 SystemRead(system, entries)[i].role = "system"
<1>1. CASE system = None
  <2>1. SystemMessages(system, mark) = <<>> /\ SystemRead(system, entries) = <<>>
    BY <1>1 DEF SystemMessages, SystemRead
  <2>2. <<>> \in Seq(Voices) /\ Len(<<>>) <= 1 /\ DOMAIN <<>> = {}
    OBVIOUS
  <2> QED BY <2>1, <2>2, HeardOne
<1>2. CASE system # None
  <2>1. PICK m : m = Message("system", system, mark, NoItem)
    OBVIOUS
  <2>2. SystemMessages(system, mark) = <<m>>
    BY <1>2, <2>1 DEF SystemMessages
  <2>3. NoItem.calls = <<>>
    BY NoItemTyped
  <2>4. HeardIn(m, entries) = Reading("system", system, <<>>, entries)
    BY <2>1, <2>3 DEF Message, HeardIn, Voice
  <2>5. PICK p : p = Reading("system", system, <<>>, entries)
    OBVIOUS
  <2>6. p \in Voices /\ p.role = "system"
    <3>1. "system" \in Roles \union ItemKinds /\ system \in Contents
      BY <1>2 DEF Roles
    <3>2. <<>> \in Seq(Text)
      OBVIOUS
    <3> QED BY <2>5, <3>1, <3>2, ReadingIsVoice
  <2>7. SystemRead(system, entries) = <<p>>
    BY <1>2, <2>5 DEF SystemRead
  <2>8. <<p>> \in Seq(Voices) /\ Len(<<p>>) = 1 /\ DOMAIN <<p>> = {1} /\ <<p>>[1] = p
    BY <2>6
  <2> QED BY <2>2, <2>4, <2>5, <2>6, <2>7, <2>8, HeardOne
<1> QED BY <1>1, <1>2

\* What arguments tell, as readings.
LEMMA ReadingsForm ==
    ASSUME NEW entries, NEW kwargs
    PROVE  Readings(kwargs, entries) = SystemRead(kwargs.system, entries) \o ReadAll(kwargs.turns, entries)
BY DEF Readings, SystemRead, ReadAll

\* A system prompt first, then messages of items.
LEMMA SystemThenItems ==
    ASSUME NEW first \in Seq(MessageTypes), NEW rest \in Seq(MessageTypes), Len(first) <= 1,
           \A i \in DOMAIN first : /\ first[i].mark \in {"system", "instructions"}
                                   /\ IsTextOnly(first[i]),
           \A i \in DOMAIN rest : /\ rest[i].mark \in {"item", "string"}
                                  /\ rest[i].item.kind \in {"function_call", "other"} =>
                                       rest[i].content = Str(<<>>)
    PROVE  WellMarked(first \o rest)
<1>1. PICK m \in Nat : m = Len(first) /\ DOMAIN first = 1..m
    OBVIOUS
<1>2. PICK n \in Nat : n = Len(rest) /\ DOMAIN rest = 1..n
    OBVIOUS
<1>3. PICK all : all = first \o rest
    OBVIOUS
<1>4. IsTogether(all, first, m, rest, n)
    BY <1>1, <1>2, <1>3, TogetherForm
<1>5. m <= 1
    BY <1>1
<1>6. ASSUME NEW i \in 1..(m + n)
      PROVE  \/ i = 1 /\ i \in 1..m /\ all[i] = first[i]
             \/ \E k \in 1..n : all[i] = rest[k]
  <2>1. CASE i \in 1..m
    BY <1>4, <1>5, <2>1 DEF IsTogether
  <2>2. CASE i \notin 1..m
    <3>1. i - m \in 1..n /\ i = m + (i - m)
      BY <2>2
    <3> QED BY <1>4, <3>1 DEF IsTogether
  <2> QED BY <2>1, <2>2
<1>7. DOMAIN all = 1..(m + n)
    BY <1>4 DEF IsTogether
<1> QED BY <1>1, <1>2, <1>3, <1>6, <1>7 DEF WellMarked

\* The messages parsed of the arguments of a call are marked as their kinds are.
LEMMA ParsedMarked ==
    ASSUME NEW q \in Providers, NEW kwargs, IsArgs(q, kwargs)
    PROVE  WellMarked(MessagesOf(q, kwargs))
<1>1. PICK turns \in Seq(Items) : turns = kwargs.turns
    BY DEF IsArgs
<1>2. PICK N \in Nat : N = Len(turns) /\ DOMAIN turns = 1..N
    OBVIOUS
<1>3. kwargs.system \in Contents \union {None}
    BY DEF IsArgs
<1>4. \A i \in 1..N : Accepted(q, turns[i])
  <2>1. \A i \in 1..N : turns[i] \in Items
    BY <1>2
  <2> QED BY <1>1, <1>2, <2>1 DEF IsArgs, Accepted
<1>5. ASSUME NEW mark \in {"system", "instructions"}, q = "google" => mark = "system",
             NEW rest, rest \in Seq(MessageTypes),
             \A i \in DOMAIN rest : /\ rest[i].mark \in {"item", "string"}
                                    /\ rest[i].item.kind \in {"function_call", "other"} =>
                                         rest[i].content = Str(<<>>)
      PROVE  WellMarked(SystemMessages(kwargs.system, mark) \o rest)
  <2>1. PICK first \in Seq(MessageTypes) : first = SystemMessages(kwargs.system, mark)
    <3>1. SystemMessages(kwargs.system, mark) \in Seq(Made(q))
      BY <1>3, <1>5, SystemMade
    <3> QED BY <3>1, MadeTyped
  <2>2. /\ Len(first) <= 1
        /\ \A i \in DOMAIN first : first[i].mark \in {"system", "instructions"} /\ IsTextOnly(first[i])
    <3>1. CASE kwargs.system = None
      <4>1. first = <<>>
        BY <2>1, <3>1 DEF SystemMessages
      <4>2. Len(<<>>) <= 1 /\ DOMAIN <<>> = {}
        OBVIOUS
      <4> QED BY <4>1, <4>2
    <3>2. CASE kwargs.system # None
      <4>1. PICK m : m = Message("system", kwargs.system, mark, NoItem)
        OBVIOUS
      <4>2. first = <<m>>
        BY <2>1, <3>2, <4>1 DEF SystemMessages
      <4>3. m.mark = mark /\ m.content = kwargs.system
        BY <4>1 DEF Message
      <4>4. IsTextOnly(m)
        BY <3>2, <4>3 DEF IsArgs, IsTextOnly
      <4>5. Len(<<m>>) = 1 /\ DOMAIN <<m>> = {1} /\ <<m>>[1] = m
        OBVIOUS
      <4> QED BY <4>2, <4>3, <4>4, <4>5
    <3> QED BY <3>1, <3>2
  <2> QED BY <1>5, <2>1, <2>2, SystemThenItems
<1>6. ASSUME NEW f, DOMAIN f = 1..N, \A i \in 1..N : f[i] \in MessageTypes, f = [i \in 1..N |-> f[i]]
      PROVE  f \in Seq(MessageTypes)
  <2>1. f \in [1..N -> MessageTypes]
    BY <1>6
  <2> QED BY <2>1
<1>7. ASSUME q \in {"openai", "anthropic"}
      PROVE  /\ [i \in DOMAIN turns |-> OfItem(turns[i])] \in Seq(MessageTypes)
             /\ \A i \in 1..N : OfItem(turns[i]).mark = "item" /\ OfItem(turns[i]).item.kind = "message"
  <2>1. \A i \in 1..N : turns[i].kind = "message"
    BY <1>4, <1>7 DEF Accepted
  <2>2. \A i \in 1..N : OfItem(turns[i]) \in MessageTypes
    <3>1. \A i \in 1..N : OfItem(turns[i]) \in Made(q)
      BY <1>4, <2>1, OfItemMade
    <3> QED BY <3>1 DEF Made
  <2>3. PICK f : f = [i \in 1..N |-> OfItem(turns[i])]
    OBVIOUS
  <2>4. f \in Seq(MessageTypes)
    BY <1>6, <2>2, <2>3
  <2>5. \A i \in 1..N : OfItem(turns[i]).mark = "item" /\ OfItem(turns[i]).item.kind = "message"
    BY <2>1 DEF OfItem, Message
  <2> QED BY <1>2, <2>3, <2>4, <2>5
<1>8. CASE q = "openai"
  <2>1. PICK f : f = MessagesOf(q, kwargs)
    OBVIOUS
  <2>2. f = [i \in 1..N |-> OfItem(turns[i])]
    BY <1>1, <1>2, <1>8, <2>1 DEF MessagesOf
  <2> QED BY <1>7, <1>8, <2>1, <2>2 DEF WellMarked
<1>9. CASE q = "anthropic"
  <2>1. PICK f : f = [i \in DOMAIN turns |-> OfItem(turns[i])] /\ f \in Seq(MessageTypes)
    BY <1>7, <1>9
  <2>2. MessagesOf(q, kwargs) = SystemMessages(kwargs.system, "system") \o f
    BY <1>1, <1>9, <2>1 DEF MessagesOf
  <2>3. \A i \in DOMAIN f : f[i].mark = "item" /\ f[i].item.kind = "message"
    BY <1>2, <1>7, <1>9, <2>1
  <2> QED BY <1>5, <1>9, <2>1, <2>2, <2>3
<1>10. CASE q = "google"
  <2>1. PICK f : f = Grouped(turns) /\ f \in Seq(MessageTypes)
    <3>1. Grouped(turns) \in Seq(Made("google"))
      BY <1>2, <1>4, <1>10, GroupedMade
    <3> QED BY <3>1, MadeTyped
  <2>2. \A m \in ToSet(f) : IsContent(m)
    <3>1. Known({})
      BY DEF Known
    <3> QED BY <1>2, <1>4, <1>10, <2>1, <3>1, GroupedSays
  <2>3. \A i \in DOMAIN f : f[i].mark = "item" /\ f[i].item.kind \in {"message", "content"}
    BY <2>2 DEF ToSet, IsContent
  <2>4. MessagesOf(q, kwargs) = SystemMessages(kwargs.system, "system") \o f
    BY <1>1, <1>10, <2>1 DEF MessagesOf
  <2> QED BY <1>5, <2>1, <2>3, <2>4
<1>11. CASE q = "openai-responses" /\ kwargs.shape = "str"
  <2>1. Len(turns) = 1
    BY <1>1, <1>11 DEF IsArgs
  <2>2. turns[1] \in Items
    BY <1>2, <2>1
  <2>3. PICK m : m = Message("user", turns[1].content, "string", NoItem)
    OBVIOUS
  <2>4. m = [role |-> "user", content |-> turns[1].content, mark |-> "string", item |-> NoItem]
    BY <2>3 DEF Message
  <2>5. m \in MessageTypes
    BY <2>2, <2>4, NoItemTyped DEF MessageTypes, Marks, Roles, Items
  <2>6. PICK f : f = <<m>>
    OBVIOUS
  <2>7. f \in Seq(MessageTypes) /\ DOMAIN f = {1} /\ f[1] = m
    BY <2>5, <2>6
  <2>8. \A i \in DOMAIN f : f[i].mark = "string" /\ f[i].item.kind = "none"
    BY <2>4, <2>7, NoItemTyped
  <2>9. MessagesOf(q, kwargs) = SystemMessages(kwargs.system, "instructions") \o f
    BY <1>1, <1>11, <2>3, <2>6 DEF MessagesOf
  <2> QED BY <1>5, <1>11, <2>7, <2>8, <2>9
<1>12. CASE q = "openai-responses" /\ kwargs.shape # "str"
  <2>1. \A i \in 1..N : OfInputItem(turns[i]) \in MessageTypes
    <3>1. \A i \in 1..N : OfInputItem(turns[i]) \in Made("openai-responses")
      BY <1>4, <1>12, OfInputItemMade
    <3> QED BY <3>1 DEF Made
  <2>2. ASSUME NEW i \in 1..N
        PROVE  /\ OfInputItem(turns[i]).mark = "item"
               /\ OfInputItem(turns[i]).item.kind \in {"function_call", "other"} =>
                    OfInputItem(turns[i]).content = Str(<<>>)
    <3>1. PICK item : item = turns[i] /\ Accepted(q, item)
      BY <1>4
    <3>2. item.kind \in {"message", "function_call", "function_call_output", "other"}
      BY <1>12, <3>1 DEF Accepted
    <3> QED BY <3>1, <3>2 DEF OfInputItem, OfItem, Message
  <2>3. PICK f : f = [i \in 1..N |-> OfInputItem(turns[i])]
    OBVIOUS
  <2>4. f \in Seq(MessageTypes)
    BY <1>6, <2>1, <2>3
  <2>5. \A i \in DOMAIN f : /\ f[i].mark = "item"
                            /\ f[i].item.kind \in {"function_call", "other"} => f[i].content = Str(<<>>)
    BY <2>2, <2>3
  <2>6. MessagesOf(q, kwargs) = SystemMessages(kwargs.system, "instructions") \o f
    BY <1>1, <1>2, <1>12, <2>3 DEF MessagesOf
  <2> QED BY <1>5, <1>12, <2>4, <2>5, <2>6
<1> QED BY <1>8, <1>9, <1>10, <1>11, <1>12 DEF Providers

\* The messages of arguments say what the arguments say.
LEMMA ParsedSays ==
    ASSUME NEW entries, Known(entries), NEW q \in Providers, NEW kwargs, IsArgs(q, kwargs)
    PROVE  /\ Readings(kwargs, entries) \in Seq(Voices)
           /\ SaysTheSame(Heard(MessagesOf(q, kwargs), entries), Readings(kwargs, entries))
<1>1. PICK turns \in Seq(Items) : turns = kwargs.turns
    BY DEF IsArgs
<1>2. PICK N \in Nat : N = Len(turns) /\ DOMAIN turns = 1..N
    OBVIOUS
<1>3. kwargs.system \in Contents \union {None}
    BY DEF IsArgs
<1>4. \A i \in 1..N : Accepted(q, turns[i])
  <2>1. \A i \in 1..N : turns[i] \in Items
    BY <1>2
  <2> QED BY <1>1, <1>2, <2>1 DEF IsArgs, Accepted
<1>5. PICK R \in Seq(Voices) : R = ReadAll(turns, entries)
    BY ReadAllTyped
<1>6. PICK P \in Seq(Voices) : /\ P = SystemRead(kwargs.system, entries)
                               /\ Len(P) <= 1 /\ \A i \in DOMAIN P : P[i].role = "system"
    BY <1>3, SystemHeard
<1>7. Readings(kwargs, entries) = P \o R
    BY <1>1, <1>5, <1>6, ReadingsForm
<1>8. Readings(kwargs, entries) \in Seq(Voices)
    BY <1>7, ValuesJoined
<1>9. PICK X : X = Made(q) /\ X \subseteq MessageTypes
    BY DEF Made
<1>10. ASSUME NEW f, \A i \in 1..N : f[i] \in X /\ HeardIn(f[i], entries) = ReadingOf(turns[i], entries),
              DOMAIN f = 1..N
       PROVE  Heard(f, entries) = R
    BY <1>2, <1>5, <1>10 DEF Heard, ReadAll
<1>11. ASSUME NEW mark \in {"system", "instructions"}, q = "google" => mark = "system",
              NEW rest \in Seq(X), SaysTheSame(Heard(rest, entries), R),
              MessagesOf(q, kwargs) = SystemMessages(kwargs.system, mark) \o rest
       PROVE  SaysTheSame(Heard(MessagesOf(q, kwargs), entries), Readings(kwargs, entries))
  <2>1. PICK first \in Seq(MessageTypes) : first = SystemMessages(kwargs.system, mark)
    <3>1. SystemMessages(kwargs.system, mark) \in Seq(X)
      BY <1>3, <1>9, <1>11, SystemMade
    <3> QED BY <1>9, <3>1
  <2>2. rest \in Seq(MessageTypes)
    BY <1>9
  <2>3. Heard(first, entries) = P
    BY <1>3, <1>6, <2>1, SystemHeard
  <2>4. PICK H \in Seq(Voices) : H = Heard(rest, entries)
    BY <2>2, HeardTyped
  <2>5. Heard(MessagesOf(q, kwargs), entries) = P \o H
    BY <1>11, <2>1, <2>2, <2>3, <2>4, HeardTwo
  <2>6. SaysTheSame(P \o H, P \o R)
    BY <1>6, <1>11, <2>4, SystemBeforeBoth
  <2> QED BY <1>7, <2>5, <2>6
<1>12. SaysTheSame(R, R)
    BY DEF SaysTheSame
<1>13. ASSUME q \in {"openai", "anthropic"}
       PROVE  /\ [i \in DOMAIN turns |-> OfItem(turns[i])] \in Seq(X)
              /\ Heard([i \in DOMAIN turns |-> OfItem(turns[i])], entries) = R
  <2>1. \A i \in 1..N : turns[i].kind = "message"
    BY <1>4, <1>13 DEF Accepted
  <2>2. \A i \in 1..N : OfItem(turns[i]) \in X
    BY <1>4, <1>9, <2>1, OfItemMade
  <2>3. \A i \in 1..N : HeardIn(OfItem(turns[i]), entries) = ReadingOf(turns[i], entries)
    <3>1. \A i \in 1..N : turns[i].content.form = "null" => turns[i].content.parts = <<>>
      BY <1>4 DEF Accepted
    <3>2. \A i \in 1..N : turns[i].role \in Roles
      BY <1>4 DEF Accepted, Items
    <3> QED BY <2>1, <3>1, <3>2, OfItemSays
  <2>4. PICK f : f = [i \in 1..N |-> OfItem(turns[i])]
    OBVIOUS
  <2>5. f \in [1..N -> X]
    BY <2>2, <2>4
  <2>6. Heard(f, entries) = R
    BY <1>10, <2>2, <2>3, <2>4
  <2>7. f \in Seq(X)
    BY <2>5
  <2>8. f = [i \in DOMAIN turns |-> OfItem(turns[i])]
    BY <1>2, <2>4
  <2> QED BY <2>6, <2>7, <2>8
<1>14. CASE q = "openai"
  <2>1. kwargs.system = None
    BY <1>14 DEF IsArgs
  <2>2. P = <<>>
    BY <1>6, <2>1 DEF SystemRead
  <2>3. Heard(MessagesOf(q, kwargs), entries) = R
    BY <1>1, <1>13, <1>14 DEF MessagesOf
  <2>4. P \o R = R
    BY <2>2
  <2> QED BY <1>7, <1>8, <1>12, <2>3, <2>4
<1>15. CASE q = "anthropic"
  <2>1. MessagesOf(q, kwargs)
          = SystemMessages(kwargs.system, "system") \o [i \in DOMAIN turns |-> OfItem(turns[i])]
    BY <1>1, <1>15 DEF MessagesOf
  <2>2. PICK rest \in Seq(X) : rest = [i \in DOMAIN turns |-> OfItem(turns[i])]
    BY <1>13, <1>15
  <2>3. SaysTheSame(Heard(rest, entries), R)
    BY <1>12, <1>13, <1>15, <2>2
  <2> QED BY <1>8, <1>11, <1>15, <2>1, <2>2, <2>3
<1>16. CASE q = "google"
  <2>1. PICK rest \in Seq(X) : rest = Grouped(turns)
    BY <1>2, <1>4, <1>9, <1>16, GroupedMade
  <2>2. SaysTheSame(Heard(rest, entries), R)
    BY <1>2, <1>4, <1>5, <1>16, <2>1, GroupedSays
  <2>3. MessagesOf(q, kwargs) = SystemMessages(kwargs.system, "system") \o rest
    BY <1>1, <1>16, <2>1 DEF MessagesOf
  <2> QED BY <1>8, <1>11, <1>16, <2>2, <2>3
<1>17. CASE q = "openai-responses" /\ kwargs.shape = "str"
  <2>1. /\ Len(turns) = 1 /\ turns[1].kind = "message" /\ turns[1].role = "user"
        /\ turns[1].calls = <<>>
    BY <1>1, <1>17 DEF IsArgs
  <2>2. N = 1 /\ turns[1] \in Items /\ 1 \in 1..N
    BY <1>2, <2>1
  <2>3. PICK m : m = Message("user", turns[1].content, "string", NoItem)
    OBVIOUS
  <2>4. m \in X
    <3>1. m = [role |-> "user", content |-> turns[1].content, mark |-> "string", item |-> NoItem]
      BY <2>3 DEF Message
    <3>2. m \in MessageTypes
      BY <2>2, <3>1, NoItemTyped DEF MessageTypes, Marks, Roles, Items
    <3> QED BY <1>9, <1>17, <3>1, <3>2, NoItemTyped DEF Made, PortableRoles
  <2>5. HeardIn(m, entries) = ReadingOf(turns[1], entries)
    <3>1. /\ SpeakerOf(turns[1]) = "user" /\ NoItem.calls = <<>>
          /\ Counted(turns[1]) = turns[1].content /\ Voice("user") = "user"
      BY <2>1, NoItemTyped DEF SpeakerOf, RoleOf, Canonical, Counted, Voice
    <3> QED BY <2>1, <2>3, <3>1 DEF Message, HeardIn, ReadingOf
  <2>6. PICK f : f = <<m>>
    OBVIOUS
  <2>7. DOMAIN f = 1..N /\ f \in Seq(X) /\ f[1] = m /\ \A i \in 1..N : i = 1
    BY <2>2, <2>4, <2>6
  <2>8. Heard(f, entries) = R
    BY <1>10, <2>4, <2>5, <2>7
  <2>9. MessagesOf(q, kwargs) = SystemMessages(kwargs.system, "instructions") \o f
    BY <1>1, <1>17, <2>3, <2>6 DEF MessagesOf
  <2> QED BY <1>8, <1>11, <1>12, <1>17, <2>7, <2>8, <2>9
<1>18. CASE q = "openai-responses" /\ kwargs.shape # "str"
  <2>1. \A i \in 1..N : OfInputItem(turns[i]) \in X
    BY <1>4, <1>9, <1>18, OfInputItemMade
  <2>2. \A i \in 1..N : HeardIn(OfInputItem(turns[i]), entries) = ReadingOf(turns[i], entries)
    BY <1>4, <1>18, OfInputItemSays
  <2>3. PICK f : f = [i \in 1..N |-> OfInputItem(turns[i])]
    OBVIOUS
  <2>4. f \in [1..N -> X]
    BY <2>1, <2>3
  <2>5. Heard(f, entries) = R
    BY <1>10, <2>1, <2>2, <2>3
  <2>6. f \in Seq(X)
    BY <2>4
  <2>7. MessagesOf(q, kwargs) = SystemMessages(kwargs.system, "instructions") \o f
    BY <1>1, <1>2, <1>18, <2>3 DEF MessagesOf
  <2> QED BY <1>8, <1>11, <1>12, <1>18, <2>5, <2>6, <2>7
<1> QED BY <1>14, <1>15, <1>16, <1>17, <1>18 DEF Providers

(***************************************************************************)
(* What a request says to the provider it came for                         *)
(***************************************************************************)

\* Selecting all, or none.
LEMMA OnlyAllOrNone ==
    ASSUME NEW X, NEW s \in Seq(X), NEW S
    PROVE  /\ (\A x \in ToSet(s) : x \in S) => Only(s, S) = s
           /\ (\A x \in ToSet(s) : x \notin S) => Only(s, S) = <<>>
<1>0. PICK N \in Nat : N = Len(s)
    OBVIOUS
<1>1. DOMAIN s = 1..N
    BY <1>0
<1>2. PICK f : Selects(f, s, N, S) /\ Only(s, S) = f[N]
  <2>1. \E f : /\ Selects(f, s, N, S) /\ Only(s, S) = f[N]
               /\ \A n \in 0..N : f[n] \in Seq(X)
    BY <1>0, OnlySteps
  <2> QED BY <2>1
<1>3. \A i \in 1..N : s[i] \in ToSet(s) /\ s[i] \in X
    BY <1>1, ValuesTyped
<1>4. ASSUME \A x \in ToSet(s) : x \in S
      PROVE  Only(s, S) = s
  <2> DEFINE I == {n \in Nat : n <= N => f[n] = [i \in 1..n |-> s[i]]}
  <2>1. 0 \in I
    BY <1>2 DEF Selects
  <2>2. ASSUME NEW n \in Nat, n \in I
        PROVE  n + 1 \in I
    <3> SUFFICES ASSUME n + 1 <= N PROVE f[n + 1] = [i \in 1..(n + 1) |-> s[i]]
      OBVIOUS
    <3>1. n + 1 \in 1..N /\ (n + 1) - 1 = n /\ f[n] = [i \in 1..n |-> s[i]]
      BY <2>2
    <3>2. f[n + 1] = Append(f[n], s[n + 1])
      BY <1>2, <1>3, <1>4, <3>1 DEF Selects
    <3>3. PICK a \in Seq(X) : a = f[n] /\ Len(a) = n
      <4>1. \A i \in 1..n : i \in 1..N
        BY <3>1
      <4>2. f[n] \in [1..n -> X]
        BY <1>3, <3>1, <4>1
      <4> QED BY <4>2
    <3>4. /\ Append(a, s[n + 1]) \in [1..(n + 1) -> X]
          /\ Append(a, s[n + 1])[n + 1] = s[n + 1]
          /\ \A i \in 1..n : Append(a, s[n + 1])[i] = a[i]
      <4>1. PICK v \in X : v = s[n + 1]
        BY <1>3, <3>1
      <4>2. /\ Append(a, v) \in [1..(n + 1) -> X] /\ Append(a, v)[n + 1] = v
            /\ \A i \in 1..n : Append(a, v)[i] = a[i]
        BY <3>3, AppendedForm
      <4> QED BY <4>1, <4>2
    <3>5. \A i \in 1..(n + 1) : Append(a, s[n + 1])[i] = s[i]
      <4>1. \A i \in 1..(n + 1) : i \in 1..n \/ i = n + 1
        OBVIOUS
      <4> QED BY <3>1, <3>3, <3>4, <4>1
    <3>6. Append(a, s[n + 1]) = [i \in 1..(n + 1) |-> s[i]]
      BY <3>4, <3>5
    <3> QED BY <3>2, <3>3, <3>6
  <2>3. f[N] = [i \in 1..N |-> s[i]]
    <3>1. N \in I
      <4> HIDE DEF I
      <4> QED BY <2>1, <2>2, SetInduction
    <3> QED BY <3>1
  <2>4. s = [i \in 1..N |-> s[i]]
    BY <1>1
  <2> QED BY <1>2, <2>3, <2>4
<1>5. ASSUME \A x \in ToSet(s) : x \notin S
      PROVE  Only(s, S) = <<>>
  <2> DEFINE I == {n \in Nat : n <= N => f[n] = <<>>}
  <2>1. 0 \in I
    BY <1>2 DEF Selects
  <2>2. ASSUME NEW n \in Nat, n \in I
        PROVE  n + 1 \in I
    <3> SUFFICES ASSUME n + 1 <= N PROVE f[n + 1] = <<>>
      OBVIOUS
    <3>1. n + 1 \in 1..N /\ (n + 1) - 1 = n /\ f[n] = <<>>
      BY <2>2
    <3> QED BY <1>2, <1>3, <1>5, <3>1 DEF Selects
  <2>3. f[N] = <<>>
    <3>1. N \in I
      <4> HIDE DEF I
      <4> QED BY <2>1, <2>2, SetInduction
    <3> QED BY <3>1
  <2> QED BY <1>2, <2>3
<1> QED BY <1>4, <1>5

\* f is the selection of Only, value by value.
IsSelection(f, s, N, S, X) ==
    /\ N = Len(s) /\ Selects(f, s, N, S) /\ Only(s, S) = f[N]
    /\ \A n \in 0..N : f[n] \in Seq(X)

\* What Only keeps can be followed value by value.
LEMMA OnlyFollowed ==
    ASSUME NEW X, NEW s \in Seq(X), NEW S
    PROVE  \E f : \E N \in Nat : IsSelection(f, s, N, S, X)
<1>1. PICK N \in Nat : N = Len(s)
    OBVIOUS
<1>2. \E f : /\ Selects(f, s, N, S) /\ Only(s, S) = f[N]
             /\ \A n \in 0..N : f[n] \in Seq(X)
    BY <1>1, OnlySteps
<1> QED BY <1>1, <1>2 DEF IsSelection

\* Selecting from sequences put together.
LEMMA OnlyTwo ==
    ASSUME NEW X, NEW a \in Seq(X), NEW b \in Seq(X), NEW S
    PROVE  Only(a \o b, S) = Only(a, S) \o Only(b, S)
<1>0. ASSUME NEW y \in Seq(X), NEW z \in Seq(X), NEW x \in X
      PROVE  Append(y \o z, x) = y \o Append(z, x)
  <2>1. <<x>> \in Seq(X)
      OBVIOUS
  <2>2. (y \o z) \o <<x>> = y \o (z \o <<x>>)
      BY <2>1, PutTogether, SMTT(30)
  <2>3. PICK w \in Seq(X) : w = y \o z
    <3>1. y \o z \in Seq(X)
      BY ValuesJoined
    <3> QED BY <3>1
  <2>4. Append(w, x) = w \o <<x>>
      OBVIOUS
  <2>5. Append(z, x) = z \o <<x>>
      OBVIOUS
  <2> QED BY <2>2, <2>3, <2>4, <2>5
<1>1. PICK c \in Seq(X) : c = a \o b
  <2>1. a \o b \in Seq(X)
    BY ValuesJoined
  <2> QED BY <2>1
<1>2. PICK m \in Nat : \E f : IsSelection(f, a, m, S, X)
    BY <1>1, OnlyFollowed
<1>3. PICK f : IsSelection(f, a, m, S, X)
    BY <1>2
<1>4. PICK n \in Nat : \E g : IsSelection(g, b, n, S, X)
    BY <1>1, OnlyFollowed
<1>5. PICK g : IsSelection(g, b, n, S, X)
    BY <1>4
<1>6. IsTogether(c, a, m, b, n)
    BY <1>1, <1>2, <1>3, <1>4, <1>5, TogetherForm DEF IsSelection
<1>7. PICK l \in Nat : \E h : IsSelection(h, c, l, S, X)
    BY <1>1, OnlyFollowed
<1>8. PICK h : IsSelection(h, c, l, S, X)
    BY <1>7
<1>9. l = m + n
    BY <1>6, <1>7, <1>8 DEF IsTogether, IsSelection
<1>10. h[m] = f[m]
  <2> DEFINE I == {k \in Nat : k <= m => h[k] = f[k]}
  <2>1. 0 \in I
    BY <1>2, <1>3, <1>7, <1>8 DEF Selects, IsSelection
  <2>2. ASSUME NEW k \in Nat, k \in I
        PROVE  k + 1 \in I
    <3> SUFFICES ASSUME k + 1 <= m PROVE h[k + 1] = f[k + 1]
      OBVIOUS
    <3>1. k + 1 \in 1..m /\ k + 1 \in 1..l /\ (k + 1) - 1 = k /\ h[k] = f[k]
      BY <1>9, <2>2
    <3>2. c[k + 1] = a[k + 1]
      BY <1>6, <3>1 DEF IsTogether
    <3> QED BY <1>2, <1>3, <1>7, <1>8, <3>1, <3>2 DEF Selects, IsSelection
  <2>3. m \in I
    <3> HIDE DEF I
    <3> QED BY <2>1, <2>2, SetInduction
  <2> QED BY <2>3
<1>11. h[m + n] = f[m] \o g[n]
  <2> DEFINE P(k) == h[m + k] = f[m] \o g[k]
             I == {k \in Nat : k <= n => P(k)}
  <2>0. PICK y \in Seq(X) : y = f[m]
    <3>1. m \in 0..m
      OBVIOUS
    <3> QED BY <1>2, <1>3, <3>1 DEF IsSelection
  <2>1. P(0)
    <3>1. m + 0 = m /\ y \o <<>> = y
      OBVIOUS
    <3> QED BY <1>4, <1>5, <1>10, <2>0, <3>1 DEF Selects, IsSelection
  <2>2. ASSUME NEW k \in Nat, k + 1 <= n, P(k)
        PROVE  P(k + 1)
    <3>1. /\ k + 1 \in 1..n /\ k \in 0..n /\ (k + 1) - 1 = k
          /\ m + (k + 1) \in 1..l /\ (m + (k + 1)) - 1 = m + k
      BY <1>9, <2>2
    <3>2. c[m + (k + 1)] = b[k + 1]
      BY <1>6, <3>1 DEF IsTogether
    <3>3. PICK z \in Seq(X) : z = g[k]
      BY <1>4, <1>5, <3>1 DEF IsSelection
    <3>4. PICK x \in X : x = b[k + 1]
      <4>1. n = Len(b)
        BY <1>4, <1>5 DEF IsSelection
      <4> QED BY <3>1, <4>1
    <3>5. h[m + (k + 1)] = IF x \in S THEN Append(y \o z, x) ELSE y \o z
      BY <1>7, <1>8, <2>0, <2>2, <3>1, <3>2, <3>3, <3>4 DEF Selects, IsSelection
    <3>6. g[k + 1] = IF x \in S THEN Append(z, x) ELSE z
      BY <1>4, <1>5, <3>1, <3>3, <3>4 DEF Selects, IsSelection
    <3>7. Append(y \o z, x) = y \o Append(z, x)
      BY <1>0, <2>0, <3>3, <3>4
    <3> QED BY <2>0, <3>5, <3>6, <3>7
  <2>3. P(n)
    <3> HIDE DEF P
    <3>1. 0 \in I
      BY <2>1
    <3>2. ASSUME NEW k \in Nat, k \in I
          PROVE  k + 1 \in I
      BY <2>2, <3>2
    <3>3. n \in I
      <4> HIDE DEF I
      <4> QED BY <3>1, <3>2, SetInduction
    <3> QED BY <3>3
  <2> QED BY <2>3
<1> QED BY <1>1, <1>9, <1>2, <1>3, <1>4, <1>5, <1>7, <1>8, <1>11 DEF IsSelection

\* The first value and the others.
Begins(x, r, s) ==
    /\ s = <<x>> \o r /\ x = s[1] /\ x = Head(s) /\ r = Tail(s)
    /\ \A k \in ToSet(r) : \E i \in DOMAIN s : i # 1 /\ k = s[i]

\* A sequence that is not empty is its first element and the rest.
LEMMA FirstAndRest ==
    ASSUME NEW X, NEW s \in Seq(X), s # <<>>
    PROVE  \E x \in X : \E r \in Seq(X) : Begins(x, r, s)
<1>1. PICK n \in Nat : n = Len(s) /\ DOMAIN s = 1..n /\ n # 0
    OBVIOUS
<1>2. 1 \in 1..n /\ s[1] \in X /\ Head(s) = s[1]
    BY <1>1
<1>3. PICK x \in X : x = s[1]
    BY <1>2
<1>4. PICK r : r = Tail(s)
    OBVIOUS
<1>5. r \in Seq(X) /\ Len(r) = n - 1 /\ \A i \in 1..(n - 1) : r[i] = s[i + 1]
    BY <1>1, <1>4
<1>6. PICK m \in Nat : m = n - 1 /\ DOMAIN r = 1..m
    BY <1>1, <1>5
<1>7. <<x>> \in Seq(X) /\ Len(<<x>>) = 1 /\ <<x>>[1] = x
    OBVIOUS
<1>8. PICK c : c = <<x>> \o r
    OBVIOUS
<1>9. IsTogether(c, <<x>>, 1, r, m)
  <2>1. IsTogether(<<x>> \o r, <<x>>, Len(<<x>>), r, Len(r))
    BY <1>5, <1>7, TogetherForm
  <2> QED BY <1>5, <1>6, <1>7, <1>8, <2>1
<1>10. c = s
  <2>1. DOMAIN c = 1..n /\ 1 + m = n
    BY <1>1, <1>6, <1>9 DEF IsTogether
  <2>2. ASSUME NEW i \in 1..n
        PROVE  c[i] = s[i]
    <3>1. CASE i = 1
      <4>1. c[1] = <<x>>[1]
        BY <1>9 DEF IsTogether
      <4> QED BY <1>3, <1>7, <3>1, <4>1
    <3>2. CASE i # 1
      <4>1. i - 1 \in 1..m /\ i = 1 + (i - 1) /\ (i - 1) + 1 = i
        BY <1>6, <3>2
      <4>2. c[1 + (i - 1)] = r[i - 1]
        BY <1>9, <4>1 DEF IsTogether
      <4> QED BY <1>5, <1>6, <4>1, <4>2
    <3> QED BY <3>1, <3>2
  <2>3. c \in Seq(X)
    BY <1>5, <1>7, <1>8, ValuesJoined
  <2> QED BY <1>1, <2>1, <2>2, <2>3
<1>11. \A k \in ToSet(r) : \E i \in DOMAIN s : i # 1 /\ k = s[i]
  <2>1. ASSUME NEW j \in 1..m
        PROVE  \E i \in 1..n : i # 1 /\ r[j] = s[i]
    <3>1. j + 1 \in 1..n /\ j + 1 # 1 /\ r[j] = s[j + 1]
      BY <1>5, <1>6
    <3> QED BY <3>1
  <2> QED BY <1>1, <1>6, <2>1 DEF ToSet
<1> QED BY <1>2, <1>3, <1>4, <1>5, <1>8, <1>10, <1>11 DEF Begins

\* A call of a function has no content.
IsCall(m) == m.mark = "item" /\ m.item.kind \in {"function_call", "other"}
\* A message that keeps an item of calls has no content of its own.
CallsEmpty(m) == IsCall(m) => m.content = Str(<<>>)

\* An item restored says what its message says.
LEMMA RestoredSays ==
    ASSUME NEW entries, Known(entries), NEW q, q # "google", NEW m \in Made(q), CallsEmpty(m)
    PROVE  ReadingOf(Restored(m), entries) = HeardIn(m, entries)
<1>1. SpeakerOf(Restored(m)) = Voice(m.role)
    BY RestoredShows
<1>2. PICK item : item = m.item
    OBVIOUS
<1>3. item \in Items
    BY <1>2 DEF Made, MessageTypes
<1>4. PICK r : r = Restored(m)
    OBVIOUS
<1>5. CASE m.mark # "item"
  <2>1. item.calls = <<>>
    BY <1>2, <1>5 DEF Made
  <2>2. Counted(r) = m.content /\ r.calls = <<>>
    <3>1. item.content.form = "str" /\ item.kind = "none"
      BY <1>2, <1>5 DEF Made
    <3>2. r = [kind |-> "message", role |-> m.role, content |-> m.content, calls |-> <<>>]
      BY <1>2, <1>4, <1>5, <3>1 DEF Restored, Item
    <3> QED BY <3>2 DEF Counted
  <2> QED BY <1>1, <1>2, <1>4, <2>1, <2>2 DEF ReadingOf, HeardIn
<1>6. CASE /\ m.mark = "item" /\ r = item
           /\ \/ item.content.form = "null" /\ m.content = Str(<<>>)
              \/ item.kind \in {"function_call", "other"}
  <2>1. item.content.parts = <<>>
    BY <1>2, <1>6 DEF Made
  <2>2. m.content = Str(<<>>)
    BY <1>2, <1>6 DEF CallsEmpty, IsCall
  <2>3. Uttered(Str(<<>>), item.calls, entries) = Uttered(item.content, item.calls, entries)
    BY <2>1, EmptySays
  <2>4. Counted(item) \in {item.content, Str(<<>>)}
    BY DEF Counted
  <2>5. Uttered(Str(<<>>), item.calls, entries) = Uttered(Counted(item), item.calls, entries)
    BY <2>3, <2>4
  <2> QED BY <1>1, <1>2, <1>4, <1>6, <2>2, <2>5 DEF ReadingOf, HeardIn, Reading
<1>7. CASE m.mark = "item" /\ r = [item EXCEPT !.content = m.content]
  <2>1. r.content = m.content /\ r.calls = item.calls /\ r.kind = item.kind
    BY <1>3, <1>7 DEF Items
  <2>2. item.kind = "function_call_output" => m.content.form = "str"
    BY <1>2, <1>7 DEF Made
  <2>3. Counted(r) = m.content
    BY <2>1, <2>2 DEF Counted
  <2> QED BY <1>1, <1>2, <1>4, <2>1, <2>3 DEF ReadingOf, HeardIn
<1> QED BY <1>2, <1>4, <1>5, <1>6, <1>7 DEF Restored

\* Messages given back to their own provider as items say what they said.
LEMMA RestoredAllSays ==
    ASSUME NEW entries, Known(entries), NEW q, q # "google", NEW messages \in Seq(Made(q)),
           \A i \in DOMAIN messages : CallsEmpty(messages[i])
    PROVE  ReadAll(RestoredAll(messages), entries) = Heard(messages, entries)
<1>1. PICK N \in Nat : DOMAIN messages = 1..N
    OBVIOUS
<1>2. ASSUME NEW i \in 1..N
      PROVE  ReadingOf(Restored(messages[i]), entries) = HeardIn(messages[i], entries)
  <2>1. PICK m \in Made(q) : m = messages[i] /\ CallsEmpty(m)
    BY <1>1
  <2>2. ReadingOf(Restored(m), entries) = HeardIn(m, entries)
    BY <2>1, RestoredSays
  <2> QED BY <2>1, <2>2
<1>3. PICK all : all = RestoredAll(messages)
    OBVIOUS
<1>4. all = [i \in 1..N |-> Restored(messages[i])]
    BY <1>1, <1>3 DEF RestoredAll
<1>5. ReadAll(all, entries) = [i \in 1..N |-> ReadingOf(Restored(messages[i]), entries)]
    BY <1>4 DEF ReadAll
<1>6. Heard(messages, entries) = [i \in 1..N |-> HeardIn(messages[i], entries)]
    BY <1>1 DEF Heard
<1> QED BY <1>2, <1>3, <1>5, <1>6

\* One of Gemini's contents says what its message says.
LEMMA ToContentSays ==
    ASSUME NEW entries, NEW m \in Made("google"), m.mark # "system"
    PROVE  ReadingOf(ToContent(m), entries) = HeardIn(m, entries)
<1>1. SpeakerOf(ToContent(m)) = Voice(m.role)
  <2>1. m.role \in {"system", "user", "assistant", "tool", "function"}
    BY DEF Made
  <2> QED BY <2>1, ToContentShows DEF Voice
<1>2. PICK k : k = ToContent(m)
    OBVIOUS
<1>3. Counted(k).parts = m.content.parts /\ k.calls = m.item.calls
    BY <1>2 DEF ToContent, Item, Parts, Counted
<1>4. Uttered(Counted(k), k.calls, entries) = Uttered(m.content, m.item.calls, entries)
    BY <1>3 DEF Uttered
<1> QED BY <1>1, <1>2, <1>4 DEF ReadingOf, HeardIn, Reading

\* Messages given back to Google as contents say what they said.
LEMMA ContentsSay ==
    ASSUME NEW entries, NEW body \in Seq(Made("google")),
           \A i \in DOMAIN body : body[i].mark # "system"
    PROVE  ReadAll([i \in DOMAIN body |-> ToContent(body[i])], entries) = Heard(body, entries)
<1>1. PICK N \in Nat : DOMAIN body = 1..N
    OBVIOUS
<1>2. ASSUME NEW i \in 1..N
      PROVE  ReadingOf(ToContent(body[i]), entries) = HeardIn(body[i], entries)
  <2>1. PICK m \in Made("google") : m = body[i] /\ m.mark # "system"
    BY <1>1
  <2>2. ReadingOf(ToContent(m), entries) = HeardIn(m, entries)
    BY <2>1, ToContentSays
  <2> QED BY <2>1, <2>2
<1>3. PICK all : all = [i \in 1..N |-> ToContent(body[i])]
    OBVIOUS
<1>4. ReadAll(all, entries) = [i \in 1..N |-> ReadingOf(ToContent(body[i]), entries)]
    BY <1>3 DEF ReadAll
<1>5. Heard(body, entries) = [i \in 1..N |-> HeardIn(body[i], entries)]
    BY <1>1 DEF Heard
<1> QED BY <1>1, <1>2, <1>3, <1>4, <1>5

\* A system prompt that is one message, as it was or as the text of that.
LEMMA PromptSays ==
    ASSUME NEW entries, Known(entries), NEW m \in MessageTypes, m.role = "system",
           m.item.calls = <<>>
    PROVE  /\ SystemRead(m.content, entries) = <<HeardIn(m, entries)>>
           /\ IsTextOnly(m) => SystemRead(Str(TextOf(m)), entries) = <<HeardIn(m, entries)>>
<1>1. m.content \in Contents /\ m.content.parts \in Seq(ContentParts) /\ m.content # None
  <2>1. m.content \in Contents
    BY DEF MessageTypes
  <2> QED BY <2>1, ContentsAssumption DEF Contents
<1>2. HeardIn(m, entries) = Reading("system", m.content, <<>>, entries)
    BY DEF HeardIn, Voice
<1>3. SystemRead(m.content, entries) = <<HeardIn(m, entries)>>
    BY <1>1, <1>2 DEF SystemRead
<1>4. ASSUME IsTextOnly(m)
      PROVE  SystemRead(Str(TextOf(m)), entries) = <<HeardIn(m, entries)>>
  <2>1. PICK text \in Text : text = TextOf(m)
    BY TextOfMessage
  <2>2. PICK c \in Contents : c = Str(text) /\ c # None
    <3>1. Str(text) \in Contents
      BY <2>1, StrTyped
    <3> QED BY <3>1, ContentsAssumption
  <2>3. PICK p \in ContentParts : p = Part("text", text) /\ IsTextPart(p) /\ p.text = text
    <3>1. Part("text", text) \in ContentParts
      BY <2>1 DEF Part, ContentParts
    <3> QED BY <3>1 DEF Part, IsTextPart
  <2>4. c.parts = <<p>> /\ c.parts \in Seq(ContentParts)
    BY <2>2, <2>3 DEF Str
  <2>5. <<>> \in Seq(Text)
    OBVIOUS
  <2>6. Uttered(c, <<>>, entries) = Voiced(<<p>>, entries)
    BY <2>4, <2>5, UtteredTyped
  <2>7. Voiced(<<p>>, entries) = Says(p, entries)
    BY <2>3, VoicedFew
  <2>8. Says(p, entries) = Spelled(text, entries)
    BY <2>3, SaysTyped
  <2>9. Voiced(m.content.parts, entries) = Spelled(text, entries)
    <3>1. \A i \in DOMAIN m.content.parts : IsTextPart(m.content.parts[i])
      BY <1>4 DEF IsTextOnly
    <3>2. Voiced(m.content.parts, entries) = Spelled(TextOfParts(m.content.parts), entries)
      BY <1>1, <3>1, VoicedText
    <3> QED BY <2>1, <3>2 DEF TextOf
  <2>10. Uttered(m.content, <<>>, entries) = Voiced(m.content.parts, entries)
    BY <1>1, <2>5, UtteredTyped
  <2>11. HeardIn(m, entries) = Reading("system", c, <<>>, entries)
    BY <1>2, <2>6, <2>7, <2>8, <2>9, <2>10 DEF Reading
  <2> QED BY <2>1, <2>2, <2>11 DEF SystemRead
<1> QED BY <1>3, <1>4

\* The first value alone is selected, or the others are.
LEMMA FirstApart ==
    ASSUME NEW X, NEW x \in X, NEW r \in Seq(X), NEW S
    PROVE  /\ x \in S /\ (\A y \in ToSet(r) : y \notin S) => Only(<<x>> \o r, S) = <<x>>
           /\ x \notin S /\ (\A y \in ToSet(r) : y \in S) => Only(<<x>> \o r, S) = r
<1>1. PICK one : one = <<x>>
    OBVIOUS
<1>2. one \in Seq(X) /\ ToSet(one) = {x}
    BY <1>1, OneValue
<1>3. Only(one \o r, S) = Only(one, S) \o Only(r, S)
    BY <1>2, OnlyTwo
<1>4. (x \in S => Only(one, S) = one) /\ (x \notin S => Only(one, S) = <<>>)
  <2>1. (\A y \in ToSet(one) : y \in S) => Only(one, S) = one
    BY <1>2, OnlyAllOrNone
  <2>2. (\A y \in ToSet(one) : y \notin S) => Only(one, S) = <<>>
    BY <1>2, OnlyAllOrNone
  <2> QED BY <1>2, <2>1, <2>2
<1>5. (\A y \in ToSet(r) : y \in S) => Only(r, S) = r
    BY OnlyAllOrNone
<1>6. (\A y \in ToSet(r) : y \notin S) => Only(r, S) = <<>>
    BY OnlyAllOrNone
<1>7. one \o <<>> = one /\ <<>> \o r = r
    BY <1>2
<1> QED BY <1>1, <1>3, <1>4, <1>5, <1>6, <1>7

\* The system prompt that was given apart, and the other messages.
IsFirst(x, r, messages, mark) ==
    /\ messages = <<x>> \o r /\ x = Head(messages) /\ r = Tail(messages)
    /\ x.mark = mark /\ IsTextOnly(x)
    /\ \A m \in ToSet(r) : m.mark # mark /\ CallsEmpty(m)

\* A message with the mark of a system prompt, if any, is the first.
LEMMA MarkedFirst ==
    ASSUME NEW q, NEW messages \in Seq(Made(q)), WellMarked(messages),
           NEW mark \in {"system", "instructions"}
    PROVE  /\ \A m \in ToSet(messages) : CallsEmpty(m)
           /\ \/ \A m \in ToSet(messages) : m.mark # mark
              \/ \E x \in Made(q) : \E r \in Seq(Made(q)) : IsFirst(x, r, messages, mark)
<1>1. PICK N \in Nat : DOMAIN messages = 1..N
    OBVIOUS
<1>2. \A i \in 1..N : CallsEmpty(messages[i])
    BY <1>1 DEF WellMarked, CallsEmpty, IsCall
<1>3. ToSet(messages) = {messages[i] : i \in 1..N}
    BY <1>1 DEF ToSet
<1>4. \A i \in 1..N : messages[i].mark = mark => i = 1 /\ IsTextOnly(messages[i])
    BY <1>1 DEF WellMarked
<1>5. CASE \A i \in 1..N : messages[i].mark # mark
    BY <1>2, <1>3, <1>5
<1>6. CASE \E i \in 1..N : messages[i].mark = mark
  <2>1. messages # <<>> /\ 1 \in 1..N /\ messages[1].mark = mark /\ IsTextOnly(messages[1])
    BY <1>1, <1>4, <1>6
  <2>2. PICK x \in Made(q), r \in Seq(Made(q)) : Begins(x, r, messages)
    BY <2>1, FirstAndRest
  <2>3. ASSUME NEW m \in ToSet(r)
        PROVE  m.mark # mark /\ CallsEmpty(m)
    <3>1. PICK i \in 1..N : i # 1 /\ m = messages[i]
      BY <1>1, <2>2, <2>3 DEF Begins
    <3> QED BY <1>2, <1>4, <3>1
  <2>4. IsFirst(x, r, messages, mark)
    BY <2>1, <2>2, <2>3 DEF IsFirst, Begins
  <2> QED BY <1>2, <1>3, <2>2, <2>4
<1> QED BY <1>5, <1>6

\* What a system prompt says, and what the others say.
LEMMA FirstSays ==
    ASSUME NEW entries, Known(entries), NEW q, NEW x \in Made(q), NEW r \in Seq(Made(q)),
           NEW messages, NEW mark \in {"system", "instructions"}, IsFirst(x, r, messages, mark)
    PROVE  /\ Heard(messages, entries) = <<HeardIn(x, entries)>> \o Heard(r, entries)
           /\ SystemRead(x.content, entries) = <<HeardIn(x, entries)>>
           /\ SystemRead(Str(TextOf(x)), entries) = <<HeardIn(x, entries)>>
<1>1. x \in MessageTypes /\ x.role = "system" /\ x.item.calls = <<>>
    BY DEF IsFirst, Made
<1>2. PICK one : one = <<x>>
    OBVIOUS
<1>3. one \in Seq(MessageTypes) /\ r \in Seq(MessageTypes)
    BY <1>1, <1>2, MadeTyped
<1>4. Heard(one \o r, entries) = Heard(one, entries) \o Heard(r, entries)
    BY <1>3, HeardTwo
<1>5. Heard(<<x>>, entries) = <<HeardIn(x, entries)>>
    BY HeardOne
<1>6. messages = one \o r /\ IsTextOnly(x)
    BY <1>2 DEF IsFirst
<1>7. /\ SystemRead(x.content, entries) = <<HeardIn(x, entries)>>
      /\ IsTextOnly(x) => SystemRead(Str(TextOf(x)), entries) = <<HeardIn(x, entries)>>
    BY <1>1, PromptSays
<1> QED BY <1>2, <1>4, <1>5, <1>6, <1>7

\* Values of a sequence by their indices.
LEMMA ByIndex ==
    ASSUME NEW X, NEW s \in Seq(X)
    PROVE  \A i \in DOMAIN s : s[i] \in ToSet(s)
BY DEF ToSet

\* The first value and the others are among the values.
LEMMA FirstAmong ==
    ASSUME NEW X, NEW x \in X, NEW r \in Seq(X), NEW s, s = <<x>> \o r
    PROVE  ToSet(s) = {x} \union ToSet(r)
<1>1. PICK one : one = <<x>>
    OBVIOUS
<1>2. one \in Seq(X) /\ ToSet(one) = {x}
    BY <1>1, OneValue
<1>3. ToSet(one \o r) = ToSet(one) \union ToSet(r)
    BY <1>2, ValuesJoined
<1> QED BY <1>1, <1>2, <1>3

\* What goes to OpenAI.
LEMMA OpenAISays ==
    ASSUME NEW entries, Known(entries), NEW req, req.messages \in Seq(Made("openai")),
           WellMarked(req.messages), NEW kwargs, kwargs = ToKwargsNative("openai", req)
    PROVE  /\ Readings(kwargs, entries) = Heard(req.messages, entries)
           /\ kwargs.settings = req.extra.settings
<1>1. PICK ms \in Seq(Made("openai")) : ms = req.messages
    OBVIOUS
<1>2. kwargs.system = None /\ kwargs.turns = RestoredAll(ms)
      /\ kwargs.settings = req.extra.settings
    BY <1>1 DEF ToKwargsNative, Kwargs
<1>3. \A i \in DOMAIN ms : CallsEmpty(ms[i])
  <2>1. \A m \in ToSet(ms) : CallsEmpty(m)
    BY <1>1, MarkedFirst
  <2> QED BY <2>1, ByIndex
<1>4. ReadAll(RestoredAll(ms), entries) = Heard(ms, entries)
    BY <1>3, RestoredAllSays
<1>5. PICK h \in Seq(Voices) : h = Heard(ms, entries)
  <2>1. ms \in Seq(MessageTypes)
    BY MadeTyped
  <2> QED BY <2>1, HeardTyped
<1>6. SystemRead(None, entries) = <<>> /\ <<>> \o h = h
    BY DEF SystemRead
<1> QED BY <1>1, <1>2, <1>4, <1>5, <1>6, ReadingsForm

\* What goes to Anthropic.
LEMMA AnthropicSays ==
    ASSUME NEW entries, Known(entries), NEW req, req.messages \in Seq(Made("anthropic")),
           WellMarked(req.messages), NEW kwargs, kwargs = ToAnthropicNative(req)
    PROVE  /\ Readings(kwargs, entries) = Heard(req.messages, entries)
           /\ kwargs.settings = req.extra.settings
<1>1. PICK ms \in Seq(Made("anthropic")) : ms = req.messages
    OBVIOUS
<1>2. PICK S : S = {m \in ToSet(ms) : IsSystem(m)}
    OBVIOUS
<1>3. PICK B : B = ToSet(ms) \ S
    OBVIOUS
<1>4. /\ kwargs.system = SystemOf(Only(ms, S)) /\ kwargs.turns = RestoredAll(Only(ms, B))
      /\ kwargs.settings = req.extra.settings
    BY <1>1, <1>2, <1>3 DEF ToAnthropicNative, Kwargs
<1>5. \A m \in ToSet(ms) : m \in S <=> m.mark = "system"
  <2>1. \A i \in DOMAIN ms : ms[i].mark = "none" => ms[i].role # "system"
    BY <1>1 DEF WellMarked
  <2>2. \A m \in ToSet(ms) : m.mark = "none" => m.role # "system"
    BY <2>1 DEF ToSet
  <2> QED BY <1>2, <2>2 DEF IsSystem
<1>6. \A m \in ToSet(ms) : CallsEmpty(m)
    BY <1>1, MarkedFirst
<1>7. CASE \A m \in ToSet(ms) : m.mark # "system"
  <2>1. Only(ms, S) = <<>> /\ Only(ms, B) = ms
    <3>1. \A m \in ToSet(ms) : m \notin S /\ m \in B
      BY <1>3, <1>5, <1>7
    <3> QED BY <3>1, OnlyAllOrNone
  <2>2. ReadAll(RestoredAll(ms), entries) = Heard(ms, entries)
    <3>1. \A i \in DOMAIN ms : CallsEmpty(ms[i])
      BY <1>6, ByIndex
    <3> QED BY <3>1, RestoredAllSays
  <2>3. PICK h \in Seq(Voices) : h = Heard(ms, entries)
    <3>1. ms \in Seq(MessageTypes)
      BY MadeTyped
    <3> QED BY <3>1, HeardTyped
  <2>4. SystemOf(<<>>) = None /\ SystemRead(None, entries) = <<>> /\ <<>> \o h = h
    <3>1. Len(<<>>) # 1
      OBVIOUS
    <3> QED BY <2>3, <3>1 DEF SystemRead, SystemOf
  <2> QED BY <1>1, <1>4, <2>1, <2>2, <2>3, <2>4, ReadingsForm
<1>8. CASE \E x \in Made("anthropic") : \E r \in Seq(Made("anthropic")) : IsFirst(x, r, ms, "system")
  <2>1. PICK x \in Made("anthropic"), r \in Seq(Made("anthropic")) : IsFirst(x, r, ms, "system")
    BY <1>8
  <2>2. x \in ToSet(ms) /\ ToSet(r) \subseteq ToSet(ms) /\ ms = <<x>> \o r
    <3>1. ms = <<x>> \o r
      BY <2>1 DEF IsFirst
    <3>2. ToSet(ms) = {x} \union ToSet(r)
      BY <2>1, <3>1, FirstAmong
    <3> QED BY <3>1, <3>2
  <2>3. x \in S /\ x \notin B /\ \A m \in ToSet(r) : m \notin S /\ m \in B
    BY <1>3, <1>5, <2>1, <2>2 DEF IsFirst
  <2>4. Only(ms, S) = <<x>>
    BY <2>1, <2>2, <2>3, FirstApart
  <2>5. Only(ms, B) = r
    BY <2>1, <2>2, <2>3, FirstApart
  <2>6. SystemOf(<<x>>) = x.content
    <3>1. <<x>> # <<>> /\ Len(<<x>>) = 1 /\ <<x>>[1] = x
      OBVIOUS
    <3>2. x.mark = "system"
      BY <2>1 DEF IsFirst
    <3> QED BY <3>1, <3>2 DEF SystemOf
  <2>7. ReadAll(RestoredAll(r), entries) = Heard(r, entries)
    <3>1. \A i \in DOMAIN r : CallsEmpty(r[i])
      BY <2>1, ByIndex DEF IsFirst
    <3> QED BY <2>1, <3>1, RestoredAllSays
  <2>8. /\ Heard(ms, entries) = <<HeardIn(x, entries)>> \o Heard(r, entries)
        /\ SystemRead(x.content, entries) = <<HeardIn(x, entries)>>
    BY <2>1, FirstSays
  <2> QED BY <1>1, <1>4, <2>4, <2>5, <2>6, <2>7, <2>8, ReadingsForm
<1> QED BY <1>1, <1>7, <1>8, MarkedFirst

\* What goes to the Responses API.
LEMMA ResponsesSays ==
    ASSUME NEW entries, Known(entries), NEW req, req.messages \in Seq(Made("openai-responses")),
           WellMarked(req.messages), NEW kwargs, kwargs = ToResponsesNative(req)
    PROVE  /\ Readings(kwargs, entries) = Heard(req.messages, entries)
           /\ kwargs.settings = req.extra.settings
<1> DEFINE Y == Made("openai-responses")
<1>1. PICK ms \in Seq(Y) : ms = req.messages
    OBVIOUS
<1>2. \A m \in ToSet(ms) : CallsEmpty(m)
    BY <1>1, MarkedFirst
<1>3. CASE \A m \in ToSet(ms) : m.mark # "instructions"
  <2>1. ~(ms # <<>> /\ Head(ms).mark = "instructions")
    <3>1. ms # <<>> => Head(ms) \in ToSet(ms)
      BY <1>1 DEF ToSet
    <3> QED BY <1>3, <3>1
  <2>2. /\ kwargs.system = None /\ kwargs.turns = RestoredAll(ms)
        /\ kwargs.settings = req.extra.settings
    BY <1>1, <2>1 DEF ToResponsesNative, Kwargs
  <2>3. ReadAll(RestoredAll(ms), entries) = Heard(ms, entries)
    <3>1. \A i \in DOMAIN ms : CallsEmpty(ms[i])
      BY <1>1, <1>2, ByIndex
    <3> QED BY <1>1, <3>1, RestoredAllSays
  <2>4. PICK h \in Seq(Voices) : h = Heard(ms, entries)
    <3>1. ms \in Seq(MessageTypes)
      BY <1>1, MadeTyped
    <3> QED BY <3>1, HeardTyped
  <2>5. SystemRead(None, entries) = <<>> /\ <<>> \o h = h
    BY <2>4 DEF SystemRead
  <2> QED BY <1>1, <2>2, <2>3, <2>4, <2>5, ReadingsForm
<1>4. CASE \E x \in Y : \E r \in Seq(Y) : IsFirst(x, r, ms, "instructions")
  <2>1. PICK x \in Y, r \in Seq(Y) : IsFirst(x, r, ms, "instructions")
    BY <1>4
  <2>2. ms # <<>> /\ Head(ms) = x /\ Tail(ms) = r /\ x.mark = "instructions"
    <3>1. <<x>> \o r # <<>>
      BY <2>1
    <3> QED BY <2>1, <3>1 DEF IsFirst
  <2>3. /\ kwargs.system = Str(TextOf(x)) /\ kwargs.turns = RestoredAll(r)
        /\ kwargs.settings = req.extra.settings
    BY <1>1, <2>2 DEF ToResponsesNative, Kwargs
  <2>4. ReadAll(RestoredAll(r), entries) = Heard(r, entries)
    <3>1. \A i \in DOMAIN r : CallsEmpty(r[i])
      BY <2>1, ByIndex DEF IsFirst
    <3> QED BY <2>1, <3>1, RestoredAllSays
  <2>5. /\ Heard(ms, entries) = <<HeardIn(x, entries)>> \o Heard(r, entries)
        /\ SystemRead(Str(TextOf(x)), entries) = <<HeardIn(x, entries)>>
    BY <2>1, FirstSays
  <2> QED BY <1>1, <2>3, <2>4, <2>5, ReadingsForm
<1> QED BY <1>1, <1>3, <1>4, MarkedFirst

\* The system prompt is told from Gemini's contents by its mark.
LEMMA PristineSystem ==
    ASSUME NEW kwargs, IsArgs("google", kwargs), NEW ms, ms = MessagesOf("google", kwargs)
    PROVE  Only(ms, {m \in ToSet(ms) : m.mark = "system"}) = SystemMessages(kwargs.system, "system")
<1> DEFINE Y == Made("google")
<1>1. PICK P \in Seq(Y) : P = SystemMessages(kwargs.system, "system")
  <2>1. kwargs.system \in Contents \union {None}
    BY DEF IsArgs
  <2> QED BY <2>1, SystemMade
<1>2. PICK G \in Seq(Y) : G = Grouped(kwargs.turns) /\ \A m \in ToSet(G) : IsContent(m)
  <2>1. kwargs.turns \in Seq(Items) /\ \A i \in DOMAIN kwargs.turns : Accepted("google", kwargs.turns[i])
    <3>1. kwargs.turns \in Seq(Items)
      BY DEF IsArgs
    <3>2. \A i \in DOMAIN kwargs.turns : kwargs.turns[i] \in Items
      BY <3>1
    <3> QED BY <3>1, <3>2 DEF IsArgs, Accepted
  <2>2. Grouped(kwargs.turns) \in Seq(Y)
    BY <2>1, GroupedMade
  <2>3. Known({})
    BY DEF Known
  <2>4. \A m \in ToSet(Grouped(kwargs.turns)) : IsContent(m)
    BY <2>1, <2>3, GroupedSays
  <2> QED BY <2>2, <2>4
<1>3. ms = P \o G
  <2>1. "google" # "openai" /\ "google" # "anthropic" /\ "google" # "openai-responses"
    OBVIOUS
  <2> QED BY <1>1, <1>2, <2>1 DEF MessagesOf
<1>4. ToSet(ms) = ToSet(P) \union ToSet(G)
  <2>1. ToSet(P \o G) = ToSet(P) \union ToSet(G)
    BY ValuesJoined
  <2> QED BY <1>3, <2>1
<1>5. PICK S : S = {m \in ToSet(ms) : m.mark = "system"}
    OBVIOUS
<1>6. \A m \in ToSet(P) : m \in S
  <2>1. \A m \in ToSet(P) : m.mark = "system"
    <3>1. CASE kwargs.system = None
      <4>1. P = <<>> /\ ToSet(<<>>) = {}
        BY <1>1, <3>1 DEF SystemMessages, ToSet
      <4> QED BY <4>1
    <3>2. CASE kwargs.system # None
      <4>1. PICK k : k = Message("system", kwargs.system, "system", NoItem)
        OBVIOUS
      <4>2. P = <<k>> /\ ToSet(<<k>>) = {k} /\ k.mark = "system"
        BY <1>1, <3>2, <4>1 DEF SystemMessages, Message, ToSet
      <4> QED BY <4>2
    <3> QED BY <3>1, <3>2
  <2> QED BY <1>4, <1>5, <2>1
<1>7. \A m \in ToSet(G) : m \notin S
    BY <1>2, <1>5 DEF IsContent
<1>8. Only(P \o G, S) = Only(P, S) \o Only(G, S)
  <2>1. PICK X : P \in Seq(X) /\ G \in Seq(X)
    BY <1>1, <1>2
  <2> QED BY <2>1, OnlyTwo
<1>9. Only(P, S) = P
    BY <1>1, <1>6, OnlyAllOrNone
<1>10. Only(G, S) = <<>>
    BY <1>2, <1>7, OnlyAllOrNone
<1>11. P \o <<>> = P
    BY <1>1
<1> QED BY <1>1, <1>3, <1>5, <1>8, <1>9, <1>10, <1>11

\* What goes to Gemini.
LEMMA GoogleSays ==
    ASSUME NEW entries, Known(entries), NEW req, MadeOf("google", req),
           WellMarked(req.messages), NEW kwargs, kwargs = ToGoogleNative(req)
    PROVE  /\ Readings(kwargs, entries) \in Seq(Voices)
           /\ SaysTheSame(Readings(kwargs, entries), Heard(req.messages, entries))
           /\ kwargs.settings = req.extra.settings
<1>1. PICK Y : Y = Made("google")
    OBVIOUS
<1>2. PICK ms \in Seq(Y) : ms = req.messages
    BY <1>1 DEF MadeOf
<1>3. PICK K : /\ IsArgs("google", K) /\ req.extra = Extra(K)
               /\ req.pristine = MessagesOf("google", K)
    BY DEF MadeOf
<1>4. PICK old : old = MessagesOf("google", K)
    OBVIOUS
<1>5. /\ req.extra.system = K.system /\ req.extra.turns = K.turns
      /\ req.extra.shape = K.shape
    BY <1>3 DEF Extra
<1>6. CASE ms = old
  <2>1. kwargs = Kwargs(req.model, K.system, K.turns, K.shape, req.extra.settings)
    BY <1>2, <1>3, <1>4, <1>5, <1>6 DEF ToGoogleNative, MessagesUnchanged
  <2>2. /\ kwargs.system = K.system /\ kwargs.turns = K.turns
        /\ kwargs.settings = req.extra.settings
    BY <2>1 DEF Kwargs
  <2>3. Readings(kwargs, entries) = Readings(K, entries)
    BY <2>2 DEF Readings
  <2>4. "google" \in Providers
    BY DEF Providers
  <2>5. /\ Readings(K, entries) \in Seq(Voices)
        /\ SaysTheSame(Heard(old, entries), Readings(K, entries))
    BY <1>3, <1>4, <2>4, ParsedSays
  <2> QED BY <1>2, <1>6, <2>2, <2>3, <2>5 DEF SaysTheSame
<1>7. CASE ms # old
  <2>1. PICK S : S = {m \in ToSet(ms) : m.mark = "system"}
    OBVIOUS
  <2>2. PICK system : system = Only(ms, S)
    OBVIOUS
  <2>3. PICK B : B = ToSet(ms) \ ToSet(system)
    OBVIOUS
  <2>4. PICK body : body = Only(ms, B)
    OBVIOUS
  <2>5. Only(old, {m \in ToSet(old) : m.mark = "system"}) = SystemMessages(K.system, "system")
    BY <1>3, <1>4, PristineSystem
  <2>6. kwargs = Kwargs(req.model,
                        IF system = SystemMessages(K.system, "system") THEN K.system
                        ELSE IF system = <<>> THEN None ELSE Paragraphs(system),
                        [i \in DOMAIN body |-> ToContent(body[i])], "list", req.extra.settings)
    BY <1>2, <1>3, <1>4, <1>5, <1>7, <2>1, <2>2, <2>3, <2>4, <2>5
       DEF ToGoogleNative, MessagesUnchanged
  <2>7. /\ kwargs.system = IF system = SystemMessages(K.system, "system") THEN K.system
                           ELSE IF system = <<>> THEN None ELSE Paragraphs(system)
        /\ kwargs.turns = [i \in DOMAIN body |-> ToContent(body[i])]
        /\ kwargs.settings = req.extra.settings
    BY <2>6 DEF Kwargs
  <2>8. ToSet(system) = S
    <3>1. ToSet(system) = ToSet(ms) \intersect S
      BY <1>2, <2>2, OnlyValues
    <3> QED BY <2>1, <3>1
  <2>9. /\ body \in Seq(Made("google")) /\ \A i \in DOMAIN body : body[i].mark # "system"
        /\ SystemRead(kwargs.system, entries) \o Heard(body, entries) = Heard(ms, entries)
    <3>1. CASE \A m \in ToSet(ms) : m.mark # "system"
      <4>1. \A m \in ToSet(ms) : m \notin S /\ m \in B
        BY <2>1, <2>3, <2>8, <3>1
      <4>2. system = <<>>
        BY <1>2, <2>2, <4>1, OnlyAllOrNone
      <4>3. body = ms
        BY <1>2, <2>4, <4>1, OnlyAllOrNone
      <4>4. kwargs.system = None
        <5>1. <<>> = SystemMessages(K.system, "system") => K.system = None
          BY DEF SystemMessages
        <5> QED BY <2>7, <4>2, <5>1
      <4>5. PICK h \in Seq(Voices) : h = Heard(ms, entries)
        <5>1. ms \in Seq(MessageTypes)
          BY <1>1, <1>2, MadeTyped
        <5> QED BY <5>1, HeardTyped
      <4>6. SystemRead(None, entries) = <<>> /\ <<>> \o h = h
        BY <4>5 DEF SystemRead
      <4>7. \A i \in DOMAIN ms : ms[i].mark # "system"
        BY <1>2, <3>1, ByIndex
      <4> QED BY <1>1, <1>2, <4>3, <4>4, <4>5, <4>6, <4>7
    <3>2. CASE \E x \in Y : \E r \in Seq(Y) : IsFirst(x, r, ms, "system")
      <4>1. PICK x \in Y, r \in Seq(Y) : IsFirst(x, r, ms, "system")
        BY <3>2
      <4>2. x \in ToSet(ms) /\ ToSet(r) \subseteq ToSet(ms) /\ ms = <<x>> \o r
        <5>1. ms = <<x>> \o r
          BY <4>1 DEF IsFirst
        <5>2. ToSet(ms) = {x} \union ToSet(r)
          BY <4>1, <5>1, FirstAmong
        <5> QED BY <5>1, <5>2
      <4>3. x \in S /\ x \notin B /\ \A m \in ToSet(r) : m \notin S /\ m \in B
        BY <2>1, <2>3, <2>8, <4>1, <4>2 DEF IsFirst
      <4>4. system = <<x>>
        BY <2>2, <4>1, <4>2, <4>3, FirstApart
      <4>5. body = r
        BY <2>4, <4>1, <4>2, <4>3, FirstApart
      <4>6. /\ Heard(ms, entries) = <<HeardIn(x, entries)>> \o Heard(r, entries)
            /\ SystemRead(x.content, entries) = <<HeardIn(x, entries)>>
            /\ SystemRead(Str(TextOf(x)), entries) = <<HeardIn(x, entries)>>
        BY <1>1, <4>1, FirstSays
      <4>7. SystemRead(kwargs.system, entries) = <<HeardIn(x, entries)>>
        <5>1. CASE system = SystemMessages(K.system, "system")
          <6>1. K.system \in Contents \union {None}
            BY <1>3 DEF IsArgs
          <6>2. Heard(system, entries) = SystemRead(K.system, entries)
            BY <5>1, <6>1, SystemHeard
          <6>3. Heard(<<x>>, entries) = <<HeardIn(x, entries)>>
            BY HeardOne
          <6> QED BY <2>7, <4>4, <5>1, <6>2, <6>3
        <5>2. CASE system # SystemMessages(K.system, "system")
          <6>1. Paragraphs(<<x>>) = Str(TextOf(x))
            <7>1. PICK p : p = Part("text", TextOf(x))
              OBVIOUS
            <7>2. [i \in DOMAIN <<x>> |-> Part("text", TextOf(<<x>>[i]))] = <<p>>
              <8>1. DOMAIN <<x>> = 1..1 /\ <<x>>[1] = x
                OBVIOUS
              <8>2. \A i \in 1..1 : Part("text", TextOf(<<x>>[i])) = p
                BY <7>1, <8>1
              <8>3. [i \in DOMAIN <<x>> |-> Part("text", TextOf(<<x>>[i]))] = [i \in 1..1 |-> p]
                BY <8>1, <8>2
              <8>4. [i \in 1..1 |-> p] = <<p>>
                OBVIOUS
              <8> QED BY <8>3, <8>4
            <7> QED BY <7>1, <7>2 DEF Paragraphs, Str
          <6>2. <<x>> # <<>>
            OBVIOUS
          <6>3. kwargs.system = Str(TextOf(x))
            BY <2>7, <4>4, <5>2, <6>1, <6>2
          <6> QED BY <4>6, <6>3
        <5> QED BY <5>1, <5>2
      <4>8. \A i \in DOMAIN r : r[i].mark # "system"
        BY <4>1, ByIndex DEF IsFirst
      <4> QED BY <1>1, <4>1, <4>5, <4>6, <4>7, <4>8
    <3>3. ms \in Seq(Made("google")) /\ WellMarked(ms)
      BY <1>1, <1>2
    <3> QED BY <1>1, <3>1, <3>2, <3>3, MarkedFirst
  <2>10. ReadAll(kwargs.turns, entries) = Heard(body, entries)
    BY <2>7, <2>9, ContentsSay
  <2>11. Readings(kwargs, entries) = Heard(ms, entries)
    BY <2>9, <2>10, ReadingsForm
  <2>12. Heard(ms, entries) \in Seq(Voices)
    <3>1. ms \in Seq(MessageTypes)
      BY <1>1, <1>2, MadeTyped
    <3> QED BY <3>1, HeardTyped
  <2> QED BY <1>2, <2>7, <2>11, <2>12 DEF SaysTheSame
<1> QED BY <1>6, <1>7

\* A request says to the provider it came for what its messages say.
LEMMA NativeSays ==
    ASSUME NEW entries, Known(entries), NEW q \in Providers, NEW req, MadeOf(q, req),
           WellMarked(req.messages), NEW kwargs, kwargs = ToKwargsNative(q, req)
    PROVE  /\ Readings(kwargs, entries) \in Seq(Voices)
           /\ SaysTheSame(Readings(kwargs, entries), Heard(req.messages, entries))
           /\ kwargs.settings = req.extra.settings
<1>1. req.messages \in Seq(Made(q))
    BY DEF MadeOf
<1>2. Heard(req.messages, entries) \in Seq(Voices)
  <2>1. req.messages \in Seq(MessageTypes)
    BY <1>1, MadeTyped
  <2> QED BY <2>1, HeardTyped
<1>3. CASE q = "openai"
  <2>1. /\ Readings(kwargs, entries) = Heard(req.messages, entries)
        /\ kwargs.settings = req.extra.settings
    BY <1>1, <1>3, OpenAISays
  <2> QED BY <1>2, <2>1 DEF SaysTheSame
<1>4. CASE q = "anthropic"
  <2>1. kwargs = ToAnthropicNative(req)
    BY <1>4 DEF ToKwargsNative
  <2>2. /\ Readings(kwargs, entries) = Heard(req.messages, entries)
        /\ kwargs.settings = req.extra.settings
    BY <1>1, <1>4, <2>1, AnthropicSays
  <2> QED BY <1>2, <2>2 DEF SaysTheSame
<1>5. CASE q = "google"
  <2>1. kwargs = ToGoogleNative(req)
    BY <1>5 DEF ToKwargsNative
  <2> QED BY <1>5, <2>1, GoogleSays
<1>6. CASE q = "openai-responses"
  <2>1. kwargs = ToResponsesNative(req)
    BY <1>6 DEF ToKwargsNative
  <2>2. /\ Readings(kwargs, entries) = Heard(req.messages, entries)
        /\ kwargs.settings = req.extra.settings
    BY <1>1, <1>6, <2>1, ResponsesSays
  <2> QED BY <1>2, <2>2 DEF SaysTheSame
<1> QED BY <1>3, <1>4, <1>5, <1>6 DEF Providers

(***************************************************************************)
(* Turns of one role in a row, merged                                      *)
(***************************************************************************)
\* Turns that are said as they are: none of the system's, no two of a role in a row.
Settled(turns) == turns \in Seq(Voices) /\ SystemSaid(turns) = <<>> /\ TurnsSaid(turns) = turns

\* They stay so with one more reading.
LEMMA SettledMore ==
    ASSUME NEW turns, Settled(turns), NEW r \in Voices
    PROVE  Settled(WithReading(turns, r))
<1>1. PICK t \in Seq(Voices) : t = turns /\ SystemSaid(t) = <<>> /\ TurnsSaid(t) = t
    BY DEF Settled
<1>2. CASE r.role = "system"
    BY <1>2 DEF WithReading
<1>3. CASE r.role # "system" /\ (t = <<>> \/ Last(t).role # r.role)
  <2>1. WithReading(t, r) = Append(t, r) /\ Append(t, r) \in Seq(Voices)
    BY <1>1, <1>3, ReadingOpens
  <2>2. /\ SystemSaid(Append(t, r)) = SystemSaid(t) \o SystemWords(r)
        /\ TurnsSaid(Append(t, r)) = WithReading(TurnsSaid(t), r)
    BY <1>1, SaidAppended
  <2>3. SystemWords(r) = <<>> /\ <<>> \o <<>> = <<>>
    BY <1>3 DEF SystemWords
  <2> QED BY <1>1, <2>1, <2>2, <2>3 DEF Settled
<1>4. CASE r.role # "system" /\ ~(t = <<>> \/ Last(t).role # r.role)
  <2>1. PICK n \in Nat \ {0}, F \in Seq(Voices) : Ends(t, F, n, Voices)
    BY <1>1, <1>4, LastOfMany
  <2>2. PICK x \in Voices : x = t[n] /\ x.role = r.role /\ t = Append(F, x)
    BY <1>4, <2>1 DEF Ends
  <2>3. x = [role |-> r.role, says |-> x.says] /\ x.says \in Seq(Utterances)
    BY <2>2 DEF Voices
  <2>4. r = [role |-> r.role, says |-> r.says] /\ r.says \in Seq(Utterances)
        /\ r.role \in Roles \union ItemKinds
    BY DEF Voices
  <2>5. PICK y : y = [role |-> r.role, says |-> x.says \o r.says]
    OBVIOUS
  <2>6. ASSUME NEW s \in Seq(Voices)
        PROVE  /\ WithReading(s, y) = WithReading(WithReading(s, x), r)
               /\ y \in Voices
    <3>1. InOne(y, x, r)
      BY <2>2, <2>5 DEF InOne
    <3> QED BY <3>1, InOneReading
  <2>7. y \in Voices /\ SystemWords(y) = <<>> /\ SystemWords(x) = <<>>
    <3>1. y \in Voices
      BY <1>1, <2>6
    <3> QED BY <1>4, <2>2, <2>5, <3>1 DEF SystemWords
  <2>8. WithReading(t, r) = Append(F, y)
    <3>1. IsLast(t, n, r)
      BY <1>4, <2>1, <2>2 DEF Ends, IsLast
    <3>2. WithReading(t, r) = GoneOn(t, n, r)
      BY <1>1, <3>1, ReadingGoesOn
    <3>3. GoneOn(t, n, r) = [t EXCEPT ![n] = y]
      BY <2>2, <2>5 DEF GoneOn
    <3>4. [t EXCEPT ![n] = y] = Append(F, y)
      BY <2>1, <2>7 DEF Ends
    <3> QED BY <3>2, <3>3, <3>4
  <2>9. /\ Append(F, y) \in Seq(Voices)
        /\ SystemSaid(Append(F, y)) = SystemSaid(F) \o SystemWords(y)
        /\ TurnsSaid(Append(F, y)) = WithReading(TurnsSaid(F), y)
        /\ SystemSaid(F) \in Seq(Utterances) /\ TurnsSaid(F) \in Seq(Voices)
    BY <2>1, <2>7, SaidAppended
  <2>10. /\ SystemSaid(Append(F, x)) = SystemSaid(F) \o SystemWords(x)
         /\ TurnsSaid(Append(F, x)) = WithReading(TurnsSaid(F), x)
    BY <2>1, <2>2, SaidAppended
  <2>11. SystemSaid(Append(F, y)) = <<>>
    BY <1>1, <2>2, <2>7, <2>9, <2>10
  <2>12. TurnsSaid(Append(F, y)) = Append(F, y)
    <3>1. TurnsSaid(Append(F, y)) = WithReading(WithReading(TurnsSaid(F), x), r)
      BY <2>6, <2>9
    <3>2. WithReading(TurnsSaid(F), x) = t
      BY <1>1, <2>2, <2>10
    <3> QED BY <2>8, <3>1, <3>2
  <2> QED BY <1>1, <2>8, <2>9, <2>11, <2>12 DEF Settled
<1> QED BY <1>1, <1>2, <1>3, <1>4 DEF Settled

\* What readings say is settled, also with the user's turn that is put first.
LEMMA TurnsSettled ==
    ASSUME NEW R \in Seq(Voices), NEW c \in Voices, c.role = "user"
    PROVE  Settled(TurnsSaid(R)) /\ Settled(Opened(c, TurnsSaid(R)))
<1>1. PICK N \in Nat : N = Len(R) /\ DOMAIN R = 1..N
    OBVIOUS
<1>2. PICK sys, turns :
          /\ Tells(sys, turns, R, N)
          /\ SystemSaid(R) = sys[N] /\ TurnsSaid(R) = turns[N]
          /\ \A n \in 0..N : sys[n] \in Seq(Utterances) /\ turns[n] \in Seq(Voices)
  <2>1. \E sys, turns :
          /\ Tells(sys, turns, R, N)
          /\ SystemSaid(R) = sys[N] /\ TurnsSaid(R) = turns[N]
          /\ \A n \in 0..N : sys[n] \in Seq(Utterances) /\ turns[n] \in Seq(Voices)
    BY <1>1, SaidSteps
  <2> QED BY <2>1
<1>3. Settled(<<>>)
  <2>1. <<>> \in Seq(Voices)
    OBVIOUS
  <2> QED BY <2>1, SaidByNone DEF Settled
<1> DEFINE P(n) == Settled(turns[n]) /\ Settled(Opened(c, turns[n]))
           I == {n \in Nat : n <= N => P(n)}
<1>4. P(0)
  <2>1. turns[0] = <<>>
    BY <1>2 DEF Tells
  <2> QED BY <1>3, <2>1 DEF Opened
<1>5. ASSUME NEW n \in Nat, n + 1 <= N, P(n)
      PROVE  P(n + 1)
  <2>1. n + 1 \in 1..N /\ n \in 0..N /\ (n + 1) - 1 = n
    BY <1>5
  <2>2. PICK r \in Voices : r = R[n + 1]
    BY <1>1, <2>1
  <2>3. PICK t \in Seq(Voices) : t = turns[n] /\ Settled(t) /\ Settled(Opened(c, t))
    BY <1>2, <1>5, <2>1
  <2>4. turns[n + 1] = WithReading(t, r)
    BY <1>2, <2>1, <2>2, <2>3 DEF Tells
  <2>5. Settled(WithReading(t, r))
    BY <2>2, <2>3, SettledMore
  <2>6. CASE t # <<>>
    <3>1. WithReading(Opened(c, t), r) = Opened(c, WithReading(t, r))
      BY <2>2, <2>3, <2>6, OpenedMore
    <3>2. Settled(WithReading(Opened(c, t), r))
      BY <2>2, <2>3, SettledMore
    <3> QED BY <2>4, <2>5, <3>1, <3>2
  <2>7. CASE t = <<>>
    <3>1. CASE Opened(c, WithReading(t, r)) = WithReading(t, r)
      BY <2>4, <2>5, <3>1
    <3>2. CASE Opened(c, WithReading(t, r)) # WithReading(t, r)
      <4>1. WithReading(<<>>, r) # <<>> /\ Head(WithReading(<<>>, r)).role = "assistant"
        BY <2>7, <3>2 DEF Opened
      <4>2. r.role # "system"
        BY <4>1 DEF WithReading
      <4>3. WithReading(<<>>, r) = <<r>> /\ r.role = "assistant"
        <5>1. WithReading(<<>>, r) = Append(<<>>, r)
          BY <4>2 DEF WithReading
        <5>2. Append(<<>>, r) = <<r>> /\ Head(<<r>>) = r
          OBVIOUS
        <5> QED BY <4>1, <5>1, <5>2
      <4>4. WithReading(<<>>, c) = <<c>>
        <5>1. WithReading(<<>>, c) = Append(<<>>, c)
          BY DEF WithReading
        <5>2. Append(<<>>, c) = <<c>>
          OBVIOUS
        <5> QED BY <5>1, <5>2
      <4>5. WithReading(<<c>>, r) = <<c>> \o <<r>>
        <5>1. PICK u \in Seq(Voices) : u = <<c>>
          <6>1. <<c>> \in Seq(Voices)
            OBVIOUS
          <6> QED BY <6>1
        <5>2. Last(u) = c
          BY <5>1 DEF Last
        <5>3. WithReading(u, r) = Append(u, r)
          BY <2>2, <4>2, <4>3, <5>1, <5>2, ReadingOpens
        <5>4. Append(u, r) = u \o <<r>>
          BY <2>2, <5>1
        <5> QED BY <5>1, <5>3, <5>4
      <4>6. Settled(WithReading(WithReading(<<>>, c), r))
        <5>1. Settled(WithReading(<<>>, c))
          BY <1>3, SettledMore
        <5> QED BY <2>2, <5>1, SettledMore
      <4>7. Opened(c, WithReading(<<>>, r)) = <<c>> \o <<r>>
        BY <4>1, <4>3 DEF Opened
      <4> QED BY <2>4, <2>5, <2>7, <4>4, <4>5, <4>6, <4>7
    <3> QED BY <3>1, <3>2
  <2> QED BY <2>6, <2>7
<1>6. P(N)
  <2> HIDE DEF P
  <2>1. 0 \in I
    BY <1>4
  <2>2. ASSUME NEW n \in Nat, n \in I
        PROVE  n + 1 \in I
    BY <1>5, <2>2
  <2>3. N \in I
    <3> HIDE DEF I
    <3> QED BY <1>1, <2>1, <2>2, SetInduction
  <2> QED BY <1>1, <2>3
<1> QED BY <1>2, <1>6

\* A system prompt given apart is said before the system's words of others.
LEMMA SystemAhead ==
    ASSUME NEW P \in Seq(Voices), Len(P) <= 1, \A i \in DOMAIN P : P[i].role = "system",
           NEW R \in Seq(Voices)
    PROVE  /\ P \o R \in Seq(Voices)
           /\ SystemSaid(P \o R) = SystemSaid(P) \o SystemSaid(R)
           /\ TurnsSaid(P \o R) = TurnsSaid(R)
<1>1. SystemSaid(R) \in Seq(Utterances)
  <2>1. PICK n \in Nat : n = Len(R)
    OBVIOUS
  <2>2. \E sys, turns :
          /\ Tells(sys, turns, R, n)
          /\ SystemSaid(R) = sys[n] /\ TurnsSaid(R) = turns[n]
          /\ \A k \in 0..n : sys[k] \in Seq(Utterances) /\ turns[k] \in Seq(Voices)
    BY <2>1, SaidSteps
  <2> QED BY <2>1, <2>2
<1>2. CASE P = <<>>
  <2>1. P \o R = R
    BY <1>2
  <2>2. <<>> \o SystemSaid(R) = SystemSaid(R)
    BY <1>1
  <2> QED BY <1>2, <2>1, <2>2, SaidByNone
<1>3. CASE P # <<>>
  <2>1. PICK r \in Voices : P = <<r>> /\ r.role = "system"
    <3>0. PICK n \in Nat : n = Len(P) /\ DOMAIN P = 1..n /\ n # 0
      BY <1>3
    <3>1. Len(P) = 1 /\ P[1] \in Voices /\ P[1].role = "system"
      <4>1. n = 1 /\ 1 \in DOMAIN P
        BY <3>0
      <4> QED BY <3>0, <4>1
    <3>2. P = <<P[1]>>
      BY <3>1
    <3> QED BY <3>1, <3>2
  <2>2. /\ <<r>> \o R \in Seq(Voices)
        /\ SystemSaid(<<r>> \o R) = r.says \o SystemSaid(R)
        /\ TurnsSaid(<<r>> \o R) = TurnsSaid(R)
    BY <2>1, SystemFirst
  <2>3. SystemSaid(<<r>>) = r.says
    <3>1. PICK e \in Seq(Voices) : e = <<>>
      <4>1. <<>> \in Seq(Voices)
        OBVIOUS
      <4> QED BY <4>1
    <3>2. SystemSaid(<<r>> \o e) = r.says \o SystemSaid(e)
      BY <2>1, SystemFirst
    <3>3. <<r>> \o <<>> = <<r>> /\ r.says \o <<>> = r.says
      BY DEF Voices
    <3> QED BY <3>1, <3>2, <3>3, SaidByNone
  <2> QED BY <2>1, <2>2, <2>3
<1> QED BY <1>2, <1>3

(***************************************************************************)
(* What a translation says                                                 *)
(***************************************************************************)
\* A message that a translation says in full.
IsPlain(m) ==
    m \in MessageTypes /\ m.role \in PortableRoles /\ IsTextOnly(m) /\ m.item.calls = <<>>

\* A part with a text says its words.
LEMMA TextSays ==
    ASSUME NEW entries, Known(entries), NEW text \in Text, NEW p, p = Part("text", text)
    PROVE  /\ p \in ContentParts /\ Says(p, entries) = Spelled(text, entries)
           /\ Voiced(<<p>>, entries) = Spelled(text, entries)
           /\ Spelled(text, entries) \in Seq(Utterances)
<1>1. p \in ContentParts /\ IsTextPart(p) /\ p.text = text
  <2>1. p \in ContentParts
    BY DEF Part, ContentParts
  <2> QED BY <2>1 DEF Part, IsTextPart
<1>2. Says(p, entries) = Spelled(text, entries)
    BY <1>1, SaysTyped
<1>3. Voiced(<<p>>, entries) = Says(p, entries)
    BY <1>1, VoicedFew
<1> QED BY <1>1, <1>2, <1>3, SpelledFacts

\* A plain message says the words of its text.
LEMMA PlainSays ==
    ASSUME NEW entries, Known(entries), NEW m, IsPlain(m)
    PROVE  /\ TextOf(m) \in Text
           /\ HeardIn(m, entries) = [role |-> m.role, says |-> Spelled(TextOf(m), entries)]
           /\ HeardIn(m, entries) \in Voices
           /\ m.role \in {"system", "user", "assistant"}
<1>1. m \in MessageTypes /\ m.item.calls = <<>> /\ m.role \in {"system", "user", "assistant"}
    BY DEF IsPlain, PortableRoles
<1>2. m.content.parts \in Seq(ContentParts)
    BY <1>1 DEF MessageTypes, Contents
<1>3. /\ TextOf(m) \in Text
      /\ Voiced(m.content.parts, entries) = Spelled(TextOf(m), entries)
  <2>1. \A i \in DOMAIN m.content.parts : IsTextPart(m.content.parts[i])
    BY DEF IsPlain, IsTextOnly
  <2>2. /\ TextOfParts(m.content.parts) \in Text
        /\ Voiced(m.content.parts, entries) = Spelled(TextOfParts(m.content.parts), entries)
    BY <1>2, <2>1, VoicedText
  <2> QED BY <2>2 DEF TextOf
<1>4. Uttered(m.content, <<>>, entries) = Voiced(m.content.parts, entries)
  <2>1. <<>> \in Seq(Text)
    OBVIOUS
  <2> QED BY <1>2, <2>1, UtteredTyped
<1>5. HeardIn(m, entries) = [role |-> m.role, says |-> Spelled(TextOf(m), entries)]
    BY <1>1, <1>3, <1>4 DEF HeardIn, Reading, Voice
<1> QED BY <1>1, <1>3, <1>5, HeardInTyped

\* A message translated on its own says what it said.
LEMMA TranslatedSays ==
    ASSUME NEW entries, Known(entries), NEW m, IsPlain(m)
    PROVE  ReadingOf(Translated(m), entries) = HeardIn(m, entries)
<1>1. PICK text \in Text : text = TextOf(m)
    BY PlainSays
<1>2. PICK item : item = Translated(m)
    OBVIOUS
<1>3. item.kind = "message" /\ item.role = m.role /\ item.content = Str(text) /\ item.calls = <<>>
    BY <1>1, <1>2 DEF Translated, Item, Spoken, IsPlain
<1>4. SpeakerOf(item) = m.role /\ Counted(item) = item.content
    BY <1>3, PlainSays DEF SpeakerOf, RoleOf, Canonical, Counted
<1>5. PICK p : p = Part("text", text)
    OBVIOUS
<1>6. p \in ContentParts /\ Voiced(<<p>>, entries) = Spelled(text, entries)
    BY <1>1, <1>5, TextSays
<1>7. PICK c : c = Str(text)
    OBVIOUS
<1>8. c.parts = <<p>> /\ c.parts \in Seq(ContentParts)
    BY <1>5, <1>6, <1>7 DEF Str
<1>9. Uttered(c, <<>>, entries) = Spelled(text, entries)
  <2>1. <<>> \in Seq(Text)
    OBVIOUS
  <2>2. Uttered(c, <<>>, entries) = Voiced(c.parts, entries)
    BY <1>8, <2>1, UtteredTyped
  <2> QED BY <1>6, <1>8, <2>2
<1> QED BY <1>1, <1>2, <1>3, <1>4, <1>7, <1>9, PlainSays DEF ReadingOf, Reading

\* Messages of text alone, translated as items, say what they said.
LEMMA TranslatedAllSays ==
    ASSUME NEW entries, Known(entries), NEW messages, \A i \in DOMAIN messages : IsPlain(messages[i])
    PROVE  ReadAll(TranslatedAll(messages), entries) = Heard(messages, entries)
<1>1. PICK D : D = DOMAIN messages
    OBVIOUS
<1>2. ASSUME NEW i \in D
      PROVE  ReadingOf(Translated(messages[i]), entries) = HeardIn(messages[i], entries)
  <2>1. IsPlain(messages[i])
    BY <1>1
  <2> QED BY <2>1, TranslatedSays
<1>3. PICK all : all = TranslatedAll(messages)
    OBVIOUS
<1>4. all = [i \in D |-> Translated(messages[i])]
    BY <1>1, <1>3 DEF TranslatedAll
<1>5. ReadAll(all, entries) = [i \in D |-> ReadingOf(Translated(messages[i]), entries)]
    BY <1>4 DEF ReadAll
<1>6. Heard(messages, entries) = [i \in D |-> HeardIn(messages[i], entries)]
    BY <1>1 DEF Heard
<1> QED BY <1>2, <1>3, <1>5, <1>6

\* One more message among those of a selection of plain ones: what its words add.
LEMMA PlainAppended ==
    ASSUME NEW entries, Known(entries), NEW a \in Seq(MessageTypes), NEW m, IsPlain(m)
    PROVE  /\ Append(a, m) \in Seq(MessageTypes)
           /\ Paragraphs(Append(a, m)).parts = Append(Paragraphs(a).parts, Part("text", TextOf(m)))
           /\ Paragraphs(a).parts \in Seq(ContentParts)
           /\ Voiced(Paragraphs(Append(a, m)).parts, entries)
                = Voiced(Paragraphs(a).parts, entries) \o Spelled(TextOf(m), entries)
<1>1. PICK n \in Nat : n = Len(a) /\ DOMAIN a = 1..n
    OBVIOUS
<1>2. m \in MessageTypes
    BY DEF IsPlain
<1>3. PICK b \in Seq(MessageTypes) : b = Append(a, m)
  <2>1. Append(a, m) \in Seq(MessageTypes)
    BY <1>2
  <2> QED BY <2>1
<1>4. DOMAIN b = 1..(n + 1) /\ b[n + 1] = m /\ \A i \in 1..n : b[i] = a[i]
  <2>1. /\ Append(a, m) \in [1..(n + 1) -> MessageTypes] /\ Append(a, m)[n + 1] = m
        /\ \A i \in 1..n : Append(a, m)[i] = a[i]
    BY <1>1, <1>2, AppendedForm
  <2> QED BY <1>3, <2>1
<1>5. PICK A : A = [i \in 1..n |-> Part("text", TextOf(a[i]))]
    OBVIOUS
<1>6. A \in Seq(ContentParts) /\ Len(A) = n /\ A = Paragraphs(a).parts
  <2>1. ASSUME NEW i \in 1..n
        PROVE  Part("text", TextOf(a[i])) \in ContentParts
    <3>1. TextOf(a[i]) \in Text
      BY <1>1, TextOfMessage
    <3> QED BY <3>1 DEF Part, ContentParts
  <2>2. A \in [1..n -> ContentParts]
    BY <1>5, <2>1
  <2> QED BY <1>1, <1>5, <2>2 DEF Paragraphs
<1>7. PICK p \in ContentParts : p = Part("text", TextOf(m))
    BY PlainSays, TextSays
<1>8. PICK B : B = [i \in 1..(n + 1) |-> Part("text", TextOf(b[i]))]
    OBVIOUS
<1>9. B = Paragraphs(b).parts
    BY <1>4, <1>8 DEF Paragraphs
<1>10. B = Append(A, p)
  <2>1. /\ Append(A, p) \in [1..(n + 1) -> ContentParts] /\ Append(A, p)[n + 1] = p
        /\ \A i \in 1..n : Append(A, p)[i] = A[i]
    BY <1>1, <1>6, <1>7, AppendedForm
  <2>2. ASSUME NEW i \in 1..(n + 1)
        PROVE  B[i] = Append(A, p)[i]
    <3>1. CASE i = n + 1
      BY <1>4, <1>7, <1>8, <2>1, <3>1
    <3>2. CASE i # n + 1
      <4>1. i \in 1..n
        BY <1>1, <3>2
      <4> QED BY <1>4, <1>5, <1>8, <2>1, <4>1
    <3> QED BY <3>1, <3>2
  <2> QED BY <1>8, <2>1, <2>2
<1>11. Voiced(B, entries) = Voiced(A, entries) \o Spelled(TextOf(m), entries)
  <2>1. PICK one \in Seq(ContentParts) : one = <<p>>
    <3>1. <<p>> \in Seq(ContentParts)
      BY <1>7
    <3> QED BY <3>1
  <2>2. B = A \o one
    <3>1. Append(A, p) = A \o <<p>>
      <4>1. A \in Seq(ContentParts)
        BY <1>6
      <4> QED BY <1>7, <4>1
    <3> QED BY <1>10, <2>1, <3>1
  <2>3. Voiced(A \o one, entries) = Voiced(A, entries) \o Voiced(one, entries)
    BY <1>6, <2>1, VoicedTwo
  <2>4. Voiced(one, entries) = Spelled(TextOf(m), entries)
    BY <1>7, <2>1, PlainSays, TextSays
  <2> QED BY <2>2, <2>3, <2>4
<1> QED BY <1>3, <1>6, <1>7, <1>9, <1>10, <1>11

\* A system prompt alone.
LEMMA SystemAlone ==
    ASSUME NEW r \in Voices, r.role = "system"
    PROVE  SystemSaid(<<r>>) = r.says
<1>1. PICK e \in Seq(Voices) : e = <<>>
  <2>1. <<>> \in Seq(Voices)
    OBVIOUS
  <2> QED BY <2>1
<1>2. SystemSaid(<<r>> \o e) = r.says \o SystemSaid(e)
    BY <1>1, SystemFirst
<1>3. <<r>> \o <<>> = <<r>> /\ r.says \o <<>> = r.says
    BY DEF Voices
<1> QED BY <1>1, <1>2, <1>3, SaidByNone

\* The words of the system messages, in one string, are all that they say.
LEMMA SystemTextSays ==
    ASSUME NEW entries, Known(entries), NEW messages \in Seq(MessageTypes),
           \A i \in DOMAIN messages : IsPlain(messages[i])
    PROVE  SystemSaid(SystemRead(SystemText(messages), entries)) = SystemSaid(Heard(messages, entries))
<1>1. PICK S : S = {m \in ToSet(messages) : m.role = "system" /\ TextOf(m) # <<>>}
    OBVIOUS
<1>2. PICK N \in Nat : \E f : IsSelection(f, messages, N, S, MessageTypes)
    BY OnlyFollowed
<1>3. PICK f : IsSelection(f, messages, N, S, MessageTypes)
    BY <1>2
<1>4. N = Len(messages) /\ DOMAIN messages = 1..N
    BY <1>3 DEF IsSelection
<1>5. PICK H \in Seq(Voices) : H = Heard(messages, entries) /\ N = Len(H)
    BY <1>4, HeardTyped
<1>6. PICK sys, turns : Tells(sys, turns, H, N) /\ SystemSaid(H) = sys[N]
  <2>1. \E sys, turns :
          /\ Tells(sys, turns, H, N)
          /\ SystemSaid(H) = sys[N] /\ TurnsSaid(H) = turns[N]
          /\ \A n \in 0..N : sys[n] \in Seq(Utterances) /\ turns[n] \in Seq(Voices)
    BY <1>2, <1>5, SaidSteps
  <2> QED BY <2>1
<1> DEFINE P(n) == Voiced(Paragraphs(f[n]).parts, entries) = sys[n]
           I == {n \in Nat : n <= N => P(n)}
<1>7. Paragraphs(<<>>).parts = <<>> /\ Voiced(<<>>, entries) = <<>>
  <2>1. Paragraphs(<<>>).parts = <<>>
    BY DEF Paragraphs
  <2> QED BY <2>1, VoicedFew
<1>8. P(0)
  <2>1. f[0] = <<>> /\ sys[0] = <<>>
    BY <1>3, <1>6 DEF IsSelection, Selects, Tells
  <2> QED BY <1>7, <2>1
<1>9. ASSUME NEW n \in Nat, n + 1 <= N, P(n)
      PROVE  P(n + 1)
  <2>1. n + 1 \in 1..N /\ n \in 0..N /\ (n + 1) - 1 = n
    BY <1>9
  <2>2. PICK m : m = messages[n + 1] /\ IsPlain(m) /\ m \in ToSet(messages)
    BY <1>4, <2>1 DEF ToSet
  <2>3. PICK a \in Seq(MessageTypes) : a = f[n]
    BY <1>3, <2>1 DEF IsSelection
  <2>4. f[n + 1] = IF m \in S THEN Append(a, m) ELSE a
    BY <1>3, <2>1, <2>2, <2>3 DEF IsSelection, Selects
  <2>5. PICK r : r = HeardIn(m, entries) /\ r = H[n + 1]
    BY <1>4, <1>5, <2>1, <2>2 DEF Heard
  <2>6. /\ r = [role |-> m.role, says |-> Spelled(TextOf(m), entries)]
        /\ TextOf(m) \in Text
    BY <2>2, <2>5, PlainSays
  <2>7. sys[n + 1] = sys[n] \o SystemWords(r)
    BY <1>6, <2>1, <2>5 DEF Tells
  <2>8. /\ Voiced(Paragraphs(Append(a, m)).parts, entries)
             = Voiced(Paragraphs(a).parts, entries) \o Spelled(TextOf(m), entries)
        /\ Paragraphs(a).parts \in Seq(ContentParts)
    BY <2>2, <2>3, PlainAppended
  <2>9. PICK v \in Seq(Utterances) : v = Voiced(Paragraphs(a).parts, entries) /\ v = sys[n]
    BY <1>9, <2>3, <2>8, VoicedParts
  <2>10. CASE m \in S
    <3>1. m.role = "system"
      BY <1>1, <2>10
    <3> QED BY <2>4, <2>6, <2>7, <2>8, <2>9, <2>10, <3>1 DEF SystemWords
  <2>11. CASE m \notin S
    <3>1. SystemWords(r) = <<>>
      <4>1. CASE m.role # "system"
        BY <2>6, <4>1 DEF SystemWords
      <4>2. CASE m.role = "system"
        <5>1. TextOf(m) = <<>>
          BY <1>1, <2>2, <2>11, <4>2
        <5> QED BY <2>6, <4>2, <5>1, SpelledFacts DEF SystemWords
      <4> QED BY <4>1, <4>2
    <3>2. v \o <<>> = v
      BY <2>9
    <3> QED BY <2>3, <2>4, <2>7, <2>9, <2>11, <3>1, <3>2
  <2> QED BY <2>10, <2>11
<1>10. P(N)
  <2> HIDE DEF P
  <2>1. 0 \in I
    BY <1>8
  <2>2. ASSUME NEW n \in Nat, n \in I
        PROVE  n + 1 \in I
    BY <1>9, <2>2
  <2>3. N \in I
    <3> HIDE DEF I
    <3> QED BY <1>2, <2>1, <2>2, SetInduction
  <2> QED BY <1>2, <2>3
<1>11. PICK system \in Seq(MessageTypes) : system = f[N] /\ system = Only(messages, S)
  <2>1. N \in 0..N
    BY <1>2
  <2> QED BY <1>3, <2>1 DEF IsSelection
<1>12. SystemText(messages) = IF system = <<>> THEN None ELSE Paragraphs(system)
    BY <1>1, <1>11 DEF SystemText
<1>13. SystemSaid(SystemRead(SystemText(messages), entries)) = Voiced(Paragraphs(system).parts, entries)
  <2>1. CASE system = <<>>
    <3>1. SystemRead(None, entries) = <<>>
      BY DEF SystemRead
    <3> QED BY <1>7, <1>12, <2>1, <3>1, SaidByNone
  <2>2. CASE system # <<>>
    <3>1. PICK c \in Contents : c = Paragraphs(system)
      BY <1>11, ParagraphsTyped
    <3>2. c # None /\ c.parts \in Seq(ContentParts)
      BY <3>1, ContentsAssumption DEF Contents
    <3>3. PICK r : r = Reading("system", c, <<>>, entries)
      OBVIOUS
    <3>4. <<>> \in Seq(Text) /\ "system" \in Roles \union ItemKinds
      BY DEF Roles
    <3>5. r \in Voices /\ r.role = "system" /\ r.says = Uttered(c, <<>>, entries)
      BY <3>1, <3>3, <3>4, ReadingIsVoice
    <3>6. Uttered(c, <<>>, entries) = Voiced(c.parts, entries)
      BY <3>2, <3>4, UtteredTyped
    <3>7. SystemRead(SystemText(messages), entries) = <<r>>
      BY <1>12, <2>2, <3>1, <3>2, <3>3 DEF SystemRead
    <3> QED BY <3>1, <3>5, <3>6, <3>7, SystemAlone
  <2> QED BY <2>1, <2>2
<1> QED BY <1>5, <1>6, <1>10, <1>11, <1>13

\* The messages but those of the system say the turns, and nothing of the system's.
LEMMA NotSystemSays ==
    ASSUME NEW entries, Known(entries), NEW messages \in Seq(MessageTypes)
    PROVE  /\ SystemSaid(Heard(NotSystem(messages), entries)) = <<>>
           /\ TurnsSaid(Heard(NotSystem(messages), entries)) = TurnsSaid(Heard(messages, entries))
<1>1. PICK S : S = {m \in ToSet(messages) : m.role # "system"}
    OBVIOUS
<1>2. PICK N \in Nat : \E f : IsSelection(f, messages, N, S, MessageTypes)
    BY OnlyFollowed
<1>3. PICK f : IsSelection(f, messages, N, S, MessageTypes)
    BY <1>2
<1>4. N = Len(messages) /\ DOMAIN messages = 1..N
    BY <1>3 DEF IsSelection
<1>5. PICK H \in Seq(Voices) : H = Heard(messages, entries) /\ N = Len(H)
    BY <1>4, HeardTyped
<1>6. PICK sys, turns : Tells(sys, turns, H, N) /\ TurnsSaid(H) = turns[N]
  <2>1. \E sys, turns :
          /\ Tells(sys, turns, H, N)
          /\ SystemSaid(H) = sys[N] /\ TurnsSaid(H) = turns[N]
          /\ \A n \in 0..N : sys[n] \in Seq(Utterances) /\ turns[n] \in Seq(Voices)
    BY <1>2, <1>5, SaidSteps
  <2> QED BY <2>1
<1> DEFINE P(n) == /\ SystemSaid(Heard(f[n], entries)) = <<>>
                   /\ TurnsSaid(Heard(f[n], entries)) = turns[n]
           I == {n \in Nat : n <= N => P(n)}
<1>7. P(0)
  <2>1. f[0] = <<>> /\ turns[0] = <<>>
    BY <1>3, <1>6 DEF IsSelection, Selects, Tells
  <2>2. Heard(<<>>, entries) = <<>>
    BY HeardOne
  <2> QED BY <2>1, <2>2, SaidByNone
<1>8. ASSUME NEW n \in Nat, n + 1 <= N, P(n)
      PROVE  P(n + 1)
  <2>1. n + 1 \in 1..N /\ n \in 0..N /\ (n + 1) - 1 = n
    BY <1>8
  <2>2. PICK m \in MessageTypes : m = messages[n + 1] /\ m \in ToSet(messages)
    BY <1>4, <2>1 DEF ToSet
  <2>3. PICK a \in Seq(MessageTypes) : a = f[n]
    BY <1>3, <2>1 DEF IsSelection
  <2>4. f[n + 1] = IF m \in S THEN Append(a, m) ELSE a
    BY <1>3, <2>1, <2>2, <2>3 DEF IsSelection, Selects
  <2>5. PICK r \in Voices : r = HeardIn(m, entries) /\ r = H[n + 1] /\ r.role = Voice(m.role)
    <3>1. HeardIn(m, entries) = H[n + 1]
      BY <1>4, <1>5, <2>1, <2>2 DEF Heard
    <3> QED BY <2>2, <3>1, HeardInTyped
  <2>6. turns[n + 1] = WithReading(turns[n], r)
    BY <1>6, <2>1, <2>5 DEF Tells
  <2>7. CASE m \in S
    <3>1. PICK h \in Seq(Voices) : h = Heard(a, entries)
      BY <2>3, HeardTyped
    <3>2. Heard(Append(a, m), entries) = Append(h, r)
      BY <2>2, <2>3, <2>5, <3>1, HeardAppended
    <3>3. /\ SystemSaid(Append(h, r)) = SystemSaid(h) \o SystemWords(r)
          /\ TurnsSaid(Append(h, r)) = WithReading(TurnsSaid(h), r)
      BY <2>5, <3>1, SaidAppended
    <3>4. SystemWords(r) = <<>> /\ <<>> \o <<>> = <<>>
      BY <1>1, <2>5, <2>7 DEF SystemWords, Voice
    <3> QED BY <1>8, <2>3, <2>4, <2>6, <2>7, <3>1, <3>2, <3>3, <3>4
  <2>8. CASE m \notin S
    <3>1. r.role = "system"
      BY <1>1, <2>2, <2>5, <2>8 DEF Voice
    <3>2. WithReading(turns[n], r) = turns[n]
      BY <3>1 DEF WithReading
    <3> QED BY <1>8, <2>3, <2>4, <2>6, <2>8, <3>2
  <2> QED BY <2>7, <2>8
<1>9. P(N)
  <2> HIDE DEF P
  <2>1. 0 \in I
    BY <1>7
  <2>2. ASSUME NEW n \in Nat, n \in I
        PROVE  n + 1 \in I
    BY <1>8, <2>2
  <2>3. N \in I
    <3> HIDE DEF I
    <3> QED BY <1>2, <2>1, <2>2, SetInduction
  <2> QED BY <1>2, <2>3
<1>10. NotSystem(messages) = f[N]
    BY <1>1, <1>3 DEF NotSystem, IsSelection
<1> QED BY <1>5, <1>6, <1>9, <1>10

\* An item more is one reading more.
LEMMA ReadAllAppended ==
    ASSUME NEW entries, Known(entries), NEW a \in Seq(Items), NEW item \in Items
    PROVE  ReadAll(Append(a, item), entries) = Append(ReadAll(a, entries), ReadingOf(item, entries))
<1>1. PICK n \in Nat : n = Len(a) /\ DOMAIN a = 1..n
    OBVIOUS
<1>2. PICK b : b = Append(a, item)
    OBVIOUS
<1>3. DOMAIN b = 1..(n + 1) /\ b[n + 1] = item /\ \A i \in 1..n : b[i] = a[i]
  <2>1. /\ Append(a, item) \in [1..(n + 1) -> Items] /\ Append(a, item)[n + 1] = item
        /\ \A i \in 1..n : Append(a, item)[i] = a[i]
    BY <1>1, AppendedForm
  <2> QED BY <1>2, <2>1
<1>4. PICK R \in Seq(Voices) : R = ReadAll(a, entries) /\ n = Len(R)
                               /\ \A i \in 1..n : R[i] = ReadingOf(a[i], entries)
  <2>1. PICK R : R = ReadAll(a, entries)
    OBVIOUS
  <2>2. R \in Seq(Voices)
    BY <2>1, ReadAllTyped
  <2>3. DOMAIN R = 1..n /\ \A i \in 1..n : R[i] = ReadingOf(a[i], entries)
    BY <1>1, <2>1 DEF ReadAll
  <2> QED BY <1>1, <2>1, <2>2, <2>3
<1>5. PICK r \in Voices : r = ReadingOf(item, entries)
    BY ReadingOfTyped
<1>6. /\ Append(R, r) \in [1..(n + 1) -> Voices] /\ Append(R, r)[n + 1] = r
      /\ \A i \in 1..n : Append(R, r)[i] = R[i]
    BY <1>1, <1>4, <1>5, AppendedForm
<1>7. ASSUME NEW i \in 1..(n + 1)
      PROVE  ReadingOf(b[i], entries) = Append(R, r)[i]
  <2>1. CASE i = n + 1
    BY <1>3, <1>5, <1>6, <2>1
  <2>2. CASE i # n + 1
    <3>1. i \in 1..n
      BY <1>1, <2>2
    <3> QED BY <1>3, <1>4, <1>6, <3>1
  <2> QED BY <2>1, <2>2
<1>8. ReadAll(b, entries) = [i \in 1..(n + 1) |-> ReadingOf(b[i], entries)]
    BY <1>3 DEF ReadAll
<1>9. ReadAll(b, entries) = Append(R, r)
    BY <1>6, <1>7, <1>8
<1> QED BY <1>2, <1>4, <1>5, <1>9

\* A reading of the role of the last.
LEMMA LastGoesOn ==
    ASSUME NEW G \in Seq(Voices), NEW v \in Voices, NEW r \in Voices,
           r.role # "system", NEW y, InOne(y, v, r)
    PROVE  WithReading(Append(G, v), r) = Append(G, y)
<1>1. PICK n \in Nat : n = Len(G)
    OBVIOUS
<1>2. PICK H \in Seq(Voices) : H = Append(G, v)
  <2>1. Append(G, v) \in Seq(Voices)
    OBVIOUS
  <2> QED BY <2>1
<1>3. H[n + 1] = v /\ Len(H) = n + 1 /\ n + 1 \in Nat \ {0}
      /\ \A z \in Voices : [H EXCEPT ![n + 1] = z] = Append(G, z)
  <2>1. /\ Append(G, v) \in [1..(n + 1) -> Voices] /\ Append(G, v)[n + 1] = v
        /\ \A z \in Voices : [Append(G, v) EXCEPT ![n + 1] = z] = Append(G, z)
    BY <1>1, AppendedForm
  <2> QED BY <1>1, <1>2, <2>1
<1>4. y \in Voices
  <2>1. v.says \o r.says \in Seq(Utterances)
    BY DEF Voices
  <2> QED BY <2>1 DEF Voices, InOne
<1>5. IsLast(H, n + 1, r)
    BY <1>3 DEF IsLast, InOne
<1>6. WithReading(H, r) = GoneOn(H, n + 1, r)
    BY <1>2, <1>5, ReadingGoesOn
<1>7. GoneOn(H, n + 1, r) = [H EXCEPT ![n + 1] = y]
    BY <1>3 DEF GoneOn, InOne
<1> QED BY <1>2, <1>3, <1>4, <1>6, <1>7

\* The items of a translation that merges turns.
TurnItems(other) == Alternating(other, {}, Words)

\* The item of a merged turn says the turn.
LEMMA TurnItemSays ==
    ASSUME NEW entries, Known(entries), NEW other \in {"assistant", "model"},
           NEW item \in TurnItems(other)
    PROVE  /\ item \in Items /\ item.content.parts \in Seq(ContentParts)
           /\ item.kind = "message" /\ item.calls = <<>> /\ item.role \in {"user", other}
           /\ ReadingOf(item, entries) \in Voices
           /\ ReadingOf(item, entries)
                = [role |-> IF item.role = "user" THEN "user" ELSE "assistant",
                   says |-> Voiced(item.content.parts, entries)]
<1>1. item \in Items /\ item.kind = "message" /\ item.calls = <<>> /\ item.role \in {"user", other}
    BY DEF TurnItems, Alternating, Told
<1>2. item.content.parts \in Seq(ContentParts)
    BY <1>1 DEF Items, Contents
<1>3. /\ SpeakerOf(item) = IF item.role = "user" THEN "user" ELSE "assistant"
      /\ Counted(item) = item.content
    BY <1>1 DEF SpeakerOf, RoleOf, Canonical, Counted
<1>4. Uttered(item.content, <<>>, entries) = Voiced(item.content.parts, entries)
  <2>1. <<>> \in Seq(Text)
    OBVIOUS
  <2> QED BY <1>2, <2>1, UtteredTyped
<1> QED BY <1>1, <1>2, <1>3, <1>4, ReadingOfTyped DEF ReadingOf, Reading

\* A message more in the turns is one reading more.
LEMMA TurnSays ==
    ASSUME NEW entries, Known(entries), NEW other \in {"assistant", "model"},
           NEW turns \in Seq(TurnItems(other)), NEW m, IsPlain(m), m.role # "system"
    PROVE  ReadAll(WithTurn(turns, m, other), entries)
             = WithReading(ReadAll(turns, entries), HeardIn(m, entries))
<1>1. PICK X : X = TurnItems(other)
    OBVIOUS
<1>2. PICK text \in Text : text = TextOf(m)
    BY PlainSays
<1>3. PICK r \in Voices : r = HeardIn(m, entries) /\ r = [role |-> m.role, says |-> Spelled(text, entries)]
    BY <1>2, PlainSays
<1>4. m.role \in {"user", "assistant"} /\ r.role = m.role /\ r.says = Spelled(text, entries)
    BY <1>3, PlainSays
<1>5. PICK p \in ContentParts : /\ p = Part("text", text)
                                /\ Voiced(<<p>>, entries) = Spelled(text, entries)
    BY <1>2, TextSays
<1>6. PICK role : role = TurnRole(m, other)
    OBVIOUS
<1>7. /\ role \in {"user", other}
      /\ m.role = IF role = "user" THEN "user" ELSE "assistant"
    BY <1>4, <1>6 DEF TurnRole
<1>8. PICK R \in Seq(Voices) : R = ReadAll(turns, entries)
  <2>1. turns \in Seq(Items)
    BY DEF TurnItems, Alternating, Told
  <2> QED BY <2>1, ReadAllTyped
<1>9. ASSUME NEW t \in Seq(X), NEW x \in X
      PROVE  ReadAll(Append(t, x), entries) = Append(ReadAll(t, entries), ReadingOf(x, entries))
  <2>1. t \in Seq(Items) /\ x \in Items
    BY <1>1 DEF TurnItems, Alternating, Told
  <2> QED BY <2>1, ReadAllAppended
<1>10. m \in MessageTypes /\ WithTurn(turns, m, other) \in Seq(X)
  <2>1. m \in MessageTypes
    BY DEF IsPlain
  <2> QED BY <1>1, <2>1, OneMoreTurn DEF TurnItems
<1>11. ASSUME ~(turns # <<>> /\ Last(turns).role = role)
       PROVE  \E new \in X : /\ WithTurn(turns, m, other) = Append(turns, new)
                             /\ ReadingOf(new, entries) = r
  <2>1. PICK form \in {"str", "parts"} : form = IF other = "model" THEN "parts" ELSE "str"
    OBVIOUS
  <2>2. PICK one \in Seq(ContentParts) : one = <<p>>
    <3>1. <<p>> \in Seq(ContentParts)
      BY <1>5
    <3> QED BY <3>1
  <2>3. PICK new : new = Item("message", role, [form |-> form, parts |-> one], <<>>)
    OBVIOUS
  <2>4. new.content.parts = one /\ new.role = role
    BY <2>3 DEF Item
  <2>5. new \in X
    <3>1. role \in Roles
      BY <1>7 DEF Roles
    <3>2. new \in Told({}, Words)
      BY <2>1, <2>2, <2>3, <3>1, TextTold
    <3> QED BY <1>1, <1>7, <2>4, <3>2 DEF TurnItems, Alternating
  <2>6. WithTurn(turns, m, other) = Append(turns, new)
    BY <1>2, <1>5, <1>6, <1>11, <2>1, <2>2, <2>3 DEF WithTurn
  <2>7. ReadingOf(new, entries) = [role |-> IF new.role = "user" THEN "user" ELSE "assistant",
                                   says |-> Voiced(new.content.parts, entries)]
    BY <1>1, <2>5, TurnItemSays
  <2>8. ReadingOf(new, entries) = r
    BY <1>3, <1>5, <1>7, <2>2, <2>4, <2>7
  <2> QED BY <2>5, <2>6, <2>8
<1>12. CASE turns # <<>>
  <2>1. PICK n \in Nat \ {0}, F \in Seq(X) : Ends(turns, F, n, X)
    BY <1>1, <1>12, LastOfMany
  <2>2. PICK x \in X : /\ x = turns[n] /\ turns = Append(F, x) /\ x = Last(turns)
                       /\ n = Len(turns) /\ DOMAIN turns = 1..n
    BY <2>1 DEF Ends
  <2>3. PICK G \in Seq(Voices) : G = ReadAll(F, entries)
    <3>1. F \in Seq(Items)
      BY <1>1, <2>1 DEF TurnItems, Alternating, Told
    <3> QED BY <3>1, ReadAllTyped
  <2>4. PICK v \in Voices :
            /\ v = ReadingOf(x, entries)
            /\ v.role = IF x.role = "user" THEN "user" ELSE "assistant"
            /\ v.says = Voiced(x.content.parts, entries)
    BY <1>1, <2>2, TurnItemSays
  <2>5. R = Append(G, v) /\ R # <<>> /\ Last(R) = v
    <3>1. R = Append(G, v)
      BY <1>8, <1>9, <2>1, <2>2, <2>3, <2>4
    <3>2. Append(G, v) # <<>> /\ Last(Append(G, v)) = v
      <4>1. PICK k \in Nat : k = Len(G)
        OBVIOUS
      <4>2. Append(G, v) \in [1..(k + 1) -> Voices] /\ Append(G, v)[k + 1] = v
        BY <4>1, AppendedForm
      <4>3. Len(Append(G, v)) = k + 1
        BY <4>1
      <4>4. Append(G, v) # <<>>
        <5>1. Len(<<>>) = 0 /\ k + 1 # 0
          BY <4>1
        <5> QED BY <4>3, <5>1
      <4> QED BY <4>2, <4>3, <4>4 DEF Last
    <3> QED BY <3>1, <3>2
  <2>6. x.role \in {"user", other} /\ x \in Items /\ x.content.parts \in Seq(ContentParts)
        /\ x.kind = "message" /\ x.calls = <<>>
    BY <1>1, <2>2, TurnItemSays
  <2>7. v.role = r.role <=> x.role = role
    BY <1>4, <1>7, <2>4, <2>6
  <2>8. CASE x.role = role
    <3>1. PICK parts \in Seq(ContentParts), one \in Seq(ContentParts) :
              parts = Append(x.content.parts, p) /\ one = <<p>> /\ parts = x.content.parts \o one
      <4>1. PICK old \in Seq(ContentParts) : old = x.content.parts
        BY <2>6
      <4>2. Append(old, p) \in Seq(ContentParts) /\ <<p>> \in Seq(ContentParts)
        BY <1>5, <4>1
      <4>3. Append(old, p) = old \o <<p>>
        BY <1>5, <4>1, SMTT(30)
      <4> QED BY <4>1, <4>2, <4>3
    <3>2. PICK more : more = [x EXCEPT !.content.parts = parts]
      OBVIOUS
    <3>3. WithTurn(turns, m, other) = [turns EXCEPT ![n] = more]
      <4>1. WithTurn(turns, m, other) = [turns EXCEPT ![n].content.parts = Append(@, p)]
        BY <1>2, <1>5, <1>6, <1>12, <2>2, <2>8 DEF WithTurn
      <4>2. [turns EXCEPT ![n].content.parts = Append(@, p)]
              = [turns EXCEPT ![n] = [turns[n] EXCEPT !.content.parts = Append(@, p)]]
        BY <2>2
      <4> QED BY <2>2, <3>1, <3>2, <4>1, <4>2
    <3>4. more \in X
      <4>1. [turns EXCEPT ![n] = more] \in Seq(X)
        BY <1>10, <3>3
      <4>2. n \in DOMAIN turns /\ [turns EXCEPT ![n] = more][n] = more
            /\ DOMAIN [turns EXCEPT ![n] = more] = DOMAIN turns
        BY <2>1, <2>2
      <4> QED BY <4>1, <4>2, ValuesTyped
    <3>5. WithTurn(turns, m, other) = Append(F, more)
      BY <2>1, <3>3, <3>4 DEF Ends
    <3>6. more.content.parts = parts /\ more.role = x.role
      BY <2>6, <3>2 DEF Items, Contents
    <3>7. Voiced(parts, entries) = v.says \o r.says
      <4>1. Voiced(x.content.parts \o one, entries)
              = Voiced(x.content.parts, entries) \o Voiced(one, entries)
        BY <2>6, <3>1, VoicedTwo
      <4> QED BY <1>4, <1>5, <2>4, <3>1, <4>1
    <3>8. ReadingOf(more, entries) = [role |-> r.role, says |-> v.says \o r.says]
      <4>1. ReadingOf(more, entries)
              = [role |-> IF more.role = "user" THEN "user" ELSE "assistant",
                 says |-> Voiced(more.content.parts, entries)]
        BY <1>1, <3>4, TurnItemSays
      <4> QED BY <1>4, <1>7, <2>8, <3>6, <3>7, <4>1
    <3>9. WithReading(Append(G, v), r) = Append(G, [role |-> r.role, says |-> v.says \o r.says])
      <4>1. PICK y : y = [role |-> r.role, says |-> v.says \o r.says]
        OBVIOUS
      <4>2. v.role = r.role /\ r.role # "system"
        BY <1>4, <2>7, <2>8
      <4>3. WithReading(Append(G, v), r) = Append(G, y)
        <5>1. InOne(y, v, r)
          BY <4>1, <4>2 DEF InOne
        <5> QED BY <1>3, <4>2, <5>1, LastGoesOn
      <4> QED BY <4>1, <4>3
    <3>10. ReadAll(Append(F, more), entries) = Append(G, ReadingOf(more, entries))
      BY <1>9, <2>1, <2>3, <3>4
    <3> QED BY <1>3, <1>8, <2>5, <3>5, <3>8, <3>9, <3>10
  <2>9. CASE x.role # role
    <3>1. PICK new \in X : WithTurn(turns, m, other) = Append(turns, new)
                           /\ ReadingOf(new, entries) = r
      BY <1>11, <2>2, <2>9
    <3>2. WithReading(R, r) = Append(R, r)
      BY <1>3, <1>4, <1>8, <2>5, <2>7, <2>9, ReadingOpens
    <3> QED BY <1>1, <1>3, <1>8, <1>9, <3>1, <3>2
  <2> QED BY <2>8, <2>9
<1>13. CASE turns = <<>>
  <2>1. PICK new \in X : WithTurn(turns, m, other) = Append(turns, new)
                         /\ ReadingOf(new, entries) = r
    BY <1>11, <1>13
  <2>2. R = <<>>
    BY <1>8, <1>13 DEF ReadAll
  <2>3. WithReading(R, r) = Append(R, r)
    BY <1>4, <2>2 DEF WithReading
  <2> QED BY <1>1, <1>3, <1>8, <1>9, <2>1, <2>3
<1> QED BY <1>12, <1>13

\* Messages that a translation says in full.
ArePlain(messages) ==
    messages \in Seq(MessageTypes) /\ \A i \in DOMAIN messages : IsPlain(messages[i])

\* Those of the system are left out of the turns.
LEMMA NotSystemPlain ==
    ASSUME NEW messages, ArePlain(messages)
    PROVE  /\ ArePlain(NotSystem(messages))
           /\ \A i \in DOMAIN NotSystem(messages) : NotSystem(messages)[i].role # "system"
<1>1. PICK X : X = MessageTypes
    OBVIOUS
<1>2. messages \in Seq(X) /\ \A i \in DOMAIN messages : IsPlain(messages[i])
    BY <1>1 DEF ArePlain
<1>3. PICK S : S = {m \in ToSet(messages) : m.role # "system"}
    OBVIOUS
<1>4. PICK s \in Seq(X) : s = NotSystem(messages) /\ ToSet(s) = ToSet(messages) \intersect S
  <2>1. Only(messages, S) \in Seq(X) /\ ToSet(Only(messages, S)) = ToSet(messages) \intersect S
    BY <1>2, OnlyValues
  <2> QED BY <1>3, <2>1 DEF NotSystem
<1>5. \A m \in ToSet(messages) : IsPlain(m)
    BY <1>2 DEF ToSet
<1>6. \A i \in DOMAIN s : s[i] \in ToSet(s)
    BY <1>4, ByIndex
<1> QED BY <1>1, <1>3, <1>4, <1>5, <1>6 DEF ArePlain

\* Turns that are merged say what the messages say, the system's apart.
LEMMA MergedSays ==
    ASSUME NEW entries, Known(entries), NEW other \in {"assistant", "model"},
           NEW messages, ArePlain(messages)
    PROVE  /\ Merged(messages, other) \in Seq(TurnItems(other))
           /\ ReadAll(Merged(messages, other), entries) = TurnsSaid(Heard(messages, entries))
<1>1. messages \in Seq(MessageTypes) /\ KeptAsTold(messages, {}, Words)
    BY DEF ArePlain, KeptAsTold
<1>2. PICK said \in Seq(MessageTypes) :
          /\ said = NotSystem(messages)
          /\ \A i \in DOMAIN said : IsPlain(said[i]) /\ said[i].role # "system"
    BY NotSystemPlain DEF ArePlain
<1>3. PICK N \in Nat : N = Len(said) /\ DOMAIN said = 1..N
    BY <1>2
<1>4. PICK d : /\ MergesTurns(d, said, N, other)
               /\ Merged(messages, other) = d[N]
               /\ \A n \in 0..N : d[n] \in Seq(TurnItems(other))
  <2>1. \E d : /\ MergesTurns(d, said, N, other)
               /\ Merged(messages, other) = d[N]
               /\ \A n \in 0..N : d[n] \in Seq(Alternating(other, {}, Words))
    BY <1>1, <1>2, <1>3, MergedSteps
  <2> QED BY <2>1 DEF TurnItems
<1>5. PICK H \in Seq(Voices) : H = Heard(said, entries) /\ N = Len(H)
    BY <1>2, <1>3, HeardTyped
<1>6. PICK sys, turns : Tells(sys, turns, H, N) /\ TurnsSaid(H) = turns[N]
  <2>1. \E sys, turns :
          /\ Tells(sys, turns, H, N)
          /\ SystemSaid(H) = sys[N] /\ TurnsSaid(H) = turns[N]
          /\ \A n \in 0..N : sys[n] \in Seq(Utterances) /\ turns[n] \in Seq(Voices)
    BY <1>3, <1>5, SaidSteps
  <2> QED BY <2>1
<1> DEFINE P(n) == ReadAll(d[n], entries) = turns[n]
           I == {n \in Nat : n <= N => P(n)}
<1>7. P(0)
  <2>1. d[0] = <<>> /\ turns[0] = <<>>
    BY <1>4, <1>6 DEF MergesTurns, Tells
  <2>2. ReadAll(<<>>, entries) = <<>>
    BY DEF ReadAll
  <2> QED BY <2>1, <2>2
<1>8. ASSUME NEW n \in Nat, n + 1 <= N, P(n)
      PROVE  P(n + 1)
  <2>1. n + 1 \in 1..N /\ n \in 0..N /\ (n + 1) - 1 = n
    BY <1>8
  <2>2. PICK m : m = said[n + 1] /\ IsPlain(m) /\ m.role # "system"
    BY <1>2, <1>3, <2>1
  <2>3. PICK t \in Seq(TurnItems(other)) : t = d[n]
    BY <1>4, <2>1
  <2>4. d[n + 1] = WithTurn(t, m, other)
    BY <1>4, <2>1, <2>2, <2>3 DEF MergesTurns
  <2>5. H[n + 1] = HeardIn(m, entries)
    BY <1>3, <1>5, <2>1, <2>2 DEF Heard
  <2>6. turns[n + 1] = WithReading(turns[n], HeardIn(m, entries))
    BY <1>6, <2>1, <2>5 DEF Tells
  <2>7. ReadAll(WithTurn(t, m, other), entries) = WithReading(ReadAll(t, entries), HeardIn(m, entries))
    BY <2>2, <2>3, TurnSays
  <2> QED BY <1>8, <2>3, <2>4, <2>6, <2>7
<1>9. P(N)
  <2> HIDE DEF P
  <2>1. 0 \in I
    BY <1>7
  <2>2. ASSUME NEW n \in Nat, n \in I
        PROVE  n + 1 \in I
    BY <1>8, <2>2
  <2>3. N \in I
    <3> HIDE DEF I
    <3> QED BY <1>3, <2>1, <2>2, SetInduction
  <2> QED BY <1>3, <2>3
<1>10. TurnsSaid(Heard(said, entries)) = TurnsSaid(Heard(messages, entries))
    BY <1>1, <1>2, NotSystemSays
<1>11. d[N] \in Seq(TurnItems(other))
    BY <1>3, <1>4
<1> QED BY <1>4, <1>5, <1>6, <1>9, <1>10, <1>11

\* What the turn says that is put first, whatever the placeholders stand for.
LEMMA ContinuedSays ==
    ASSUME NEW entries, Known(entries)
    PROVE  /\ ReadingOf(Continued, entries) \in Voices
           /\ ReadingOf(Continued, entries).role = "user"
           /\ ReadingOf(Continued, entries) = ReadingOf(Continued, {})
<1>1. Continued \in Items /\ SpeakerOf(Continued) = "user"
      /\ Counted(Continued) = Str(<<ContinuedWord>>) /\ Continued.calls = <<>>
  <2>1. Continued \in Items
    BY ContinuedTyped, ContinuedTold DEF Told
  <2> QED BY <2>1 DEF Continued, Item, SpeakerOf, RoleOf, Canonical, ContinuedWord, Counted
<1>2. ASSUME NEW e, Known(e)
      PROVE  ReadingOf(Continued, e) = [role |-> "user", says |-> << <<"word", ContinuedWord>> >>]
  <2>1. <<ContinuedWord>> \in Text /\ Resolved(<<ContinuedWord>>, e) = <<ContinuedWord>>
    <3>1. Meant(ContinuedWord, e) = <<ContinuedWord>>
      BY DEF Meant, ContinuedWord
    <3> QED BY <1>2, <3>1, ContinuedTyped, ResolvedOne
  <2>2. PICK w : w = ContinuedWord
    OBVIOUS
  <2>3. Spelled(<<w>>, e) = << <<"word", w>> >>
    <3>1. PICK all : all = <<w>>
      OBVIOUS
    <3>2. DOMAIN all = 1..1 /\ all[1] = w
      BY <3>1
    <3>3. PICK said : said = <<"word", w>>
      OBVIOUS
    <3>4. [i \in DOMAIN all |-> <<"word", all[i]>>] = [i \in 1..1 |-> said]
      BY <3>2, <3>3
    <3>5. [i \in 1..1 |-> said] = <<said>>
      OBVIOUS
    <3> QED BY <2>1, <2>2, <3>1, <3>3, <3>4, <3>5 DEF Spelled
  <2>4. PICK text \in Text : text = <<w>>
    BY <2>1, <2>2
  <2>5. PICK c : c = Str(text)
    OBVIOUS
  <2>6. PICK p \in ContentParts : p = Part("text", text) /\ Voiced(<<p>>, e) = Spelled(text, e)
    BY <1>2, <2>4, TextSays
  <2>7. c.parts = <<p>> /\ c.parts \in Seq(ContentParts)
    BY <2>5, <2>6 DEF Str
  <2>8. Uttered(c, <<>>, e) = Spelled(text, e)
    <3>1. <<>> \in Seq(Text)
      OBVIOUS
    <3> QED BY <1>2, <2>6, <2>7, <3>1, UtteredTyped
  <2> QED BY <1>1, <2>2, <2>3, <2>4, <2>5, <2>8 DEF ReadingOf, Reading
<1>3. Known({})
    BY DEF Known
<1> QED BY <1>1, <1>2, <1>3, ReadingOfTyped

\* What readings say is typed.
LEMMA SaidTyped ==
    ASSUME NEW R \in Seq(Voices)
    PROVE  SystemSaid(R) \in Seq(Utterances) /\ TurnsSaid(R) \in Seq(Voices)
<1>1. PICK N \in Nat : N = Len(R)
    OBVIOUS
<1>2. \E sys, turns :
          /\ Tells(sys, turns, R, N)
          /\ SystemSaid(R) = sys[N] /\ TurnsSaid(R) = turns[N]
          /\ \A n \in 0..N : sys[n] \in Seq(Utterances) /\ turns[n] \in Seq(Voices)
    BY <1>1, SaidSteps
<1>3. N \in 0..N
    BY <1>1
<1> QED BY <1>2, <1>3

\* The words of the system messages before other readings.
LEMMA PromptAhead ==
    ASSUME NEW entries, Known(entries), NEW messages, ArePlain(messages),
           NEW R \in Seq(Voices), SystemSaid(R) = <<>>,
           NEW P, P = SystemRead(SystemText(messages), entries)
    PROVE  /\ P \o R \in Seq(Voices)
           /\ SystemSaid(P \o R) = SystemSaid(Heard(messages, entries))
           /\ TurnsSaid(P \o R) = TurnsSaid(R)
<1>1. messages \in Seq(MessageTypes) /\ \A i \in DOMAIN messages : IsPlain(messages[i])
    BY DEF ArePlain
<1>2. SystemText(messages) \in Contents \union {None}
  <2>1. KeptAsTold(messages, {}, Words)
    BY DEF KeptAsTold
  <2> QED BY <1>1, <2>1, SystemTextTyped
<1>3. P \in Seq(Voices) /\ Len(P) <= 1 /\ \A i \in DOMAIN P : P[i].role = "system"
    BY <1>2, SystemHeard
<1>4. /\ P \o R \in Seq(Voices)
      /\ SystemSaid(P \o R) = SystemSaid(P) \o SystemSaid(R)
      /\ TurnsSaid(P \o R) = TurnsSaid(R)
    BY <1>3, SystemAhead
<1>5. SystemSaid(P) = SystemSaid(Heard(messages, entries))
    BY <1>1, SystemTextSays
<1>6. SystemSaid(P) \o <<>> = SystemSaid(P)
  <2>1. SystemSaid(P) \in Seq(Utterances)
    BY <1>3, SaidTyped
  <2> QED BY <2>1
<1> QED BY <1>4, <1>5, <1>6

\* Two readings for one, or the other way round: what a turn put first adds.
LEMMA ReadAllFirst ==
    ASSUME NEW entries, Known(entries), NEW item \in Items, NEW body \in Seq(Items)
    PROVE  ReadAll(<<item>> \o body, entries) = <<ReadingOf(item, entries)>> \o ReadAll(body, entries)
<1>1. PICK f : f = [k \in Items |-> ReadingOf(k, entries)]
    OBVIOUS
<1>2. MapsTo(f, Items, Voices)
    BY <1>1, ReadingOfTyped DEF MapsTo
<1>3. PICK a \in Seq(Items) : a = <<item>>
  <2>1. <<item>> \in Seq(Items)
    OBVIOUS
  <2> QED BY <2>1
<1>4. Mapped(f, a \o body) = Mapped(f, a) \o Mapped(f, body)
  <2>1. PICK X, Y : X = Items /\ Y = Voices
    OBVIOUS
  <2>2. MapsTo(f, X, Y) /\ a \in Seq(X) /\ body \in Seq(X)
    BY <1>2, <1>3, <2>1
  <2> QED BY <2>2, MappedTwo
<1>5. ASSUME NEW s \in Seq(Items)
      PROVE  Mapped(f, s) = ReadAll(s, entries)
  <2>1. \A i \in DOMAIN s : s[i] \in Items
    OBVIOUS
  <2> QED BY <1>1, <2>1 DEF Mapped, ReadAll
<1>6. a \o body \in Seq(Items)
    BY <1>3
<1>7. ReadAll(a, entries) = <<ReadingOf(item, entries)>>
  <2>1. DOMAIN a = 1..1 /\ a[1] = item
    BY <1>3
  <2>2. PICK r : r = ReadingOf(item, entries)
    OBVIOUS
  <2>3. [i \in 1..1 |-> r] = <<r>>
    OBVIOUS
  <2>4. ReadAll(a, entries) = [i \in 1..1 |-> r]
    BY <2>1, <2>2 DEF ReadAll
  <2> QED BY <2>2, <2>3, <2>4
<1> QED BY <1>3, <1>4, <1>5, <1>6, <1>7

\* The turns of a translation, with the user's turn before them where it is required.
OpenedItems(body) ==
    IF body # <<>> /\ Head(body).role = "assistant" THEN <<Continued>> \o body ELSE body

\* An opening turn put before the items of turns is said before them.
LEMMA OpenedSays ==
    ASSUME NEW entries, Known(entries), NEW body \in Seq(TurnItems("assistant"))
    PROVE  /\ ReadAll(OpenedItems(body), entries)
                = Opened(ReadingOf(Continued, entries), ReadAll(body, entries))
           /\ OpenedItems(body) \in Seq(Items)
<1>1. body \in Seq(Items)
  <2>1. \A item \in TurnItems("assistant") : item \in Items
    BY TurnItemSays
  <2> QED BY <2>1
<1>2. Continued \in Items
    BY ContinuedTyped, ContinuedTold DEF Told
<1>3. PICK R \in Seq(Voices) : R = ReadAll(body, entries)
    BY <1>1, ReadAllTyped
<1>4. R = <<>> <=> body = <<>>
  <2>1. DOMAIN R = DOMAIN body
    BY <1>3 DEF ReadAll
  <2> QED BY <1>1, <1>3, <2>1
<1>5. ASSUME body # <<>>
      PROVE  Head(R).role = "assistant" <=> Head(body).role = "assistant"
  <2>1. 1 \in DOMAIN body /\ Head(body) = body[1] /\ body[1] \in TurnItems("assistant")
    BY <1>5
  <2>2. Head(R) = R[1]
    BY <1>3, <1>4, <1>5
  <2>3. R[1] = ReadingOf(body[1], entries)
    BY <1>3, <2>1 DEF ReadAll
  <2>4. PICK item \in TurnItems("assistant") : item = body[1]
    BY <2>1
  <2>5. /\ item.role \in {"user", "assistant"}
        /\ ReadingOf(item, entries)
             = [role |-> IF item.role = "user" THEN "user" ELSE "assistant",
                says |-> Voiced(item.content.parts, entries)]
    BY TurnItemSays
  <2>6. ReadingOf(item, entries).role = item.role
    BY <2>5
  <2> QED BY <2>1, <2>2, <2>3, <2>4, <2>6
<1>6. CASE body # <<>> /\ Head(body).role = "assistant"
  <2>1. OpenedItems(body) = <<Continued>> \o body
    BY <1>6 DEF OpenedItems
  <2>2. ReadAll(<<Continued>> \o body, entries) = <<ReadingOf(Continued, entries)>> \o R
    BY <1>1, <1>2, <1>3, ReadAllFirst
  <2>3. Opened(ReadingOf(Continued, entries), R) = <<ReadingOf(Continued, entries)>> \o R
    BY <1>4, <1>5, <1>6 DEF Opened
  <2>4. <<Continued>> \o body \in Seq(Items)
    <3>1. <<Continued>> \in Seq(Items)
      BY <1>2
    <3> QED BY <1>1, <3>1
  <2> QED BY <1>3, <2>1, <2>2, <2>3, <2>4
<1>7. CASE ~(body # <<>> /\ Head(body).role = "assistant")
  <2>1. OpenedItems(body) = body
    BY <1>7 DEF OpenedItems
  <2>2. Opened(ReadingOf(Continued, entries), R) = R
    BY <1>4, <1>5, <1>7 DEF Opened
  <2> QED BY <1>1, <1>3, <2>1, <2>2
<1> QED BY <1>6, <1>7

(***************************************************************************)
(* What a translation changes                                              *)
(***************************************************************************)

\* The settings of a translation.
LimitFor(q, limit) == IF q = "anthropic" /\ limit = None THEN DefaultMaxTokens ELSE limit
\* The temperature a translation keeps.
TempFor(q, temp) == IF q = "anthropic" THEN None ELSE temp
\* The stop sequences a translation keeps.
StopFor(q, stop) ==
    CASE q = "openai" -> SubSeq(stop, 1, IF Len(stop) < 4 THEN Len(stop) ELSE 4)
      [] q = "openai-responses" -> <<>>
      [] q \in {"anthropic", "google"} -> stop

\* The settings a translation makes of the parameters.
SettingsFor(q, params) ==
    Settings({}, LimitFor(q, params.limit), TempFor(q, params.temp), StopFor(q, params.stop), None)

\* The turns of a translation.
TurnsFor(q, turns) ==
    IF q = "anthropic" THEN Opened(ReadingOf(Continued, {}), turns) ELSE turns

\* A translation says the same words of the system and the same turns.
LEMMA TranslationSays ==
    ASSUME NEW entries, Known(entries), NEW q \in Providers, NEW req, ArePlain(req.messages),
           NEW kwargs, kwargs = ToKwargsTranslated(q, req)
    PROVE  /\ SystemSaid(Readings(kwargs, entries)) = SystemSaid(Heard(req.messages, entries))
           /\ TurnsSaid(Readings(kwargs, entries)) =
                TurnsFor(q, TurnsSaid(Heard(req.messages, entries)))
           /\ kwargs.settings = SettingsFor(q, req.params)
<1>1. PICK ms : ms = req.messages /\ ArePlain(ms)
    OBVIOUS
<1>2. ms \in Seq(MessageTypes) /\ \A i \in DOMAIN ms : IsPlain(ms[i])
    BY <1>1 DEF ArePlain
<1>3. PICK H \in Seq(Voices) : H = Heard(ms, entries)
    BY <1>2, HeardTyped
<1>4. PICK P : P = SystemRead(SystemText(ms), entries)
    OBVIOUS
<1>5. PICK c \in Voices : c = ReadingOf(Continued, entries) /\ c = ReadingOf(Continued, {})
                          /\ c.role = "user"
    BY ContinuedSays
<1>6. PICK T \in Seq(Voices) : T = TurnsSaid(H)
    BY <1>3, SaidTyped
<1>7. Settled(T) /\ Settled(Opened(c, T))
    BY <1>3, <1>5, <1>6, TurnsSettled
<1>8. \A R \in Seq(Voices) : SystemSaid(R) = <<>> =>
          SystemSaid(P \o R) = SystemSaid(H) /\ TurnsSaid(P \o R) = TurnsSaid(R)
    BY <1>1, <1>3, <1>4, PromptAhead
<1>9. PICK params : params = req.params
    OBVIOUS
<1>10. CASE q = "openai"
  <2>1. /\ kwargs.system = None /\ kwargs.turns = TranslatedAll(ms)
        /\ kwargs.settings = SettingsFor(q, params)
    BY <1>1, <1>9, <1>10 DEF ToKwargsTranslated, Kwargs, SettingsFor, LimitFor, TempFor, StopFor, Settings
  <2>2. Readings(kwargs, entries) = <<>> \o ReadAll(TranslatedAll(ms), entries)
    <3>1. SystemRead(None, entries) = <<>>
      BY DEF SystemRead
    <3> QED BY <2>1, <3>1, ReadingsForm
  <2>3. ReadAll(TranslatedAll(ms), entries) = H
    BY <1>2, <1>3, TranslatedAllSays
  <2>4. <<>> \o H = H
    OBVIOUS
  <2> QED BY <1>1, <1>3, <1>9, <1>10, <2>1, <2>2, <2>3, <2>4 DEF TurnsFor
<1>11. CASE q = "openai-responses"
  <2>1. /\ kwargs.system = SystemText(ms) /\ kwargs.turns = TranslatedAll(NotSystem(ms))
        /\ kwargs.settings = SettingsFor(q, params)
    BY <1>1, <1>9, <1>11 DEF ToKwargsTranslated, Kwargs, SettingsFor, LimitFor, TempFor, StopFor, Settings
  <2>2. PICK said : said = NotSystem(ms) /\ ArePlain(said)
    BY <1>1, NotSystemPlain
  <2>3. PICK R \in Seq(Voices) : R = Heard(said, entries)
    BY <2>2, HeardTyped DEF ArePlain
  <2>4. ReadAll(TranslatedAll(said), entries) = R
    <3>1. \A i \in DOMAIN said : IsPlain(said[i])
      BY <2>2 DEF ArePlain
    <3> QED BY <2>3, <3>1, TranslatedAllSays
  <2>5. Readings(kwargs, entries) = P \o R
    BY <1>4, <2>1, <2>2, <2>4, ReadingsForm
  <2>6. SystemSaid(R) = <<>> /\ TurnsSaid(R) = T
    BY <1>2, <1>3, <1>6, <2>2, <2>3, NotSystemSays
  <2> QED BY <1>1, <1>3, <1>6, <1>8, <1>9, <1>11, <2>1, <2>3, <2>5, <2>6 DEF TurnsFor
<1>12. CASE q = "google"
  <2>1. /\ kwargs.system = SystemText(ms) /\ kwargs.turns = Merged(ms, "model")
        /\ kwargs.settings = SettingsFor(q, params)
    BY <1>1, <1>9, <1>12 DEF ToKwargsTranslated, Kwargs, SettingsFor, LimitFor, TempFor, StopFor, Settings
  <2>2. ReadAll(Merged(ms, "model"), entries) = T
    BY <1>1, <1>3, <1>6, MergedSays
  <2>3. Readings(kwargs, entries) = P \o T
    BY <1>4, <2>1, <2>2, ReadingsForm
  <2>4. SystemSaid(T) = <<>> /\ TurnsSaid(T) = T
    BY <1>7 DEF Settled
  <2> QED BY <1>1, <1>3, <1>6, <1>8, <1>9, <1>12, <2>1, <2>3, <2>4 DEF TurnsFor
<1>13. CASE q = "anthropic"
  <2>1. /\ kwargs.system = SystemText(ms)
        /\ kwargs.turns = OpenedItems(Merged(ms, "assistant"))
        /\ kwargs.settings = SettingsFor(q, params)
    BY <1>1, <1>9, <1>13
       DEF ToKwargsTranslated, ToAnthropic, Kwargs, SettingsFor, LimitFor, TempFor, StopFor,
           Settings, OpenedItems
  <2>2. PICK body \in Seq(TurnItems("assistant")) :
            body = Merged(ms, "assistant") /\ ReadAll(body, entries) = T
    BY <1>1, <1>3, <1>6, MergedSays
  <2>3. ReadAll(OpenedItems(body), entries) = Opened(c, T)
    BY <1>5, <2>2, OpenedSays
  <2>4. PICK O : O = Opened(c, T)
    OBVIOUS
  <2>5. Readings(kwargs, entries) = P \o O
    BY <1>4, <2>1, <2>2, <2>3, <2>4, ReadingsForm
  <2>6. O \in Seq(Voices) /\ SystemSaid(O) = <<>> /\ TurnsSaid(O) = O
    BY <1>7, <2>4 DEF Settled
  <2>7. SystemSaid(P \o O) = SystemSaid(H) /\ TurnsSaid(P \o O) = O
    BY <1>8, <2>6
  <2>8. TurnsFor(q, T) = O
    BY <1>5, <1>13, <2>4 DEF TurnsFor
  <2> QED BY <1>1, <1>3, <1>6, <1>9, <2>1, <2>5, <2>7, <2>8
<1> QED BY <1>10, <1>11, <1>12, <1>13 DEF Providers

(***************************************************************************)
(* What a call asks, and the request that is made of it                    *)
(***************************************************************************)

\* A message given to complete().
IsAskedItem(item) ==
    /\ item \in Items /\ item.kind = "message"
    /\ item.role \in PortableRoles /\ item.calls = <<>>
    /\ Len(item.content.parts) = 1 /\ IsTextPart(item.content.parts[1])

\* The message build_request makes of it.
TurnOf(item) == Turn(item.role, item.content.parts[1].text)

\* An item complete() is given says what the message made of it says.
LEMMA AskedItemSays ==
    ASSUME NEW entries, Known(entries), NEW item, IsAskedItem(item)
    PROVE  /\ IsPlain(TurnOf(item))
           /\ HeardIn(TurnOf(item), entries) = ReadingOf(item, entries)
           /\ ReadingOf(item, entries).role = item.role
<1>1. /\ item \in Items /\ item.kind = "message" /\ item.role \in PortableRoles
      /\ item.calls = <<>>
    BY DEF IsAskedItem
<1>2. PICK parts \in Seq(ContentParts) : parts = item.content.parts
    BY <1>1 DEF Items, Contents
<1>3. Len(parts) = 1 /\ IsTextPart(parts[1])
    BY <1>2 DEF IsAskedItem
<1>4. PICK p \in ContentParts : p = parts[1] /\ p.kind = "text"
    BY <1>3 DEF IsTextPart
<1>5. PICK text \in Text : text = p.text
    BY DEF ContentParts
<1>6. p = Part("text", text)
    BY <1>4, <1>5 DEF ContentParts, Part
<1>7. parts = <<p>>
    BY <1>3, <1>4
<1>8. PICK role \in PortableRoles : role = item.role
    BY <1>1
<1>9. TurnOf(item) = Turn(role, text)
    BY <1>2, <1>4, <1>5, <1>8 DEF TurnOf
<1>10. PICK m : m = Turn(role, text)
    OBVIOUS
<1>11. m.role = role /\ m.content = Str(text) /\ m.item = NoItem
    BY <1>10 DEF Turn, Message
<1>12. m \in MessageTypes
  <2>1. role \in Roles
    BY DEF PortableRoles, Roles
  <2> QED BY <1>10, <2>1, TurnTyped
<1>13. m.content.parts = <<p>> /\ m.item.calls = <<>>
    BY <1>6, <1>11 DEF Str, NoItem, Item
<1>14. IsPlain(m)
  <2>1. IsTextOnly(m)
    BY <1>4, <1>13 DEF IsTextOnly, IsTextPart
  <2> QED BY <1>11, <1>12, <1>13, <2>1 DEF IsPlain
<1>15. SpeakerOf(item) = role /\ Voice(role) = role /\ Counted(item) = item.content
    BY <1>1, <1>8 DEF SpeakerOf, RoleOf, Canonical, PortableRoles, Voice, Counted
<1>16. Uttered(item.content, item.calls, entries) = Uttered(m.content, m.item.calls, entries)
  <2>1. item.content.parts = m.content.parts /\ item.calls = m.item.calls
    BY <1>1, <1>2, <1>7, <1>13
  <2> QED BY <2>1 DEF Uttered
<1>17. HeardIn(m, entries) = ReadingOf(item, entries)
    BY <1>11, <1>15, <1>16 DEF HeardIn, ReadingOf, Reading
<1>18. ReadingOf(item, entries).role = item.role
    BY <1>8, <1>15 DEF ReadingOf, Reading
<1> QED BY <1>9, <1>10, <1>14, <1>17, <1>18

\* What is given to complete().
IsAsked(asked) ==
    /\ asked.system = None /\ asked.turns \in Seq(Items)
    /\ \A i \in DOMAIN asked.turns : IsAskedItem(asked.turns[i])
    /\ \E i \in DOMAIN asked.turns : asked.turns[i].role # "system"
    /\ asked.settings.body = None

\* What complete() is asked has the form the assumption on AskedArgs gives it.
LEMMA AskedIsAsked ==
    ASSUME NEW c \in Calls, c.via = "complete"
    PROVE  IsAsked(c.asked)
<1>1. PICK asked : asked = c.asked
    OBVIOUS
<1>2. /\ IsArgs("openai", asked)
      /\ \A i \in DOMAIN asked.turns :
            LET item == asked.turns[i] IN
            /\ item.role \in PortableRoles /\ item.calls = <<>>
            /\ Len(item.content.parts) = 1 /\ IsTextPart(item.content.parts[1])
      /\ \E i \in DOMAIN asked.turns : asked.turns[i].role # "system"
      /\ asked.settings.body = None
    BY <1>1, AskedAssumption
<1>3. /\ asked.system = None /\ asked.turns \in Seq(Items)
      /\ \A i \in DOMAIN asked.turns : asked.turns[i].kind = "message"
    BY <1>2 DEF IsArgs
<1>4. \A i \in DOMAIN asked.turns : IsAskedItem(asked.turns[i])
    BY <1>2, <1>3 DEF IsAskedItem
<1> QED BY <1>1, <1>2, <1>3, <1>4 DEF IsAsked

\* The settings build_request gives the SDK.
BuiltSettings(q, s) ==
    Settings(s.opts, LimitFor(q, s.limit), TempFor(q, s.temp), StopFor(q, s.stop),
             IF q = "anthropic" THEN s.temp ELSE None)

\* Arguments that are translated are arguments.
LEMMA TranslatedForm ==
    ASSUME NEW q \in Providers, NEW req, NEW kwargs, kwargs = ToKwargsTranslated(q, req)
    PROVE  \E system, turns, settings :
              kwargs = [model |-> req.model, system |-> system, turns |-> turns, shape |-> "list",
                        settings |-> settings]
<1>1. CASE q = "openai"
    BY <1>1 DEF ToKwargsTranslated, Kwargs
<1>2. CASE q = "openai-responses"
    BY <1>2 DEF ToKwargsTranslated, Kwargs
<1>3. CASE q = "google"
    BY <1>3 DEF ToKwargsTranslated, Kwargs
<1>4. CASE q = "anthropic"
    BY <1>4 DEF ToKwargsTranslated, ToAnthropic, Kwargs
<1> QED BY <1>1, <1>2, <1>3, <1>4 DEF Providers

\* What build_request gives the SDK says what complete() was given, as a translation does.
LEMMA BuiltSays ==
    ASSUME NEW entries, Known(entries), NEW q \in Providers, NEW asked, IsAsked(asked),
           NEW kwargs, kwargs = BuildKwargs(q, asked), NEW R, R = ReadAll(asked.turns, entries)
    PROVE  /\ SystemSaid(Readings(kwargs, entries)) = SystemSaid(R)
           /\ TurnsSaid(Readings(kwargs, entries)) = TurnsFor(q, TurnsSaid(R))
           /\ kwargs.settings = BuiltSettings(q, asked.settings)
<1>1. PICK turns \in Seq(Items) : turns = asked.turns /\ \A i \in DOMAIN turns : IsAskedItem(turns[i])
    BY DEF IsAsked
<1>2. PICK params : params = [limit |-> asked.settings.limit, temp |-> asked.settings.temp,
                              stop |-> asked.settings.stop]
    OBVIOUS
<1>3. PICK messages : messages = [i \in DOMAIN turns |-> TurnOf(turns[i])]
    OBVIOUS
<1>4. DOMAIN messages = DOMAIN turns /\ \A i \in DOMAIN turns : messages[i] = TurnOf(turns[i])
    BY <1>3
<1>5. \A i \in DOMAIN turns :
          /\ IsPlain(TurnOf(turns[i]))
          /\ HeardIn(TurnOf(turns[i]), entries) = ReadingOf(turns[i], entries)
    BY <1>1, AskedItemSays
<1>6. ArePlain(messages)
  <2>1. PICK N \in Nat : DOMAIN turns = 1..N
    OBVIOUS
  <2>2. \A i \in 1..N : TurnOf(turns[i]) \in MessageTypes
    BY <1>5, <2>1 DEF IsPlain
  <2>3. messages \in [1..N -> MessageTypes]
    BY <1>3, <2>1, <2>2
  <2>4. messages \in Seq(MessageTypes)
    BY <2>3
  <2> QED BY <1>4, <1>5, <2>4 DEF ArePlain
<1>7. Heard(messages, entries) = R
  <2>1. ReadAll(turns, entries) = [i \in DOMAIN turns |-> ReadingOf(turns[i], entries)]
    BY DEF ReadAll
  <2>2. Heard(messages, entries) = [i \in DOMAIN turns |-> HeardIn(messages[i], entries)]
    BY <1>4 DEF Heard
  <2>3. \A i \in DOMAIN turns : HeardIn(messages[i], entries) = ReadingOf(turns[i], entries)
    BY <1>4, <1>5
  <2> QED BY <1>1, <2>1, <2>2, <2>3
<1>8. PICK req : req = Request(q, asked.model, messages, params, None, None)
    OBVIOUS
<1>9. req.messages = messages /\ req.params = params
    BY <1>8 DEF Request
<1>10. PICK plain : plain = ToKwargsTranslated(q, req)
    OBVIOUS
<1>11. BuildKwargs(q, asked) = [plain EXCEPT
          !.settings.opts = asked.settings.opts,
          !.settings.body = IF q = "anthropic" THEN params.temp ELSE None]
    BY <1>1, <1>2, <1>3, <1>8, <1>10 DEF BuildKwargs, TurnOf
<1>12. /\ SystemSaid(Readings(plain, entries)) = SystemSaid(R)
       /\ TurnsSaid(Readings(plain, entries)) = TurnsFor(q, TurnsSaid(R))
       /\ plain.settings = SettingsFor(q, params)
    BY <1>6, <1>7, <1>9, <1>10, TranslationSays
<1>13. PICK system, items, settings :
          plain = [model |-> req.model, system |-> system, turns |-> items, shape |-> "list",
                   settings |-> settings]
    BY <1>10, TranslatedForm
<1>14. kwargs.system = plain.system /\ kwargs.turns = plain.turns
    BY <1>11, <1>13
<1>15. kwargs.settings = [plain.settings EXCEPT
          !.opts = asked.settings.opts,
          !.body = IF q = "anthropic" THEN params.temp ELSE None]
    BY <1>11, <1>13
<1>16. SettingsFor(q, params) = SettingsFor(q, asked.settings)
    BY <1>2 DEF SettingsFor
<1>17. kwargs.settings = BuiltSettings(q, asked.settings)
  <2>1. PICK limit, temp, stop : /\ limit = LimitFor(q, asked.settings.limit)
                                 /\ temp = TempFor(q, asked.settings.temp)
                                 /\ stop = StopFor(q, asked.settings.stop)
    OBVIOUS
  <2>2. SettingsFor(q, asked.settings) = Settings({}, limit, temp, stop, None)
    BY <2>1 DEF SettingsFor
  <2>3. kwargs.settings = Settings(asked.settings.opts, limit, temp, stop,
                                   IF q = "anthropic" THEN params.temp ELSE None)
    <3>1. PICK o, b : o = asked.settings.opts /\ b = IF q = "anthropic" THEN params.temp ELSE None
      OBVIOUS
    <3>2. PICK s : s = plain.settings /\ s = Settings({}, limit, temp, stop, None)
      BY <1>12, <1>16, <2>2
    <3>3. [s EXCEPT !.opts = o, !.body = b] = Settings(o, limit, temp, stop, b)
      <4>1. s = [opts |-> {}, limit |-> limit, temp |-> temp, stop |-> stop, body |-> None]
        BY <3>2 DEF Settings
      <4>2. [s EXCEPT !.opts = o]
              = [opts |-> o, limit |-> limit, temp |-> temp, stop |-> stop, body |-> None]
        BY <4>1
      <4>3. PICK r : r = [s EXCEPT !.opts = o]
        OBVIOUS
      <4>4. [s EXCEPT !.opts = o, !.body = b] = [r EXCEPT !.body = b]
        BY <4>1, <4>3
      <4>5. r = [opts |-> o, limit |-> limit, temp |-> temp, stop |-> stop, body |-> None]
        BY <4>2, <4>3
      <4>6. [r EXCEPT !.body = b]
              = [opts |-> o, limit |-> limit, temp |-> temp, stop |-> stop, body |-> b]
        BY <4>5
      <4> QED BY <4>4, <4>6 DEF Settings
    <3>4. kwargs.settings = [s EXCEPT !.opts = o, !.body = b]
      BY <1>15, <3>1, <3>2
    <3> QED BY <3>1, <3>3, <3>4
  <2>4. params.temp = asked.settings.temp
    BY <1>2
  <2> QED BY <2>1, <2>3, <2>4 DEF BuiltSettings
<1>18. Readings(kwargs, entries) = Readings(plain, entries)
    BY <1>14, ReadingsForm
<1> QED BY <1>12, <1>17, <1>18

(***************************************************************************)
(* What a call says to its own provider                                    *)
(***************************************************************************)

\* What is said with settings.
SaidAs(system, turns, settings) ==
    [system |-> system, turns |-> turns, limit |-> settings.limit,
     temp |-> IF settings.temp # None THEN settings.temp ELSE settings.body,
     stop |-> settings.stop, opts |-> settings.opts \intersect TaskOptions]

\* What arguments say, as a record of its parts.
LEMMA SaidForm ==
    ASSUME NEW entries, NEW kwargs
    PROVE  Said(kwargs, entries) = SaidAs(SystemSaid(Readings(kwargs, entries)),
                                          TurnsSaid(Readings(kwargs, entries)), kwargs.settings)
BY DEF Said, SaidAs

\* What a call asks with the turns that re-asking has added.
AskedReadings(c, added, entries) ==
    SystemRead(c.asked.system, entries) \o ReadAll(c.asked.turns \o added, entries)

\* What a call asks with the turns added, as Asked reads it.
AskedOf(c, added, entries) ==
    Said(Kwargs(c.asked.model, c.asked.system, c.asked.turns \o added, c.asked.shape,
                c.asked.settings), entries)

\* What a call and its re-asks say, as a record of its parts.
LEMMA AskedForm ==
    ASSUME NEW c, NEW added, NEW entries, NEW R, R = AskedReadings(c, added, entries)
    PROVE  AskedOf(c, added, entries) = SaidAs(SystemSaid(R), TurnsSaid(R), c.asked.settings)
<1>1. PICK kwargs : kwargs = Kwargs(c.asked.model, c.asked.system, c.asked.turns \o added,
                                    c.asked.shape, c.asked.settings)
    OBVIOUS
<1>2. /\ kwargs.system = c.asked.system /\ kwargs.turns = c.asked.turns \o added
      /\ kwargs.settings = c.asked.settings
    BY <1>1 DEF Kwargs
<1>3. Readings(kwargs, entries) = R
    BY <1>2, ReadingsForm DEF AskedReadings
<1>4. Said(kwargs, entries) = SaidAs(SystemSaid(R), TurnsSaid(R), c.asked.settings)
    BY <1>2, <1>3, SaidForm
<1> QED BY <1>1, <1>4 DEF AskedOf

\* The arguments that Receive makes a request of.
ArgsOf(c) == IF c.via = "complete" THEN BuildKwargs(c.caller, c.asked) ELSE c.asked

\* The arguments a call starts with are arguments its provider takes.
LEMMA ArgsAccepted ==
    ASSUME NEW c \in Calls
    PROVE  c.caller \in Providers /\ IsArgs(c.caller, ArgsOf(c))
<1>1. PICK q \in Providers : q = c.caller
    BY CallsAssumption
<1>2. CASE c.via = "complete"
  <2>1. /\ IsArgs("openai", c.asked)
        /\ \A i \in DOMAIN c.asked.turns : Len(c.asked.turns[i].content.parts) = 1
    BY <1>2, AskedAssumption
  <2>2. IsArgs(q, BuildKwargs(q, c.asked))
    BY <2>1, BuiltAccepted
  <2> QED BY <1>1, <1>2, <2>2 DEF ArgsOf
<1>3. CASE c.via # "complete"
  <2>1. IsArgs(q, c.asked)
    BY <1>1, <1>3, AskedAssumption
  <2> QED BY <1>1, <1>3, <2>1 DEF ArgsOf
<1> QED BY <1>2, <1>3

\* What they say, and their settings.
FirstTurns(c, turns) == IF c.via = "complete" THEN TurnsFor(c.caller, turns) ELSE turns

\* The settings the arguments of a call start with.
FirstSettings(c) ==
    IF c.via = "complete" THEN BuiltSettings(c.caller, c.asked.settings) ELSE c.asked.settings

\* What is asked, as readings.
LEMMA AskedTyped ==
    ASSUME NEW entries, Known(entries), NEW c \in Calls, NEW added \in Seq(Items)
    PROVE  /\ c.asked.turns \in Seq(Items)
           /\ AskedReadings(c, added, entries) \in Seq(Voices)
<1>1. PICK asked : asked = c.asked
    OBVIOUS
<1>2. asked.system \in Contents \union {None} /\ asked.turns \in Seq(Items)
    BY <1>1, AskedAssumption DEF IsArgs
<1>3. PICK items \in Seq(Items) : items = asked.turns \o added
  <2>1. PICK turns \in Seq(Items) : turns = asked.turns
    BY <1>2
  <2>2. turns \o added \in Seq(Items)
    BY ValuesJoined
  <2> QED BY <2>1, <2>2
<1>4. PICK R \in Seq(Voices) : R = ReadAll(items, entries)
    BY ReadAllTyped
<1>5. PICK P \in Seq(Voices) : P = SystemRead(asked.system, entries)
    BY <1>2, SystemHeard
<1>6. P \o R \in Seq(Voices)
    OBVIOUS
<1> QED BY <1>1, <1>2, <1>3, <1>4, <1>5, <1>6 DEF AskedReadings

\* The arguments a call starts with say what it asks.
LEMMA ArgsSay ==
    ASSUME NEW entries, Known(entries), NEW c \in Calls,
           NEW R, R = AskedReadings(c, <<>>, entries)
    PROVE  /\ SystemSaid(Readings(ArgsOf(c), entries)) = SystemSaid(R)
           /\ TurnsSaid(Readings(ArgsOf(c), entries)) = FirstTurns(c, TurnsSaid(R))
           /\ ArgsOf(c).settings = FirstSettings(c)
<1>1. PICK asked : asked = c.asked
    OBVIOUS
<1>2. asked.turns \o <<>> = asked.turns
  <2>1. <<>> \in Seq(Items)
    OBVIOUS
  <2>2. asked.turns \in Seq(Items)
    BY <1>1, <2>1, AskedTyped
  <2> QED BY <2>2
<1>3. R = SystemRead(asked.system, entries) \o ReadAll(asked.turns, entries)
    BY <1>1, <1>2 DEF AskedReadings
<1>4. CASE c.via = "complete"
  <2>1. IsAsked(asked)
    BY <1>1, <1>4, AskedIsAsked
  <2>2. PICK q \in Providers : q = c.caller
    BY CallsAssumption
  <2>3. R = ReadAll(asked.turns, entries)
    <3>1. SystemRead(asked.system, entries) = <<>>
      BY <2>1 DEF IsAsked, SystemRead
    <3>2. PICK A \in Seq(Voices) : A = ReadAll(asked.turns, entries)
      BY <2>1, ReadAllTyped DEF IsAsked
    <3>3. <<>> \o A = A
      OBVIOUS
    <3> QED BY <1>3, <3>1, <3>2, <3>3
  <2>4. PICK kwargs : kwargs = BuildKwargs(q, asked)
    OBVIOUS
  <2>5. /\ SystemSaid(Readings(kwargs, entries)) = SystemSaid(R)
        /\ TurnsSaid(Readings(kwargs, entries)) = TurnsFor(q, TurnsSaid(R))
        /\ kwargs.settings = BuiltSettings(q, asked.settings)
    BY <2>1, <2>3, <2>4, BuiltSays
  <2> QED BY <1>1, <1>4, <2>2, <2>4, <2>5 DEF ArgsOf, FirstTurns, FirstSettings
<1>5. CASE c.via # "complete"
  <2>1. Readings(asked, entries) = R
    BY <1>3, ReadingsForm
  <2> QED BY <1>1, <1>5, <2>1 DEF ArgsOf, FirstTurns, FirstSettings
<1> QED BY <1>4, <1>5

\* What is said, of its parts.
LeftAs(system, turns, limit, temp, stop, opts) ==
    [system |-> system, turns |-> turns, limit |-> limit, temp |-> temp, stop |-> stop,
     opts |-> opts]

\* What is said, with other stop sequences, and with another limit, temperature and turns.
WithStop(said, stop) == [said EXCEPT !.stop = stop]
\* What is said, with its limit, temperature and turns changed.
WithOthers(said, limit, temp, turns) ==
    [said EXCEPT !.limit = limit, !.temp = temp, !.turns = turns]

\* What is said, with its stop sequences changed.
LEMMA StopChanged ==
    ASSUME NEW system, NEW turns, NEW limit, NEW temp, NEW stop, NEW opts, NEW ends
    PROVE  WithStop(LeftAs(system, turns, limit, temp, stop, opts), ends)
             = LeftAs(system, turns, limit, temp, ends, opts)
BY DEF LeftAs, WithStop

\* What is said, with its limit, temperature and turns changed, of its parts.
LEMMA OthersChanged ==
    ASSUME NEW system, NEW turns, NEW limit, NEW temp, NEW stop, NEW opts,
           NEW said, NEW most, NEW heat
    PROVE  WithOthers(LeftAs(system, turns, limit, temp, stop, opts), most, heat, said)
             = LeftAs(system, said, most, heat, stop, opts)
<1>1. PICK A : A = [system |-> system, turns |-> turns, limit |-> limit, temp |-> temp,
                    stop |-> stop, opts |-> opts]
    OBVIOUS
<1>2. PICK L : L = [A EXCEPT !.limit = most]
    OBVIOUS
<1>3. L = [system |-> system, turns |-> turns, limit |-> most, temp |-> temp, stop |-> stop,
           opts |-> opts]
    BY <1>1, <1>2
<1>4. PICK M : M = [L EXCEPT !.temp = heat]
    OBVIOUS
<1>5. M = [system |-> system, turns |-> turns, limit |-> most, temp |-> heat, stop |-> stop,
           opts |-> opts]
    BY <1>3, <1>4
<1>6. [M EXCEPT !.turns = said] = LeftAs(system, said, most, heat, stop, opts)
    BY <1>5 DEF LeftAs
<1>7. [A EXCEPT !.limit = most, !.temp = heat, !.turns = said]
        = [L EXCEPT !.temp = heat, !.turns = said]
    BY <1>1, <1>2
<1>8. [L EXCEPT !.temp = heat, !.turns = said] = [M EXCEPT !.turns = said]
    BY <1>3, <1>4
<1>9. LeftAs(system, turns, limit, temp, stop, opts) = A
    BY <1>1 DEF LeftAs
<1> QED BY <1>6, <1>7, <1>8, <1>9 DEF WithOthers

\* What a translation to q leaves of what is said, part by part.
LEMMA LeftRecord ==
    ASSUME NEW q \in Providers, NEW keep \in BOOLEAN,
           NEW system, NEW turns, NEW limit, NEW temp, NEW stop, NEW opts,
           NEW A, A = LeftAs(system, turns, limit, temp, stop, opts)
    PROVE  InTranslation(q, A, keep)
             = LeftAs(system, TurnsFor(q, turns), LimitFor(q, limit),
                         IF keep THEN temp ELSE TempFor(q, temp), StopFor(q, stop), opts)
<1>1. /\ A.turns = turns /\ A.limit = limit /\ A.temp = temp /\ A.stop = stop
    BY DEF LeftAs
<1>2. (IF keep THEN temp ELSE temp) = temp
    OBVIOUS
<1>3. CASE q = "openai"
  <2>1. PICK four : four = SubSeq(stop, 1, IF Len(stop) < 4 THEN Len(stop) ELSE 4)
    OBVIOUS
  <2>2. InTranslation(q, A, keep) = WithStop(A, four)
    BY <1>1, <1>3, <2>1 DEF InTranslation, WithStop
  <2>3. /\ TurnsFor(q, turns) = turns /\ LimitFor(q, limit) = limit
        /\ TempFor(q, temp) = temp /\ StopFor(q, stop) = four
    BY <1>3, <2>1 DEF TurnsFor, LimitFor, TempFor, StopFor
  <2>4. WithStop(A, four) = LeftAs(system, turns, limit, temp, four, opts)
    BY StopChanged
  <2> QED BY <1>2, <2>2, <2>3, <2>4
<1>4. CASE q = "openai-responses"
  <2>1. PICK empty : empty = <<>>
    OBVIOUS
  <2>2. InTranslation(q, A, keep) = WithStop(A, empty)
    BY <1>1, <1>4, <2>1 DEF InTranslation, WithStop
  <2>3. /\ TurnsFor(q, turns) = turns /\ LimitFor(q, limit) = limit
        /\ TempFor(q, temp) = temp /\ StopFor(q, stop) = empty
    BY <1>4, <2>1 DEF TurnsFor, LimitFor, TempFor, StopFor
  <2>4. WithStop(A, empty) = LeftAs(system, turns, limit, temp, empty, opts)
    BY StopChanged
  <2> QED BY <1>2, <2>2, <2>3, <2>4
<1>5. CASE q = "google"
  <2>1. InTranslation(q, A, keep) = A
    BY <1>5 DEF InTranslation
  <2>2. /\ TurnsFor(q, turns) = turns /\ LimitFor(q, limit) = limit
        /\ TempFor(q, temp) = temp /\ StopFor(q, stop) = stop
    BY <1>5 DEF TurnsFor, LimitFor, TempFor, StopFor
  <2> QED BY <1>2, <2>1, <2>2
<1>6. CASE q = "anthropic"
  <2>1. PICK most : most = LimitFor(q, limit)
    OBVIOUS
  <2>2. PICK opened : opened = TurnsFor(q, turns)
    OBVIOUS
  <2>3. PICK heat : heat = IF keep THEN temp ELSE TempFor(q, temp)
    OBVIOUS
  <2>4. /\ most = (IF limit = None THEN DefaultMaxTokens ELSE limit)
        /\ opened = (IF turns # <<>> /\ Head(turns).role = "assistant"
                     THEN <<ReadingOf(Continued, {})>> \o turns ELSE turns)
        /\ heat = (IF keep THEN temp ELSE None)
        /\ StopFor(q, stop) = stop
    BY <1>6, <2>1, <2>2, <2>3 DEF LimitFor, TurnsFor, Opened, TempFor, StopFor
  <2>5. InTranslation(q, A, keep) = WithOthers(A, most, heat, opened)
    <3>1. InTranslation(q, A, keep) =
            [A EXCEPT
              !.limit = IF A.limit = None THEN DefaultMaxTokens ELSE A.limit,
              !.temp  = IF keep THEN A.temp ELSE None,
              !.turns = IF A.turns # <<>> /\ Head(A.turns).role = "assistant"
                        THEN <<ReadingOf(Continued, {})>> \o A.turns ELSE A.turns]
      BY <1>6 DEF InTranslation
    <3> QED BY <1>1, <2>4, <3>1 DEF WithOthers
  <2>6. WithOthers(A, most, heat, opened)
          = LeftAs(system, opened, most, heat, stop, opts)
    BY OthersChanged
  <2> QED BY <2>1, <2>2, <2>3, <2>4, <2>5, <2>6
<1> QED BY <1>3, <1>4, <1>5, <1>6 DEF Providers

\* What a translation leaves of what complete() is asked is what build_request makes of it.
LEMMA LeftForm ==
    ASSUME NEW q \in Providers, NEW system, NEW turns, NEW s, s.body = None
    PROVE  InTranslation(q, SaidAs(system, turns, s), TRUE)
             = SaidAs(system, TurnsFor(q, turns), BuiltSettings(q, s))
<1>1. PICK limit, temp, stop, opts :
          limit = s.limit /\ temp = s.temp /\ stop = s.stop /\ opts = s.opts
    OBVIOUS
<1>2. PICK o : o = opts \intersect TaskOptions
    OBVIOUS
<1>3. SaidAs(system, turns, s) = LeftAs(system, turns, limit, temp, stop, o)
    BY <1>1, <1>2 DEF SaidAs, LeftAs
<1>4. PICK A : A = LeftAs(system, turns, limit, temp, stop, o)
    OBVIOUS
<1>5. PICK keep \in BOOLEAN : keep = TRUE
    OBVIOUS
<1>6. InTranslation(q, A, keep)
        = LeftAs(system, TurnsFor(q, turns), LimitFor(q, limit),
                    IF keep THEN temp ELSE TempFor(q, temp), StopFor(q, stop), o)
    BY <1>4, LeftRecord
<1>7. PICK said, most, ends :
          said = TurnsFor(q, turns) /\ most = LimitFor(q, limit) /\ ends = StopFor(q, stop)
    OBVIOUS
<1>8. PICK heat, body : heat = TempFor(q, temp) /\ body = IF q = "anthropic" THEN temp ELSE None
    OBVIOUS
<1>9. BuiltSettings(q, s) = Settings(opts, most, heat, ends, body)
    BY <1>1, <1>7, <1>8 DEF BuiltSettings
<1>10. (IF heat # None THEN heat ELSE body) = temp
    BY <1>8 DEF TempFor
<1>11. SaidAs(system, said, Settings(opts, most, heat, ends, body))
         = LeftAs(system, said, most, IF heat # None THEN heat ELSE body, ends, o)
    BY <1>2 DEF SaidAs, Settings, LeftAs
<1> QED BY <1>3, <1>4, <1>5, <1>6, <1>7, <1>9, <1>10, <1>11

(***************************************************************************)
(* What it says to another                                                 *)
(***************************************************************************)

\* What is asked, as it comes to the caller's own provider.
FirstOf(c, added, entries) ==
    IF c.via = "complete" THEN InTranslation(c.caller, AskedOf(c, added, entries), TRUE)
    ELSE AskedOf(c, added, entries)

\* What a call says to its own provider, as a record of its parts.
LEMMA FirstForm ==
    ASSUME NEW entries, NEW c \in Calls, NEW added, NEW R, R = AskedReadings(c, added, entries)
    PROVE  FirstOf(c, added, entries)
             = SaidAs(SystemSaid(R), FirstTurns(c, TurnsSaid(R)), FirstSettings(c))
<1>1. PICK system, turns, s : /\ system = SystemSaid(R) /\ turns = TurnsSaid(R)
                              /\ s = c.asked.settings
    OBVIOUS
<1>2. AskedOf(c, added, entries) = SaidAs(system, turns, s)
    BY <1>1, AskedForm
<1>3. CASE c.via = "complete"
  <2>1. s.body = None
    BY <1>1, <1>3, AskedIsAsked DEF IsAsked
  <2>2. PICK q \in Providers : q = c.caller
    BY CallsAssumption
  <2>3. InTranslation(q, SaidAs(system, turns, s), TRUE)
          = SaidAs(system, TurnsFor(q, turns), BuiltSettings(q, s))
    BY <2>1, LeftForm, ZenonT(30)
  <2> QED BY <1>1, <1>2, <1>3, <2>2, <2>3 DEF FirstOf, FirstTurns, FirstSettings
<1>4. CASE c.via # "complete"
    BY <1>1, <1>2, <1>4 DEF FirstOf, FirstTurns, FirstSettings
<1> QED BY <1>3, <1>4

\* What moves to another provider.
MovedOf(c, said) ==
    IF c.caller # "anthropic" /\ c.asked.settings.temp = None
    THEN [said EXCEPT !.temp = None] ELSE said

\* The temperature a request says, and its stop sequences.
LEMMA FirstParams ==
    ASSUME NEW c \in Calls, NEW s, s = FirstSettings(c)
    PROVE  /\ c.caller # "anthropic" => s.temp = c.asked.settings.temp
           /\ c.caller = "openai-responses" => s.stop = <<>>
<1>1. PICK q \in Providers : q = c.caller
    BY CallsAssumption
<1>2. CASE c.via = "complete"
  <2>1. PICK asked : asked = c.asked.settings
    OBVIOUS
  <2>2. s = BuiltSettings(q, asked)
    BY <1>1, <1>2, <2>1 DEF FirstSettings
  <2>3. s.temp = TempFor(q, asked.temp) /\ s.stop = StopFor(q, asked.stop)
    BY <2>2 DEF BuiltSettings, Settings
  <2>4. q # "anthropic" => TempFor(q, asked.temp) = asked.temp
    BY DEF TempFor
  <2>5. q = "openai-responses" => StopFor(q, asked.stop) = <<>>
    BY DEF StopFor
  <2> QED BY <1>1, <2>1, <2>3, <2>4, <2>5
<1>3. CASE c.via # "complete"
  <2>1. c.caller = "openai-responses" => c.asked.settings.stop = <<>>
    BY <1>3, AskedAssumption
  <2> QED BY <1>3, <2>1 DEF FirstSettings
<1> QED BY <1>2, <1>3

\* A translation leaves what it sets.
LEMMA MovedForm ==
    ASSUME NEW q \in Providers, NEW system, NEW turns, NEW params,
           NEW A, A = LeftAs(system, turns, params.limit, params.temp, params.stop, {})
    PROVE  InTranslation(q, A, FALSE) = SaidAs(system, TurnsFor(q, turns), SettingsFor(q, params))
<1>1. PICK limit, temp, stop : limit = params.limit /\ temp = params.temp /\ stop = params.stop
    OBVIOUS
<1>2. PICK none : none = {}
    OBVIOUS
<1>3. A = LeftAs(system, turns, limit, temp, stop, none)
    BY <1>1, <1>2
<1>4. none \intersect TaskOptions = none
    BY <1>2
<1>5. PICK keep \in BOOLEAN : keep = FALSE
    OBVIOUS
<1>6. InTranslation(q, A, keep)
        = LeftAs(system, TurnsFor(q, turns), LimitFor(q, limit),
                    IF keep THEN temp ELSE TempFor(q, temp), StopFor(q, stop), none)
    BY <1>3, LeftRecord
<1>7. PICK said, most, heat, ends :
          /\ said = TurnsFor(q, turns) /\ most = LimitFor(q, limit)
          /\ heat = TempFor(q, temp) /\ ends = StopFor(q, stop)
    OBVIOUS
<1>8. SettingsFor(q, params) = Settings(none, most, heat, ends, None)
    BY <1>1, <1>2, <1>7 DEF SettingsFor
<1>9. SaidAs(system, said, Settings(none, most, heat, ends, None))
        = LeftAs(system, said, most, heat, ends, none)
    BY <1>4 DEF SaidAs, Settings, LeftAs
<1> QED BY <1>5, <1>6, <1>7, <1>8, <1>9

\* What a translation leaves of what a request says is what it sets.
LEMMA SettingsMoved ==
    ASSUME NEW c \in Calls, NEW q \in Providers, NEW s, s = FirstSettings(c),
           s.opts \subseteq PortableOpts, NEW system, NEW turns
    PROVE  InTranslation(q, MovedOf(c, SaidAs(system, turns, s)), FALSE)
             = SaidAs(system, TurnsFor(q, turns), SettingsFor(q, ParamsOf(c.caller, s)))
<1>1. PICK params : params = ParamsOf(c.caller, s)
    OBVIOUS
<1>2. params.limit = s.limit
    BY <1>1 DEF ParamsOf
<1>3. params.stop = s.stop
  <2>1. c.caller = "openai-responses" => s.stop = <<>>
    BY FirstParams
  <2> QED BY <1>1, <2>1 DEF ParamsOf
<1>4. params.temp = IF c.caller = "anthropic" /\ s.temp = None THEN s.body ELSE s.temp
    BY <1>1 DEF ParamsOf
<1>5. c.caller # "anthropic" => s.temp = c.asked.settings.temp
    BY FirstParams
<1>6. s.opts \intersect TaskOptions = {}
    BY DEF PortableOpts, TaskOptions
<1>7. PICK limit, temp, stop, none : /\ limit = s.limit /\ stop = s.stop /\ none = {}
                                     /\ temp = IF s.temp # None THEN s.temp ELSE s.body
    OBVIOUS
<1>8. PICK A : A = LeftAs(system, turns, limit, temp, stop, none)
    OBVIOUS
<1>9. SaidAs(system, turns, s) = A
    BY <1>6, <1>7, <1>8 DEF SaidAs, LeftAs
<1>10. PICK heat : heat = params.temp
    OBVIOUS
<1>11. PICK B : B = LeftAs(system, turns, limit, heat, stop, none)
    OBVIOUS
<1>12. MovedOf(c, A) = B
  <2>1. CASE c.caller # "anthropic" /\ c.asked.settings.temp = None
    <3>1. heat = None
      BY <1>4, <1>5, <1>10, <2>1
    <3>2. MovedOf(c, A) = [A EXCEPT !.temp = heat]
      BY <2>1, <3>1 DEF MovedOf
    <3>3. [A EXCEPT !.temp = heat] = B
      BY <1>8, <1>11 DEF LeftAs
    <3> QED BY <3>2, <3>3
  <2>2. CASE ~(c.caller # "anthropic" /\ c.asked.settings.temp = None)
    <3>1. MovedOf(c, A) = A
      BY <2>2 DEF MovedOf
    <3>2. heat = temp
      BY <1>4, <1>5, <1>7, <1>10, <2>2
    <3> QED BY <1>8, <1>11, <3>1, <3>2
  <2> QED BY <2>1, <2>2
<1>13. B = LeftAs(system, turns, params.limit, params.temp, params.stop, {})
    BY <1>2, <1>3, <1>7, <1>10, <1>11
<1>14. InTranslation(q, B, FALSE) = SaidAs(system, TurnsFor(q, turns), SettingsFor(q, params))
    BY <1>13, MovedForm
<1> QED BY <1>1, <1>9, <1>12, <1>14

(***************************************************************************)
(* What a request tells, of what is asked                                  *)
(***************************************************************************)

\* A reading that is not the system's begins a turn.
LEMMA TurnsBegun ==
    ASSUME NEW R \in Seq(Voices), \E i \in DOMAIN R : R[i].role # "system"
    PROVE  TurnsSaid(R) # <<>>
<1>1. PICK N \in Nat : N = Len(R) /\ DOMAIN R = 1..N
    OBVIOUS
<1>2. PICK first \in 1..N : R[first].role # "system"
    BY <1>1
<1>3. PICK sys, turns : /\ Tells(sys, turns, R, N) /\ TurnsSaid(R) = turns[N]
                        /\ \A n \in 0..N : turns[n] \in Seq(Voices)
  <2>1. \E sys, turns :
          /\ Tells(sys, turns, R, N)
          /\ SystemSaid(R) = sys[N] /\ TurnsSaid(R) = turns[N]
          /\ \A n \in 0..N : sys[n] \in Seq(Utterances) /\ turns[n] \in Seq(Voices)
    BY <1>1, SaidSteps
  <2> QED BY <2>1
<1>4. ASSUME NEW n \in 1..N, turns[n - 1] # <<>> \/ R[n].role # "system"
      PROVE  turns[n] # <<>>
  <2>1. n - 1 \in 0..N
    OBVIOUS
  <2>2. PICK before \in Seq(Voices) : before = turns[n - 1]
    BY <1>3, <2>1
  <2>3. PICK r \in Voices : r = R[n]
    BY <1>1
  <2>4. turns[n] = WithReading(before, r)
    BY <1>3, <2>2, <2>3 DEF Tells
  <2>5. CASE before = <<>>
    <3>1. r.role # "system"
      BY <1>4, <2>2, <2>3, <2>5
    <3>2. WithReading(before, r) # <<>>
      <4>1. WithReading(before, r) = Append(before, r) /\ Append(before, r) # <<>>
        BY <2>5, <3>1, ReadingOpens
      <4> QED BY <4>1
    <3> QED BY <2>4, <3>2
  <2>6. CASE before # <<>>
    <3>1. PICK c \in Voices : c = r
      OBVIOUS
    <3>2. WithReading(before, r) # <<>>
      BY <2>6, <3>1, OpenedMore
    <3> QED BY <2>4, <3>2
  <2> QED BY <2>5, <2>6
<1> DEFINE I == {n \in Nat : first + n <= N => turns[first + n] # <<>>}
<1>5. first \in Nat
    OBVIOUS
<1>6. 0 \in I
  <2>1. first + 0 = first
    BY <1>5
  <2>2. turns[first] # <<>>
    BY <1>2, <1>4
  <2> QED BY <2>1, <2>2
<1>7. ASSUME NEW n \in Nat, n \in I
      PROVE  n + 1 \in I
  <2>1. ASSUME first + (n + 1) <= N
        PROVE  turns[first + (n + 1)] # <<>>
    <3>1. PICK k : k = first + (n + 1)
      OBVIOUS
    <3>2. k \in 1..N /\ k - 1 = first + n /\ first + n <= N
      BY <1>5, <2>1, <3>1
    <3>3. turns[k - 1] # <<>>
      BY <1>7, <3>2
    <3>4. turns[k] # <<>>
      BY <1>4, <3>2, <3>3
    <3> QED BY <3>1, <3>4
  <2> QED BY <2>1
<1>8. \A n \in Nat : n \in I
  <2> HIDE DEF I
  <2> QED BY <1>6, <1>7, SetInduction
<1>9. N - first \in Nat /\ first + (N - first) = N
    BY <1>5
<1>10. turns[N] # <<>>
  <2>1. PICK n \in Nat : n = N - first
    BY <1>9
  <2>2. first + n = N
    BY <1>9, <2>1
  <2>3. n \in I
    BY <1>8
  <2> QED BY <2>2, <2>3
<1> QED BY <1>3, <1>10

\* One more item that is asked is one more reading.
LEMMA AskedMore ==
    ASSUME NEW entries, Known(entries), NEW c \in Calls, NEW added \in Seq(Items), NEW item \in Items,
           NEW R, R = AskedReadings(c, added, entries)
    PROVE  /\ R \in Seq(Voices)
           /\ AskedReadings(c, Append(added, item), entries) = Append(R, ReadingOf(item, entries))
<1>1. PICK turns \in Seq(Items) : turns = c.asked.turns
    BY AskedTyped
<1>2. PICK items \in Seq(Items) : items = turns \o added
  <2>1. turns \o added \in Seq(Items)
    BY ValuesJoined
  <2> QED BY <2>1
<1>3. turns \o Append(added, item) = Append(items, item)
  <2>1. PICK X, x : X = Items /\ x = item
    OBVIOUS
  <2>2. turns \in Seq(X) /\ added \in Seq(X) /\ x \in X
    BY <2>1
  <2>3. turns \o Append(added, x) = Append(turns \o added, x)
    BY <2>2
  <2> QED BY <1>2, <2>1, <2>3
<1>4. PICK S \in Seq(Voices) : S = ReadAll(items, entries)
    BY ReadAllTyped
<1>5. PICK r \in Voices : r = ReadingOf(item, entries)
    BY ReadingOfTyped
<1>6. ReadAll(Append(items, item), entries) = Append(S, r)
    BY <1>4, <1>5, ReadAllAppended
<1>7. PICK P \in Seq(Voices) : P = SystemRead(c.asked.system, entries)
  <2>1. c.asked.system \in Contents \union {None}
    BY AskedAssumption DEF IsArgs
  <2> QED BY <2>1, SystemHeard
<1>8. P \o Append(S, r) = Append(P \o S, r)
  <2>1. PICK X : X = Voices
    OBVIOUS
  <2>2. P \in Seq(X) /\ S \in Seq(X) /\ r \in X
    BY <2>1
  <2> QED BY <2>2
<1>9. R = P \o S
    BY <1>1, <1>2, <1>4, <1>7 DEF AskedReadings
<1>10. AskedReadings(c, Append(added, item), entries) = P \o Append(S, r)
    BY <1>1, <1>3, <1>6, <1>7 DEF AskedReadings
<1>11. P \o S \in Seq(Voices)
    BY ValuesJoined
<1> QED BY <1>5, <1>8, <1>9, <1>10, <1>11

\* The messages of a request tell what the call asks, with the turns of re-asking.
TellsTurns(c, messages, added, entries) ==
    LET R == AskedReadings(c, added, entries) IN
    /\ Known(entries) /\ added \in Seq(Items) /\ WellMarked(messages)
    /\ SystemSaid(Heard(messages, entries)) = SystemSaid(R)
    /\ TurnsSaid(Heard(messages, entries)) = FirstTurns(c, TurnsSaid(R))
    /\ c.via = "complete" => TurnsSaid(R) # <<>>

\* So do its settings.
TellsSettings(c, req) ==
    /\ req.extra.settings = FirstSettings(c)
    /\ req.params = ParamsOf(c.caller, FirstSettings(c))

\* What complete() is given has a turn.
LEMMA AskedBegins ==
    ASSUME NEW entries, Known(entries), NEW c \in Calls, c.via = "complete",
           NEW R, R = AskedReadings(c, <<>>, entries)
    PROVE  TurnsSaid(R) # <<>>
<1>1. PICK asked : asked = c.asked /\ IsAsked(asked)
    BY AskedIsAsked
<1>2. PICK turns \in Seq(Items) : turns = asked.turns
    BY <1>1 DEF IsAsked
<1>3. turns \o <<>> = turns
    OBVIOUS
<1>4. SystemRead(asked.system, entries) = <<>>
    BY <1>1 DEF IsAsked, SystemRead
<1>5. PICK A \in Seq(Voices) : A = ReadAll(turns, entries)
    BY ReadAllTyped
<1>6. <<>> \o A = A
    OBVIOUS
<1>7. R = A
    BY <1>1, <1>2, <1>3, <1>4, <1>5, <1>6 DEF AskedReadings
<1>8. PICK i \in DOMAIN turns : turns[i].role # "system" /\ IsAskedItem(turns[i])
    BY <1>1, <1>2 DEF IsAsked
<1>9. ReadingOf(turns[i], entries).role # "system"
    BY <1>8, AskedItemSays
<1>10. i \in DOMAIN A /\ A[i] = ReadingOf(turns[i], entries)
    BY <1>5 DEF ReadAll
<1> QED BY <1>7, <1>9, <1>10, TurnsBegun

\* The request that Receive makes tells what the call asks.
LEMMA ReceivedTells ==
    ASSUME NEW entries, Known(entries), NEW c \in Calls,
           NEW req, req = ParseNativeRequest(c.caller, ArgsOf(c))
    PROVE  TellsTurns(c, req.messages, <<>>, entries) /\ TellsSettings(c, req)
<1>1. PICK q \in Providers : q = c.caller /\ IsArgs(q, ArgsOf(c))
    BY ArgsAccepted
<1>2. PICK kwargs : kwargs = ArgsOf(c)
    OBVIOUS
<1>3. PICK messages : messages = MessagesOf(q, kwargs)
    OBVIOUS
<1>4. WellMarked(messages)
    BY <1>1, <1>2, <1>3, ParsedMarked
<1>5. SaysTheSame(Heard(messages, entries), Readings(kwargs, entries))
    BY <1>1, <1>2, <1>3, ParsedSays
<1>6. PICK R : R = AskedReadings(c, <<>>, entries)
    OBVIOUS
<1>7. /\ SystemSaid(Readings(kwargs, entries)) = SystemSaid(R)
      /\ TurnsSaid(Readings(kwargs, entries)) = FirstTurns(c, TurnsSaid(R))
      /\ kwargs.settings = FirstSettings(c)
    BY <1>2, <1>6, ArgsSay
<1>8. c.via = "complete" => TurnsSaid(R) # <<>>
    BY <1>6, AskedBegins
<1>9. /\ req.messages = messages /\ req.params = ParamsOf(q, kwargs.settings)
      /\ req.extra = Extra(kwargs)
    BY <1>1, <1>2, <1>3 DEF ParseNativeRequest, Request
<1>10. req.extra.settings = kwargs.settings
    BY <1>9 DEF Extra
<1>11. <<>> \in Seq(Items)
    OBVIOUS
<1>12. TellsTurns(c, messages, <<>>, entries)
    BY <1>4, <1>5, <1>6, <1>7, <1>8, <1>11 DEF TellsTurns, SaysTheSame
<1> QED BY <1>1, <1>7, <1>9, <1>10, <1>12 DEF TellsSettings

\* Also after it was masked.
LEMMA ScreenedTells ==
    ASSUME NEW c \in Calls, NEW req, req = ParseNativeRequest(c.caller, ArgsOf(c)), OfCall(c, req),
           NEW pii, NEW entries, entries = RegistryOf(req, pii), OneToOne(entries),
           NEW out, out = RedactRequest(req, pii, entries)
    PROVE  TellsTurns(c, out.messages, <<>>, entries) /\ TellsSettings(c, out)
<1>1. RequestFields \subseteq DOMAIN req /\ req.messages \in Seq(MessageTypes)
    BY MadeTyped DEF OfCall, MadeOf
<1>2. Known(entries)
    BY <1>1, RegistryKnown
<1>3. TellsTurns(c, req.messages, <<>>, entries) /\ TellsSettings(c, req)
    BY <1>2, ReceivedTells
<1>4. WellMarked(req.messages)
    BY <1>3 DEF TellsTurns
<1>5. /\ Heard(out.messages, entries) = Heard(req.messages, entries)
      /\ WellMarked(out.messages)
      /\ out.params = req.params /\ out.extra = req.extra
    BY <1>1, <1>4, ScreenedSays
<1> QED BY <1>3, <1>5 DEF TellsTurns, TellsSettings

\* The item of a turn that re-asking adds.
ItemOf(role, text) == Item("message", role, Str(text), <<>>)

\* A message added by a re-ask says what its item says.
LEMMA AddedSays ==
    ASSUME NEW entries, Known(entries), NEW role \in {"user", "assistant"}, NEW text \in Text
    PROVE  /\ ItemOf(role, text) \in Items /\ Turn(role, text) \in MessageTypes
           /\ HeardIn(Turn(role, text), entries) = ReadingOf(ItemOf(role, text), entries)
           /\ ReadingOf(ItemOf(role, text), entries).role = role
<1>1. PICK item : item = ItemOf(role, text)
    OBVIOUS
<1>2. /\ item.kind = "message" /\ item.role = role /\ item.content = Str(text)
      /\ item.calls = <<>>
    BY <1>1 DEF ItemOf, Item
<1>3. PICK p : p = Part("text", text)
    OBVIOUS
<1>4. item.content.parts = <<p>>
    BY <1>2, <1>3 DEF Str
<1>5. item \in Items
  <2>1. Str(text) \in Contents
    BY StrTyped
  <2>2. role \in Roles /\ "message" \in ItemKinds
    BY DEF Roles, ItemKinds
  <2>3. <<>> \in Seq(Text)
    OBVIOUS
  <2>4. PICK kind \in ItemKinds, content \in Contents, calls \in Seq(Text) :
            kind = "message" /\ content = Str(text) /\ calls = <<>>
    BY <2>1, <2>2, <2>3
  <2>5. Item(kind, role, content, calls) \in Items
    BY <2>2 DEF Item, Items
  <2> QED BY <1>1, <2>4, <2>5 DEF ItemOf
<1>6. IsAskedItem(item)
  <2>1. Len(item.content.parts) = 1 /\ item.content.parts[1] = p
    BY <1>4
  <2>2. IsTextPart(p)
    BY <1>3 DEF IsTextPart, Part
  <2> QED BY <1>2, <1>5, <2>1, <2>2 DEF IsAskedItem, PortableRoles
<1>7. TurnOf(item) = Turn(role, text)
  <2>1. item.content.parts[1] = p
    BY <1>4
  <2>2. p.text = text
    BY <1>3 DEF Part
  <2> QED BY <1>2, <2>1, <2>2 DEF TurnOf
<1>8. /\ IsPlain(TurnOf(item))
      /\ HeardIn(TurnOf(item), entries) = ReadingOf(item, entries)
      /\ ReadingOf(item, entries).role = item.role
    BY <1>6, AskedItemSays
<1> QED BY <1>1, <1>2, <1>5, <1>7, <1>8 DEF IsPlain

\* One more turn, of messages and of what is asked.
LEMMA TurnTold ==
    ASSUME NEW entries, NEW c \in Calls, NEW added, NEW messages \in Seq(MessageTypes),
           TellsTurns(c, messages, added, entries),
           NEW role \in {"user", "assistant"}, NEW text \in Text
    PROVE  /\ Append(messages, Turn(role, text)) \in Seq(MessageTypes)
           /\ TellsTurns(c, Append(messages, Turn(role, text)),
                         Append(added, ItemOf(role, text)), entries)
<1>1. PICK R : R = AskedReadings(c, added, entries)
    OBVIOUS
<1>2. /\ Known(entries) /\ added \in Seq(Items) /\ WellMarked(messages)
      /\ SystemSaid(Heard(messages, entries)) = SystemSaid(R)
      /\ TurnsSaid(Heard(messages, entries)) = FirstTurns(c, TurnsSaid(R))
      /\ c.via = "complete" => TurnsSaid(R) # <<>>
    BY <1>1 DEF TellsTurns
<1>3. PICK item \in Items : item = ItemOf(role, text)
    BY <1>2, AddedSays
<1>4. PICK m \in MessageTypes : m = Turn(role, text)
    BY <1>2, AddedSays
<1>5. PICK r \in Voices : r = ReadingOf(item, entries) /\ r.role = role
    BY <1>2, <1>3, AddedSays, ReadingOfTyped
<1>6. HeardIn(m, entries) = r
    BY <1>2, <1>3, <1>4, <1>5, AddedSays
<1>7. R \in Seq(Voices) /\ AskedReadings(c, Append(added, item), entries) = Append(R, r)
    BY <1>1, <1>2, <1>5, AskedMore
<1>8. PICK H \in Seq(Voices) : H = Heard(messages, entries)
    BY <1>2, HeardTyped
<1>9. Heard(Append(messages, m), entries) = Append(H, r)
    BY <1>2, <1>6, <1>8, HeardAppended
<1>10. SystemWords(r) = <<>>
    BY <1>5 DEF SystemWords
<1>11. /\ SystemSaid(Append(H, r)) = SystemSaid(H) \o <<>>
       /\ TurnsSaid(Append(H, r)) = WithReading(TurnsSaid(H), r)
       /\ SystemSaid(H) \in Seq(Utterances)
    BY <1>10, SaidAppended
<1>12. /\ SystemSaid(Append(R, r)) = SystemSaid(R) \o <<>>
       /\ TurnsSaid(Append(R, r)) = WithReading(TurnsSaid(R), r)
       /\ SystemSaid(R) \in Seq(Utterances)
    BY <1>7, <1>10, SaidAppended
<1>13. SystemSaid(Append(H, r)) = SystemSaid(Append(R, r))
    BY <1>2, <1>8, <1>11, <1>12
<1>14. PICK T \in Seq(Voices) : T = TurnsSaid(R)
    BY <1>7, SaidTyped
<1>15. c.via = "complete" => WithReading(T, r) # <<>>
  <2>1. ASSUME T # <<>>
        PROVE  WithReading(T, r) # <<>>
    BY <2>1, OpenedMore
  <2> QED BY <1>2, <1>14, <2>1
<1>16. FirstTurns(c, WithReading(T, r)) = WithReading(FirstTurns(c, T), r)
  <2>1. CASE c.via = "complete" /\ c.caller = "anthropic"
    <3>1. T # <<>>
      BY <1>2, <1>14, <2>1
    <3>2. PICK begin \in Voices : begin = ReadingOf(Continued, {})
      BY <1>2, ContinuedSays
    <3>3. WithReading(Opened(begin, T), r) = Opened(begin, WithReading(T, r))
      BY <3>1, OpenedMore
    <3> QED BY <2>1, <3>2, <3>3 DEF FirstTurns, TurnsFor
  <2>2. CASE ~(c.via = "complete" /\ c.caller = "anthropic")
    BY <2>2 DEF FirstTurns, TurnsFor
  <2> QED BY <2>1, <2>2
<1>17. Append(added, item) \in Seq(Items) /\ Append(messages, m) \in Seq(MessageTypes)
    BY <1>2, ValuesAppended
<1>18. WellMarked(Append(messages, m))
  <2>1. PICK more : more = Append(messages, m)
    OBVIOUS
  <2>2. PICK N \in Nat : N = Len(messages) /\ DOMAIN messages = 1..N
    OBVIOUS
  <2>3. /\ DOMAIN more = 1..(N + 1) /\ more[N + 1] = m
        /\ \A i \in 1..N : more[i] = messages[i]
    BY <2>1, <2>2
  <2>4. m.mark = "none" /\ m.role # "system"
    BY <1>4 DEF Turn, Message
  <2>5. ASSUME NEW i \in DOMAIN more
        PROVE  /\ more[i].mark \in {"system", "instructions"} => i = 1 /\ IsTextOnly(more[i])
               /\ more[i].mark = "none" => more[i].role # "system"
               /\ more[i].mark = "item" /\ more[i].item.kind \in {"function_call", "other"} =>
                    more[i].content = Str(<<>>)
    <3>1. CASE i = N + 1
      BY <2>3, <2>4, <3>1
    <3>2. CASE i # N + 1
      <4>1. i \in DOMAIN messages /\ more[i] = messages[i]
        BY <2>2, <2>3, <2>5, <3>2
      <4> QED BY <1>2, <4>1 DEF WellMarked
    <3> QED BY <3>1, <3>2
  <2> QED BY <2>1, <2>5 DEF WellMarked
<1>19. TellsTurns(c, Append(messages, m), Append(added, item), entries)
    BY <1>2, <1>7, <1>8, <1>9, <1>11, <1>12, <1>13, <1>14, <1>15, <1>16, <1>17, <1>18 DEF TellsTurns
<1> QED BY <1>3, <1>4, <1>17, <1>19

\* Values one after the other, as re-asking adds them.
LEMMA TwoAdded ==
    ASSUME NEW X, NEW s \in Seq(X), NEW x \in X, NEW y \in X
    PROVE  s \o <<x, y>> = Append(Append(s, x), y)
OBVIOUS

\* A request with the model's answer and what it is told of it, and what is asked with them.
Retold(req, said, feedback) ==
    AppendMessages(req, <<Turn("assistant", said), Turn("user", feedback)>>)
\* The items asked, with those of the same two turns.
MoreTold(added, said, feedback) ==
    added \o <<ItemOf("assistant", said), ItemOf("user", feedback)>>

\* The request that is asked again tells what was asked, with the two turns.
LEMMA ReaskedTells ==
    ASSUME NEW entries, NEW c \in Calls, NEW added, NEW req, OfCall(c, req),
           TellsTurns(c, req.messages, added, entries), TellsSettings(c, req),
           NEW said \in Text, NEW feedback \in Text
    PROVE  /\ TellsTurns(c, Retold(req, said, feedback).messages,
                         MoreTold(added, said, feedback), entries)
           /\ TellsSettings(c, Retold(req, said, feedback))
<1>1. PICK messages \in Seq(MessageTypes) : messages = req.messages
    BY MadeTyped DEF OfCall, MadeOf
<1>2. Known(entries) /\ added \in Seq(Items)
    BY DEF TellsTurns
<1>3. PICK m, k : m = Turn("assistant", said) /\ k = Turn("user", feedback)
    OBVIOUS
<1>4. PICK a, b : a = ItemOf("assistant", said) /\ b = ItemOf("user", feedback)
    OBVIOUS
<1>5. /\ Append(messages, m) \in Seq(MessageTypes)
      /\ TellsTurns(c, Append(messages, m), Append(added, a), entries)
    BY <1>1, <1>3, <1>4, TurnTold
<1>6. PICK then \in Seq(MessageTypes) : then = Append(messages, m)
    BY <1>5
<1>7. TellsTurns(c, Append(then, k), Append(Append(added, a), b), entries)
    BY <1>3, <1>4, <1>5, <1>6, TurnTold
<1>8. m \in MessageTypes /\ k \in MessageTypes /\ a \in Items /\ b \in Items
    BY <1>2, <1>3, <1>4, AddedSays
<1>9. messages \o <<m, k>> = Append(Append(messages, m), k)
    BY <1>8, TwoAdded
<1>10. added \o <<a, b>> = Append(Append(added, a), b)
    BY <1>2, <1>8, TwoAdded
<1>11. PICK out, more : out = Retold(req, said, feedback) /\ more = MoreTold(added, said, feedback)
    OBVIOUS
<1>12. out.messages = messages \o <<m, k>> /\ out.extra = req.extra /\ out.params = req.params
    BY <1>1, <1>3, <1>11 DEF Retold, AppendMessages, OfCall, RequestFields
<1>13. more = added \o <<a, b>>
    BY <1>4, <1>11 DEF MoreTold
<1>14. TellsTurns(c, out.messages, more, entries)
    BY <1>6, <1>7, <1>9, <1>10, <1>12, <1>13
<1>15. TellsSettings(c, out)
    BY <1>12 DEF TellsSettings
<1> QED BY <1>11, <1>14, <1>15

\* A request that was retargeted has the messages and the parameters it had.
Carries(out, req) == out.messages = req.messages /\ out.params = req.params

\* What is sent to another provider says what a translation leaves.
LEMMA MovedSays ==
    ASSUME NEW entries, NEW c \in Calls, NEW added, NEW req, OfCall(c, req),
           TellsTurns(c, req.messages, added, entries), TellsSettings(c, req), Portable(req),
           NEW q \in Providers, NEW out, Carries(out, req),
           NEW kwargs, kwargs = ToKwargsTranslated(q, out)
    PROVE  Said(kwargs, entries) = InTranslation(q, MovedOf(c, FirstOf(c, added, entries)), FALSE)
<1>1. PICK messages : /\ messages = req.messages /\ messages \in Seq(MessageTypes)
                      /\ out.messages = messages
    BY MadeTyped DEF OfCall, MadeOf, Carries
<1>2. ArePlain(messages)
  <2>1. \A i \in DOMAIN messages : messages[i] \in MessageTypes
    BY <1>1
  <2>2. \A i \in DOMAIN messages : /\ messages[i].role \in PortableRoles
                                   /\ IsTextOnly(messages[i]) /\ messages[i].item.calls = <<>>
    BY <1>1 DEF Portable
  <2> QED BY <1>1, <2>1, <2>2 DEF ArePlain, IsPlain
<1>3. PICK R : R = AskedReadings(c, added, entries)
    OBVIOUS
<1>4. /\ Known(entries)
      /\ SystemSaid(Heard(messages, entries)) = SystemSaid(R)
      /\ TurnsSaid(Heard(messages, entries)) = FirstTurns(c, TurnsSaid(R))
    BY <1>1, <1>3 DEF TellsTurns
<1>5. PICK s : s = FirstSettings(c)
    OBVIOUS
<1>6. s.opts \subseteq PortableOpts /\ out.params = ParamsOf(c.caller, s)
    BY <1>5 DEF TellsSettings, Portable, Carries
<1>7. PICK system, turns : system = SystemSaid(R) /\ turns = FirstTurns(c, TurnsSaid(R))
    OBVIOUS
<1>8. /\ SystemSaid(Readings(kwargs, entries)) = system
      /\ TurnsSaid(Readings(kwargs, entries)) = TurnsFor(q, turns)
      /\ kwargs.settings = SettingsFor(q, out.params)
  <2>1. /\ SystemSaid(Readings(kwargs, entries)) = SystemSaid(Heard(out.messages, entries))
        /\ TurnsSaid(Readings(kwargs, entries)) = TurnsFor(q, TurnsSaid(Heard(out.messages, entries)))
        /\ kwargs.settings = SettingsFor(q, out.params)
    BY <1>1, <1>2, <1>4, TranslationSays
  <2> QED BY <1>1, <1>4, <1>7, <2>1
<1>9. Said(kwargs, entries) = SaidAs(system, TurnsFor(q, turns), SettingsFor(q, out.params))
    BY <1>8, SaidForm
<1>10. FirstOf(c, added, entries) = SaidAs(system, turns, s)
    BY <1>3, <1>5, <1>7, FirstForm
<1>11. InTranslation(q, MovedOf(c, SaidAs(system, turns, s)), FALSE)
         = SaidAs(system, TurnsFor(q, turns), SettingsFor(q, ParamsOf(c.caller, s)))
    BY <1>5, <1>6, SettingsMoved
<1> QED BY <1>6, <1>9, <1>10, <1>11

\* What is sent to the provider of the caller says what is asked.
LEMMA StayedSays ==
    ASSUME NEW entries, NEW c \in Calls, NEW added, NEW req,
           TellsTurns(c, req.messages, added, entries), TellsSettings(c, req),
           NEW q \in Providers, MadeOf(q, req), NEW kwargs, kwargs = ToKwargsNative(q, req)
    PROVE  Said(kwargs, entries) = FirstOf(c, added, entries)
<1>1. PICK R : R = AskedReadings(c, added, entries)
    OBVIOUS
<1>2. /\ Known(entries) /\ WellMarked(req.messages)
      /\ SystemSaid(Heard(req.messages, entries)) = SystemSaid(R)
      /\ TurnsSaid(Heard(req.messages, entries)) = FirstTurns(c, TurnsSaid(R))
    BY <1>1 DEF TellsTurns
<1>3. /\ SaysTheSame(Readings(kwargs, entries), Heard(req.messages, entries))
      /\ kwargs.settings = req.extra.settings
    BY <1>2, NativeSays
<1>4. kwargs.settings = FirstSettings(c)
    BY <1>3 DEF TellsSettings
<1>5. Said(kwargs, entries) = SaidAs(SystemSaid(R), FirstTurns(c, TurnsSaid(R)), FirstSettings(c))
    BY <1>2, <1>3, <1>4, SaidForm DEF SaysTheSame
<1> QED BY <1>1, <1>5, FirstForm

\* What is sent tells what the call asks, to any target.
TellsAsked(c, to, kwargs, added, entries) ==
    Said(kwargs, entries) =
        IF to = c.caller THEN FirstOf(c, added, entries)
        ELSE InTranslation(to, MovedOf(c, FirstOf(c, added, entries)), FALSE)

\* What is sent to a target that is not blocked says what is asked, its own provider's or another.
LEMMA SentTells ==
    ASSUME NEW entries, NEW c \in Calls, NEW added, NEW req, OfCall(c, req),
           TellsTurns(c, req.messages, added, entries), TellsSettings(c, req),
           NEW i \in DOMAIN c.targets, NEW target, target = c.targets[i],
           i > 1 => ~(target.provider # req.origin /\ ~Portable(req)),
           NEW kwargs, kwargs = ToKwargs(target.provider, Retarget(req, target))
    PROVE  TellsAsked(c, target.provider, kwargs, added, entries)
<1>1. PICK q \in Providers : q = target.provider
  <2>1. PICK T : T = [provider : Providers, model : ModelNames]
    OBVIOUS
  <2>2. c.targets \in Seq(T)
    BY <2>1, CallsAssumption
  <2>3. target \in T
    BY <2>2
  <2> QED BY <2>1, <2>3
<1>2. RequestFields \subseteq DOMAIN req /\ req.origin = c.caller /\ MadeOf(c.caller, req)
    BY DEF OfCall
<1>3. q = req.origin \/ Portable(req)
  <2>1. CASE i = 1
    <3>1. c.targets[1].provider = c.caller
      BY CallsAssumption
    <3> QED BY <1>1, <1>2, <2>1, <3>1
  <2>2. CASE i # 1
    <3>1. i > 1
      <4>1. PICK T : T = [provider : Providers, model : ModelNames]
        OBVIOUS
      <4>2. c.targets \in Seq(T)
        BY <4>1, CallsAssumption
      <4>3. i \in Nat /\ i # 0
        BY <4>2
      <4> QED BY <2>2, <4>3
    <3> QED BY <1>1, <3>1
  <2> QED BY <2>1, <2>2
<1>4. PICK out : out = Retarget(req, target)
    OBVIOUS
<1>5. /\ out.messages = req.messages /\ out.origin = req.origin /\ out.pristine = req.pristine
      /\ out.params = req.params
      /\ q = req.origin => out.extra = req.extra
    BY <1>1, <1>2, <1>4 DEF Retarget, RequestFields
<1>6. CASE q = c.caller
  <2>1. kwargs = ToKwargsNative(q, out)
    BY <1>1, <1>2, <1>4, <1>5, <1>6 DEF ToKwargs
  <2>2. MadeOf(q, out)
    BY <1>2, <1>5, <1>6 DEF MadeOf
  <2>3. TellsTurns(c, out.messages, added, entries) /\ TellsSettings(c, out)
    BY <1>2, <1>5, <1>6 DEF TellsSettings
  <2>4. Said(kwargs, entries) = FirstOf(c, added, entries)
    BY <2>1, <2>2, <2>3, StayedSays
  <2> QED BY <1>1, <1>6, <2>4 DEF TellsAsked
<1>7. CASE q # c.caller
  <2>1. kwargs = ToKwargsTranslated(q, out)
    BY <1>1, <1>2, <1>4, <1>5, <1>7 DEF ToKwargs
  <2>2. Carries(out, req)
    BY <1>5 DEF Carries
  <2>3. Portable(req)
    BY <1>2, <1>3, <1>7
  <2>4. Said(kwargs, entries) = InTranslation(q, MovedOf(c, FirstOf(c, added, entries)), FALSE)
    <3>1. OfCall(c, req) /\ TellsTurns(c, req.messages, added, entries) /\ TellsSettings(c, req)
      OBVIOUS
    <3>2. PICK k : k = ToKwargsTranslated(q, out)
      OBVIOUS
    <3>3. Said(k, entries) = InTranslation(q, MovedOf(c, FirstOf(c, added, entries)), FALSE)
      BY <2>2, <2>3, <3>1, <3>2, MovedSays
    <3> QED BY <2>1, <3>2, <3>3
  <2> QED BY <1>1, <1>7, <2>4 DEF TellsAsked
<1> QED BY <1>6, <1>7

(***************************************************************************)
(* What is sent tells what is asked, as an invariant                       *)
(***************************************************************************)

\* What is sent says what is asked, of this state and of the next.
LEMMA SentAsTold ==
    SentSaysTheSame <=> (pc = "sent" => TellsAsked(call, sent.to, sent.kwargs, asks, registry))
<1>1. Asked = AskedOf(call, asks, registry)
    BY DEF Asked, AskedOf
<1>2. \A said : Moved(said) = MovedOf(call, said)
    BY DEF Moved, MovedOf
<1>3. PICK first : first = IF call.via = "complete" THEN InTranslation(call.caller, Asked, TRUE) ELSE Asked
    OBVIOUS
<1>4. first = FirstOf(call, asks, registry)
    BY <1>1, <1>3 DEF FirstOf
<1>5. SentSaysTheSame <=>
        (pc = "sent" => Said(sent.kwargs, registry) =
             IF sent.to = call.caller THEN first ELSE InTranslation(sent.to, Moved(first), FALSE))
    BY <1>3 DEF SentSaysTheSame
<1>6. Moved(first) = MovedOf(call, first)
    BY <1>2
<1> QED BY <1>4, <1>5, <1>6 DEF TellsAsked

\* The same in the next state.
LEMMA SentAsToldNext ==
    SentSaysTheSame' <=>
        (pc' = "sent" => TellsAsked(call', sent'.to, sent'.kwargs, asks', registry'))
<1>1. Asked' = AskedOf(call', asks', registry')
    BY DEF Asked, AskedOf
<1>2. PICK first : first = IF call'.via = "complete" THEN InTranslation(call'.caller, Asked', TRUE)
                           ELSE Asked'
    OBVIOUS
<1>3. first = FirstOf(call', asks', registry')
    BY <1>1, <1>2 DEF FirstOf
<1>4. SentSaysTheSame' <=>
        (pc' = "sent" => Said(sent'.kwargs, registry') =
             IF sent'.to = call'.caller THEN first
             ELSE InTranslation(sent'.to, MovedOf(call', first), FALSE))
    BY <1>2 DEF SentSaysTheSame, Moved, MovedOf
<1> QED BY <1>3, <1>4 DEF TellsAsked

\* The request tells what the call asks: as it was made, and after it was screened with
\* its placeholders resolved and with the turns that re-asking has added.
Telling ==
    /\ pc \in {"called", "screen"} => asks = <<>> /\ registry = {}
    /\ pc = "screen" => request = ParseNativeRequest(call.caller, ArgsOf(call))
    /\ pc \in {"pick", "retry", "sent", "answered"} =>
         TellsTurns(call, request.messages, asks, registry) /\ TellsSettings(call, request)
    /\ SentSaysTheSame

\* A call begins with nothing told.
LEMMA InitTelling == Init => Telling
BY DEF Init, Telling, SentSaysTheSame

\* Telling is kept by steps that change neither the request nor what is asked, and are not
\* Send.
LEMMA TellingStays ==
    ASSUME Telling, UNCHANGED <<call, request, asks, registry>>,
           pc' \notin {"called", "screen"} \/ pc' = pc,
           pc' \in {"pick", "retry", "answered"} => pc \in {"pick", "retry", "sent", "answered"},
           pc' = "sent" => pc = "sent" /\ UNCHANGED sent
    PROVE  Telling'
<1>1. pc = "sent" => TellsAsked(call, sent.to, sent.kwargs, asks, registry)
    BY SentAsTold DEF Telling
<1>2. pc' = "sent" => TellsAsked(call', sent'.to, sent'.kwargs, asks', registry')
    BY <1>1
<1>3. SentSaysTheSame'
    BY <1>2, SentAsToldNext
<1>4. pc' \in {"called", "screen"} => asks' = <<>> /\ registry' = {}
    BY DEF Telling
<1>5. pc' = "screen" => request' = ParseNativeRequest(call'.caller, ArgsOf(call'))
    BY DEF Telling
<1>6. pc' \in {"pick", "retry", "sent", "answered"} =>
        TellsTurns(call', request'.messages, asks', registry') /\ TellsSettings(call', request')
  <2>1. pc' \in {"pick", "retry", "sent", "answered"} =>
          TellsTurns(call, request.messages, asks, registry) /\ TellsSettings(call, request)
    BY DEF Telling
  <2> QED BY <2>1
<1> QED BY <1>3, <1>4, <1>5, <1>6 DEF Telling

\* Steps keep what is told as it was asked.
LEMMA TellingStep ==
    ASSUME Inv, Screening, Telling, [Next]_vars
    PROVE  Telling'
<1>0. call \in Calls /\ index \in DOMAIN call.targets
    BY DEF Inv, Typed, TypeOK
<1>1. /\ pc # "called" => OfCall(call, request)
      /\ pc \in {"pick", "retry", "sent", "answered"} =>
           TellsTurns(call, request.messages, asks, registry) /\ TellsSettings(call, request)
    BY DEF Screening, Telling
<1>2. CASE Receive
  <2>1. /\ pc = "called" /\ pc' = "screen" /\ UNCHANGED <<call, asks, registry>>
        /\ request' = ParseNativeRequest(call.caller, ArgsOf(call))
    BY <1>2 DEF Receive, history, ArgsOf
  <2>2. asks' = <<>> /\ registry' = {}
    BY <2>1 DEF Telling
  <2>3. request' = ParseNativeRequest(call'.caller, ArgsOf(call'))
    BY <2>1
  <2>4. SentSaysTheSame'
    BY <2>1, SentAsToldNext
  <2> QED BY <2>1, <2>2, <2>3, <2>4 DEF Telling
<1>3. CASE Block
  <2>1. pc = "screen" /\ pc' = "raised" /\ UNCHANGED <<call, request, asks, registry>>
    BY <1>3 DEF Block, history
  <2> QED BY <2>1, TellingStays
<1>4. CASE Screen
  <2>1. /\ pc = "screen" /\ pc' = "pick" /\ call' = call /\ asks' = asks
        /\ request' = IF call.pii = None THEN request
                      ELSE RedactRequest(request, call.pii, RegistryOf(request, call.pii))
        /\ registry' = IF call.pii = None THEN registry ELSE RegistryOf(request, call.pii)
    BY <1>4 DEF Screen
  <2>2. /\ asks' = <<>> /\ registry = {} /\ OfCall(call, request)
        /\ request = ParseNativeRequest(call.caller, ArgsOf(call))
    BY <1>1, <2>1 DEF Telling
  <2>3. TellsTurns(call, request'.messages, <<>>, registry') /\ TellsSettings(call, request')
    <3>1. CASE call.pii = None
      <4>1. Known({})
        BY DEF Known
      <4>2. TellsTurns(call, request.messages, <<>>, {}) /\ TellsSettings(call, request)
        BY <1>0, <2>2, <4>1, ReceivedTells
      <4> QED BY <2>1, <2>2, <3>1, <4>2
    <3>2. CASE call.pii # None
      <4>1. PICK pii : pii = call.pii
        OBVIOUS
      <4>2. MadeOf(call.caller, request)
        BY <2>2 DEF OfCall
      <4>3. PICK entries : entries = RegistryOf(request, pii) /\ OneToOne(entries)
        BY <4>2, RegistryOneToOne
      <4>4. PICK out : out = RedactRequest(request, pii, entries)
        OBVIOUS
      <4>5. TellsTurns(call, out.messages, <<>>, entries) /\ TellsSettings(call, out)
        BY <1>0, <2>2, <4>3, <4>4, ScreenedTells
      <4> QED BY <2>1, <3>2, <4>1, <4>3, <4>4, <4>5
    <3> QED BY <3>1, <3>2
  <2>4. TellsTurns(call', request'.messages, asks', registry') /\ TellsSettings(call', request')
    BY <2>1, <2>2, <2>3
  <2>5. SentSaysTheSame'
    BY <2>1, SentAsToldNext
  <2> QED BY <2>1, <2>4, <2>5 DEF Telling
<1>5. CASE SkipTarget
  <2>1. pc = "pick" /\ pc' \in {"pick", "raised"} /\ UNCHANGED <<call, request, asks, registry>>
    BY <1>5 DEF SkipTarget, NextTarget, history
  <2> QED BY <2>1, TellingStays
<1>6. CASE Send
  <2>1. /\ pc \in {"pick", "retry"} /\ pc' = "sent" /\ UNCHANGED <<call, request, asks, registry>>
        /\ index > 1 => ~IsBlocked
        /\ sent' = [to |-> Target.provider,
                    kwargs |-> ToKwargs(Target.provider, Retarget(request, Target))]
    BY <1>6 DEF Send
  <2>2. /\ OfCall(call, request)
        /\ TellsTurns(call, request.messages, asks, registry) /\ TellsSettings(call, request)
    BY <1>1, <2>1
  <2>3. PICK target : target = call.targets[index] /\ target = Target
    BY DEF Target
  <2>4. PICK kwargs : kwargs = ToKwargs(target.provider, Retarget(request, target))
    OBVIOUS
  <2>5. index > 1 => ~(target.provider # request.origin /\ ~Portable(request))
    BY <2>1, <2>3 DEF IsBlocked
  <2>6. TellsAsked(call, target.provider, kwargs, asks, registry)
    BY <1>0, <2>2, <2>3, <2>4, <2>5, SentTells
  <2>7. sent'.to = target.provider /\ sent'.kwargs = kwargs
    BY <2>1, <2>3, <2>4
  <2>8. TellsAsked(call', sent'.to, sent'.kwargs, asks', registry')
    BY <2>1, <2>6, <2>7
  <2>9. SentSaysTheSame'
    BY <2>8, SentAsToldNext
  <2>10. TellsTurns(call', request'.messages, asks', registry') /\ TellsSettings(call', request')
    BY <2>1, <2>2
  <2> QED BY <2>1, <2>9, <2>10 DEF Telling
<1>7. CASE Answer
  <2>1. pc = "sent" /\ pc' = "answered" /\ UNCHANGED <<call, request, asks, registry>>
    BY <1>7 DEF Answer
  <2> QED BY <2>1, TellingStays
<1>8. CASE Fail
  <2>1. /\ pc = "sent" /\ pc' \in {"retry", "pick", "raised"}
        /\ UNCHANGED <<call, request, asks, registry>>
    BY <1>8 DEF Fail, NextTarget
  <2> QED BY <2>1, TellingStays
<1>9. CASE Reask
  <2>1. pc = "answered" /\ UNCHANGED <<call, registry>>
    BY <1>9 DEF Reask
  <2>2. CASE attempt + 1 >= call.attempts
    <3>1. pc' = "raised" /\ UNCHANGED <<request, asks>>
      BY <1>9, <2>2 DEF Reask
    <3> QED BY <2>1, <3>1, TellingStays
  <2>3. CASE ~(attempt + 1 >= call.attempts)
    <3>1. PICK n \in Int : n = attempt
      BY <1>0, CallsAssumption DEF Inv, Typed, TypeOK
    <3>2. PICK zero \in Int : zero = 0
      OBVIOUS
    <3>a. <<"empty", "", zero>> \in Words
      BY WordTyped
    <3>b. <<"feedback", "", n>> \in Words
      BY WordTyped
    <3>3. PICK empty \in Words : empty = <<"empty", "", zero>>
      BY <3>a, Zenon
    <3>4. PICK told \in Words : told = <<"feedback", "", n>>
      BY <3>b, Zenon
    <3>5. PICK said : said = IF response.text = <<>> THEN <<empty>> ELSE response.text
      OBVIOUS
    <3>6. PICK feedback : feedback = <<told>>
      OBVIOUS
    <3>7. /\ pc' = "pick"
          /\ request' = AppendMessages(request, <<Turn("assistant", said), Turn("user", feedback)>>)
          /\ asks' = asks \o <<Item("message", "assistant", Str(said), <<>>),
                               Item("message", "user", Str(feedback), <<>>)>>
      BY <1>9, <2>3, <3>1, <3>2, <3>3, <3>4, <3>5, <3>6 DEF Reask, Feedback
    <3>8. feedback \in Text
      BY <3>4, <3>6, OneValue DEF Text
    <3>9. said \in Text
      <4>1. CASE response.text = <<>>
        BY <3>3, <3>5, <4>1, OneValue DEF Text
      <4>2. CASE response.text # <<>>
        <5>1. answer \in call.answers /\ said = TextOfParts(answer.parts)
          BY <2>1, <3>5, <4>2 DEF Inv, AnswerRead
        <5>2. said \in Seq(Words \intersect Invented(call))
          BY <1>0, <5>1, AnswerWords
        <5> QED BY <5>2, KeepsMore DEF Text
      <4> QED BY <4>1, <4>2
    <3>10. /\ OfCall(call, request)
           /\ TellsTurns(call, request.messages, asks, registry) /\ TellsSettings(call, request)
      BY <1>1, <2>1
    <3>11. PICK more : more = asks \o <<ItemOf("assistant", said), ItemOf("user", feedback)>>
      OBVIOUS
    <3>12. TellsTurns(call, request'.messages, more, registry) /\ TellsSettings(call, request')
      <4>1. PICK c \in Calls : c = call
        BY <1>0 DEF Inv, Typed, TypeOK
      <4>2. PICK req, entries, added : req = request /\ entries = registry /\ added = asks
        OBVIOUS
      <4>3. OfCall(c, req)
        BY <3>10, <4>1, <4>2
      <4>4. TellsTurns(c, req.messages, added, entries)
        BY <3>10, <4>1, <4>2
      <4>5. TellsSettings(c, req)
        BY <3>10, <4>1, <4>2
      <4>6. /\ TellsTurns(c, Retold(req, said, feedback).messages,
                          MoreTold(added, said, feedback), entries)
            /\ TellsSettings(c, Retold(req, said, feedback))
        BY <3>8, <3>9, <4>1, <4>3, <4>4, <4>5, ReaskedTells
      <4>7. Retold(req, said, feedback) = request' /\ MoreTold(added, said, feedback) = more
        BY <3>7, <3>11, <4>2 DEF Retold, MoreTold
      <4> QED BY <4>1, <4>2, <4>6, <4>7
    <3>13. asks' = more
      BY <3>7, <3>11 DEF ItemOf
    <3>14. SentSaysTheSame'
      BY <3>7, SentAsToldNext
    <3>15. TellsTurns(call', request'.messages, asks', registry') /\ TellsSettings(call', request')
      BY <2>1, <3>12, <3>13
    <3> QED BY <3>7, <3>14, <3>15 DEF Telling
  <2> QED BY <2>2, <2>3
<1>10. CASE Accept
  <2>1. pc = "answered" /\ pc' = "accepted" /\ UNCHANGED <<call, request, asks, registry>>
    BY <1>10 DEF Accept, history
  <2> QED BY <2>1, TellingStays
<1>11. CASE Recall
  <2>1. pc = "accepted" /\ pc' = "recalled" /\ UNCHANGED <<call, request, asks, registry>>
    BY <1>11 DEF Recall, history
  <2> QED BY <2>1, TellingStays
<1>12. CASE HandBack
  <2>1. /\ pc \in {"accepted", "recalled"} /\ pc' = "returned"
        /\ UNCHANGED <<call, request, asks, registry>>
    BY <1>12 DEF HandBack, history
  <2> QED BY <2>1, TellingStays
<1>13. CASE UNCHANGED vars
  <2>1. UNCHANGED <<call, request, asks, registry, pc, sent>>
    BY <1>13 DEF vars, history
  <2> QED BY <2>1, TellingStays
<1> QED BY <1>2, <1>3, <1>4, <1>5, <1>6, <1>7, <1>8, <1>9, <1>10, <1>11, <1>12, <1>13 DEF Next

(***************************************************************************)
(* The theorem                                                             *)
(***************************************************************************)

\* Whatever target a request is sent to, in whatever form (parse_native_request and
\* to_kwargs of the providers, middleware/fallback.py), after masking (middleware/security.py),
\* re-asks (middleware/validator.py) and fallbacks, it says to the model what the caller
\* asked: the system prompt, the turns in their order, the limit, temperature and stop
\* sequences, and the options that change the task.  Left out are the outputs of functions
\* that are lists (Counted), and of what another provider is sent what InTranslation and
\* Moved take away: stop sequences beyond four, or all, a temperature from extra_body, and
\* for Anthropic every temperature.
THEOREM WhatIsAskedIsSaid == Spec => []SentSaysTheSame
<1>1. Inv /\ [Next]_vars => Inv'
    BY TypedStep, WaitsStep, CostsStep, AnswerStep, TokensStep, ReplyStep DEF Inv
<1>2. Inv /\ Screening /\ [Next]_vars => Screening'
    BY ScreeningStep
<1>3. Inv /\ Screening /\ Telling /\ [Next]_vars => Telling'
    BY TellingStep
<1>4. Telling => SentSaysTheSame
    BY DEF Telling
<1> QED BY <1>1, <1>2, <1>3, <1>4, InitInv, InitScreening, InitTelling, PTL DEF Spec
=============================================================================
