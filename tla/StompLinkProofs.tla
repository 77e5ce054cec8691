--------------------------- MODULE StompLinkProofs --------------------------
(***************************************************************************)
(* Proofs about StompLink, for all messages, words and headers: what the   *)
(* bridge writes the server reads, what the server writes the bridge reads *)
(* whatever comes behind it in the chunk, and the link is in order.        *)
(***************************************************************************)
EXTENDS StompLink, FiniteSetTheorems, SequenceTheorems, WellFoundedInduction, TLAPS

-----------------------------------------------------------------------------
(* Texts, and functions on numbers that are defined by recursion. *)

LEMMA LessIsRelated ==
  ASSUME NEW x \in Nat, NEW y \in Nat, y < x
  PROVE  <<y, x>> \in OpToRel(<, Nat)
  BY DEF OpToRel

\* A set with 0 and with the next number of each of its numbers has them all.
LEMMA NatSet ==
  ASSUME NEW S, 0 \in S, \A k \in Nat : k \in S => k + 1 \in S
  PROVE  Nat \subseteq S
<1> DEFINE R == OpToRel(<, Nat)
           T == Nat \ S
<1>1. IsWellFoundedOn(R, Nat)
  BY NatLessThanWellFounded
<1>2. \A x, y \in Nat : y < x => <<y, x>> \in R
  BY LessIsRelated
<1> HIDE DEF R
<1>3. SUFFICES ASSUME T # {} PROVE FALSE
  OBVIOUS
<1>4. PICK x \in T : \A y \in T : ~ (<<y, x>> \in R)
  BY <1>1, <1>3, WFMin
<1>5. x # 0 /\ x - 1 \in Nat /\ x = (x - 1) + 1 /\ x - 1 < x
  BY <1>4
<1>6. x - 1 \in T
  BY <1>4, <1>5
<1>7. QED
  BY <1>2, <1>4, <1>5, <1>6

\* A set with 1 and with what comes after each of its numbers, up to N.
LEMMA UpTo ==
  ASSUME NEW S, NEW N \in Nat, 1 \in S, \A k \in 2..N : k - 1 \in S => k \in S
  PROVE  1..N \subseteq S
<1> DEFINE T == {k \in Nat : k + 1 <= N => k + 1 \in S}
<1>1. 0 \in T
  OBVIOUS
<1>2. ASSUME NEW k \in Nat, k \in T PROVE k + 1 \in T
  <2> SUFFICES ASSUME (k + 1) + 1 <= N PROVE (k + 1) + 1 \in S
    OBVIOUS
  <2>1. k + 1 \in S /\ (k + 1) + 1 \in 2..N /\ ((k + 1) + 1) - 1 = k + 1
    BY <1>2
  <2>2. QED
    BY <2>1
<1> HIDE DEF T
<1>3. Nat \subseteq T
  BY <1>1, <1>2, NatSet
<1>4. ASSUME NEW k \in 1..N PROVE k \in S
  <2>1. k - 1 \in T /\ (k - 1) + 1 = k
    BY <1>3
  <2>2. QED
    BY <2>1 DEF T
<1>5. QED
  BY <1>4

LEMMA MinIs ==
  ASSUME NEW S \in SUBSET Nat, NEW m \in S, \A x \in S : m <= x
  PROVE  Min(S) = m
<1>1. \E x \in S : \A y \in S : x <= y
<2> WITNESS m \in S
<2> QED OBVIOUS
<1>2. Min(S) \in S /\ \A y \in S : Min(S) <= y
  BY <1>1 DEF Min
<1>3. Min(S) \in Nat /\ m \in Nat /\ Min(S) <= m /\ m <= Min(S)
  BY <1>2
<1>4. QED
  BY <1>3

LEMMA MaxIs ==
  ASSUME NEW S \in SUBSET Nat, NEW m \in S, \A x \in S : x <= m
  PROVE  Max(S) = m
<1>1. \E x \in S : \A y \in S : x >= y
<2> WITNESS m \in S
<2> QED OBVIOUS
<1>2. Max(S) \in S /\ \A y \in S : Max(S) >= y
  BY <1>1 DEF Max
<1>3. Max(S) \in Nat /\ m \in Nat /\ Max(S) >= m /\ m >= Max(S)
  BY <1>2
<1>4. QED
  BY <1>3

\* f is defined from a base by steps, from 1 up to N.
IsRecursion(f, V, base, step, N) ==
  /\ f \in [1..N -> V]
  /\ f[1] = base
  /\ \A k \in 2..N : f[k] = step[<<k, f[k - 1]>>]

\* A recursive definition on 1..N defines a function.
LEMMA RecursionExists ==
  ASSUME NEW V, NEW base \in V, NEW N \in Nat \ {0}, NEW step \in [(2..N) \X V -> V]
  PROVE  \E f : IsRecursion(f, V, base, step, N)
<1> DEFINE P(n) == \E f \in [1..n -> V] :
                     /\ f[1] = base
                     /\ \A k \in 2..n : f[k] = step[<<k, f[k - 1]>>]
           S == {n \in 1..N : P(n)}
<1>1. P(1)
  <2> DEFINE f == [k \in 1..1 |-> base]
  <2>1. f \in [1..1 -> V] /\ f[1] = base /\ 2..1 = {}
    OBVIOUS
  <2>2. QED
    BY <2>1
<1>2. ASSUME NEW n \in 2..N, P(n - 1) PROVE P(n)
  <2>0. n - 1 \in 1..(n - 1)
    OBVIOUS
  <2>1. PICK f \in [1..(n - 1) -> V] : /\ f[1] = base
                                       /\ \A k \in 2..(n - 1) : f[k] = step[<<k, f[k - 1]>>]
    BY <1>2
  <2> DEFINE g == [k \in 1..n |-> IF k = n THEN step[<<n, f[n - 1]>>] ELSE f[k]]
  <2>2. f[n - 1] \in V /\ <<n, f[n - 1]>> \in (2..N) \X V /\ step[<<n, f[n - 1]>>] \in V
    BY <2>0, <2>1
  <2>3. g \in [1..n -> V] /\ g[1] = base
    BY <2>1, <2>2
  <2>4. ASSUME NEW k \in 2..n PROVE g[k] = step[<<k, g[k - 1]>>]
    <3>1. CASE k = n
      <4>1. g[k - 1] = f[k - 1] /\ g[k] = step[<<n, f[n - 1]>>]
        BY <2>0, <3>1
      <4>2. QED
        BY <3>1, <4>1
    <3>2. CASE k # n
      <4>1. k \in 2..(n - 1) /\ g[k] = f[k] /\ g[k - 1] = f[k - 1]
        BY <3>2
      <4>2. QED
        BY <2>1, <4>1
    <3>3. QED
      BY <3>1, <3>2
  <2> HIDE DEF g
  <2>5. QED
    BY <2>3, <2>4
<1> HIDE DEF P
<1>3. 1 \in S /\ \A n \in 2..N : n - 1 \in S => n \in S
  BY <1>1, <1>2
<1> HIDE DEF S
<1>4. N \in S
  BY <1>3, UpTo
<1>5. QED
  BY <1>4 DEF S, P, IsRecursion
-----------------------------------------------------------------------------
(* Tokens and texts. *)

LEMMA TokenFacts ==
  /\ LF \in Token /\ CR \in Token /\ Colon \in Token /\ NUL \in Token /\ Word \subseteq Token
  /\ LF # CR /\ LF # Colon /\ LF # NUL /\ CR # Colon /\ CR # NUL /\ Colon # NUL
  /\ \A w \in Word : w \notin {LF, CR, Colon, NUL}
  BY WordAssumption DEF LF, CR, Colon, NUL, Token

LEMMA FreeFacts ==
  ASSUME NEW text, NEW tokens, Free(text, tokens)
  PROVE  text \in Text /\ \A i \in 1..Len(text) : text[i] \notin tokens /\ text[i] \in Token
  BY DEF Free, Text, Range

LEMMA TextFacts ==
  ASSUME NEW s \in Text, NEW t \in Text
  PROVE  /\ Len(s) \in Nat /\ DOMAIN s = 1..Len(s)
         /\ s \o t \in Text /\ Len(s \o t) = Len(s) + Len(t)
         /\ \A i \in 1..Len(s) : (s \o t)[i] = s[i]
         /\ \A i \in 1..Len(t) : (s \o t)[Len(s) + i] = t[i]
         /\ \A i \in (Len(s) + 1)..(Len(s) + Len(t)) : (s \o t)[i] = t[i - Len(s)]
  BY DEF Text

LEMMA PartFacts ==
  ASSUME NEW s \in Text, NEW i \in 1..(Len(s) + 1), NEW j \in 0..Len(s), j >= i - 1
  PROVE  /\ SubSeq(s, i, j) \in Text /\ Len(SubSeq(s, i, j)) = j - i + 1
         /\ \A k \in 1..(j - i + 1) : SubSeq(s, i, j)[k] = s[i + k - 1]
  BY DEF Text

LEMMA SameText ==
  ASSUME NEW s \in Text, NEW t \in Text, Len(s) = Len(t), \A i \in 1..Len(s) : s[i] = t[i]
  PROVE  s = t
  BY SeqEqual DEF Text

LEMMA SameParts ==
  ASSUME NEW s \in Text, NEW t \in Text, NEW i \in Nat, NEW j \in Nat, i > 0, i - 1 <= j,
         j <= Len(s), j <= Len(t), \A k \in i..j : s[k] = t[k]
  PROVE  SubSeq(s, i, j) = SubSeq(t, i, j)
<1>0. Len(s) \in Nat /\ Len(t) \in Nat
  BY TextFacts
<1>1. /\ SubSeq(s, i, j) \in Text /\ Len(SubSeq(s, i, j)) = j - i + 1
      /\ \A k \in 1..(j - i + 1) : SubSeq(s, i, j)[k] = s[i + k - 1]
  BY <1>0, PartFacts
<1>2. /\ SubSeq(t, i, j) \in Text /\ Len(SubSeq(t, i, j)) = j - i + 1
      /\ \A k \in 1..(j - i + 1) : SubSeq(t, i, j)[k] = t[i + k - 1]
  BY <1>0, PartFacts
<1>3. \A k \in 1..(j - i + 1) : i + k - 1 \in i..j
  OBVIOUS
<1>4. \A k \in 1..(j - i + 1) : SubSeq(s, i, j)[k] = SubSeq(t, i, j)[k]
  BY <1>1, <1>2, <1>3
<1>5. QED
  BY <1>1, <1>2, <1>4, SameText

LEMMA PartIs ==
  ASSUME NEW s \in Text, NEW t \in Text, NEW a \in Nat, NEW b \in Nat, b = a + Len(t),
         b <= Len(s), \A k \in 1..Len(t) : s[a + k] = t[k]
  PROVE  SubSeq(s, a + 1, b) = t
<1>0. Len(s) \in Nat /\ Len(t) \in Nat
  BY TextFacts
<1> DEFINE u == SubSeq(s, a + 1, b)
<1>1. /\ u \in Text /\ Len(u) = b - (a + 1) + 1
      /\ \A k \in 1..(b - (a + 1) + 1) : u[k] = s[(a + 1) + k - 1]
  BY <1>0, PartFacts
<1>2. b - (a + 1) + 1 = Len(t) /\ \A k \in 1..Len(t) : (a + 1) + k - 1 = a + k
  BY <1>0
<1>3. \A k \in 1..Len(t) : u[k] = s[a + k]
  BY <1>1, <1>2
<1> HIDE DEF u
<1>4. u = t
  BY <1>1, <1>2, <1>3, SameText
<1>5. QED
  BY <1>4 DEF u

LEMMA PrefixIs ==
  ASSUME NEW s \in Text, NEW t \in Text, Len(t) <= Len(s), \A k \in 1..Len(t) : s[k] = t[k]
  PROVE  SubSeq(s, 1, Len(t)) = t
<1>1. Len(t) \in Nat /\ Len(t) = 0 + Len(t) /\ 0 + 1 = 1 /\ \A k \in 1..Len(t) : 0 + k = k
  BY TextFacts
<1>2. \A k \in 1..Len(t) : s[0 + k] = t[k]
  BY <1>1
<1>3. SubSeq(s, 0 + 1, Len(t)) = t
  BY <1>1, <1>2, PartIs
<1>4. QED
  BY <1>1, <1>3

LEMMA WordText ==
  /\ \A w \in Token : <<w>> \in Text /\ Len(<<w>>) = 1 /\ <<w>>[1] = w
  /\ \A v, w \in Token : <<v, w>> \in Text /\ Len(<<v, w>>) = 2
                         /\ <<v, w>>[1] = v /\ <<v, w>>[2] = w
  BY DEF Text

LEMMA MaxExists ==
  ASSUME NEW S \in SUBSET Nat, S # {}, NEW n \in Nat, \A x \in S : x <= n
  PROVE  Max(S) \in S /\ \A x \in S : x <= Max(S)
<1> DEFINE R == OpToRel(<, Nat)
           T == {n - x : x \in S}
<1>1. IsWellFoundedOn(R, Nat)
  BY NatLessThanWellFounded
<1>0. T \in SUBSET Nat /\ T # {}
  <2>1. \A x \in S : n - x \in Nat
    OBVIOUS
  <2>2. QED
    BY <2>1
<1>2. \A x, y \in Nat : y < x => <<y, x>> \in R
  BY LessIsRelated
<1> HIDE DEF R
<1>3. PICK y \in T : \A z \in T : ~ (<<z, y>> \in R)
  BY <1>0, <1>1, WFMin
<1>4. PICK m \in S : y = n - m
  BY <1>3
<1>5. ASSUME NEW x \in S PROVE x <= m
  <2>1. n - x \in T /\ n - x \in Nat /\ n - m \in Nat /\ x \in Nat /\ m \in Nat
    BY <1>0
  <2>2. ~ (n - x < n - m)
    BY <2>1, <1>2, <1>3, <1>4
  <2>3. QED
    BY <2>1, <2>2
<1>6. Max(S) = m
  BY <1>5, MaxIs
<1>7. QED
  BY <1>5, <1>6

-----------------------------------------------------------------------------
(* Pieces of a text. *)

\* Where the piece before the one that ends at e ends.
Before(text, token, e) == Max({0} \cup {i \in Ends(text, token) : i < e})

LEMMA EndsFacts ==
  ASSUME NEW text \in Text, NEW token
  PROVE  /\ Ends(text, token) \subseteq 1..(Len(text) + 1)
         /\ Len(text) + 1 \in Ends(text, token)
         /\ \A i \in 1..Len(text) : i \in Ends(text, token) <=> text[i] = token
<1>1. Len(text) \in Nat /\ DOMAIN text = 1..Len(text)
  BY TextFacts
<1>2. QED
  BY <1>1 DEF Ends

LEMMA SplitFacts ==
  ASSUME NEW text, NEW token
  PROVE  /\ DOMAIN Split(text, token) = Ends(text, token)
         /\ \A e \in Ends(text, token) :
              Split(text, token)[e] = SubSeq(text, Before(text, token, e) + 1, e - 1)
  BY Zenon DEF Split, Before

LEMMA BeforeFacts ==
  ASSUME NEW text \in Text, NEW token, NEW e \in Ends(text, token)
  PROVE  /\ Before(text, token, e) \in 0..(e - 1)
         /\ Before(text, token, e) # 0 =>
              Before(text, token, e) \in Ends(text, token)
<1> DEFINE S == {0} \cup {i \in Ends(text, token) : i < e}
<1>1. S \in SUBSET Nat /\ S # {} /\ e - 1 \in Nat /\ \A x \in S : x <= e - 1
  <2>1. Len(text) \in Nat
    BY TextFacts
  <2>2. QED
    BY <2>1, EndsFacts
<1>2. Max(S) \in S
  BY <1>1, MaxExists
<1>3. QED
  BY <1>1, <1>2 DEF Before

\* What comes before the first of a token is the first piece.
LEMMA FirstPiece ==
  ASSUME NEW token \in Token, NEW b \in Text, NEW r \in Text, 
         \A i \in 1..Len(b) : b[i] # token
  PROVE  First(Split(b \o <<token>> \o r, token)) = b
<1> DEFINE s == b \o <<token>> \o r
           e == Len(b) + 1
<1>1. s \in Text /\ b \o <<token>> \in Text /\ Len(b \o <<token>>) = e
      /\ Len(s) = e + Len(r) /\ Len(b) \in Nat /\ Len(r) \in Nat
  BY TextFacts, WordText
<1>2. \A i \in 1..Len(b) : s[i] = b[i]
  <2>1. \A i \in 1..e : s[i] = (b \o <<token>>)[i]
    BY <1>1, TextFacts
  <2>2. QED
    BY <1>1, <2>1, TextFacts, WordText
<1>3. s[e] = token
  <2>1. s[e] = (b \o <<token>>)[e]
    BY <1>1, TextFacts
  <2>2. (b \o <<token>>)[Len(b) + 1] = <<token>>[1]
    BY TextFacts, WordText
  <2>3. QED
    BY <2>1, <2>2
<1> HIDE DEF s
<1>4. e \in Ends(s, token) /\ \A x \in Ends(s, token) : e <= x
  <2>1. e \in Ends(s, token)
    BY <1>1, <1>3, EndsFacts
  <2>2. ASSUME NEW x \in Ends(s, token) PROVE e <= x
    BY <1>1, <1>2, EndsFacts
  <2>3. QED
    BY <2>1, <2>2
<1>5. Min(DOMAIN Split(s, token)) = e
  <2>1. Ends(s, token) \in SUBSET Nat
    BY <1>1, EndsFacts
  <2>2. QED
    BY <1>4, <2>1, SplitFacts, MinIs
<1>6. Before(s, token, e) = 0
  <2>1. {0} \cup {i \in Ends(s, token) : i < e} = {0}
    BY <1>1, <1>4, EndsFacts
  <2>2. Max({0}) = 0
    BY MaxIs
  <2>3. QED
    BY <2>1, <2>2 DEF Before
<1>7. First(Split(s, token)) = SubSeq(s, 1, Len(b))
  BY <1>1, <1>4, <1>5, <1>6, SplitFacts DEF First
<1>8. SubSeq(s, 1, Len(b)) = b
  BY <1>1, <1>2, PrefixIs
<1>9. QED
  BY <1>7, <1>8 DEF s

-----------------------------------------------------------------------------
(* Lines. *)

Eol == {<<LF>>, <<CR, LF>>}

LEMMA EolFacts ==
  ASSUME NEW eol \in Eol
  PROVE  /\ eol \in Text /\ Len(eol) \in 1..2 /\ eol[Len(eol)] = LF
         /\ Len(eol) = 2 => eol[1] = CR
         /\ eol = IF Len(eol) = 1 THEN <<LF>> ELSE <<CR, LF>>
  BY WordText, TokenFacts DEF Eol

LEMMA LinesFacts ==
  ASSUME NEW text \in Text
  PROVE  /\ DOMAIN Lines(text) = Ends(text, LF)
         /\ \A e \in Ends(text, LF) :
              LET line == SubSeq(text, Before(text, LF, e) + 1, e - 1) IN
                Lines(text)[e] = IF e <= Len(text) /\ line # <<>> /\ Last(line) = CR
                                   THEN Front(line) ELSE line
  BY SplitFacts, Zenon DEF Lines

\* A text that does not end with a part of a line end.
Inline(s) == Len(s) > 0 /\ s[Len(s)] \notin {LF, CR}

\* t is s with another line.
AddsLine(s, eol, l, t) ==
  /\ t \in Text /\ Len(t) = Len(s) + Len(eol) + Len(l)
  /\ Ends(t, LF) = (Ends(s, LF) \ {Len(s) + 1}) \cup {Len(s) + Len(eol), Len(t) + 1}
  /\ \A e \in Ends(s, LF) \ {Len(s) + 1} : Lines(t)[e] = Lines(s)[e]
  /\ Lines(t)[Len(s) + Len(eol)] = Lines(s)[Len(s) + 1]
  /\ Lines(t)[Len(t) + 1] = l

\* A text that a line is added to has the lines it had, and that line.
LEMMA OneMoreLine ==
  ASSUME NEW s \in Text, Inline(s), NEW eol \in Eol, NEW l \in Text, Free(l, {LF, CR})
  PROVE  AddsLine(s, eol, l, s \o eol \o l)
<1> DEFINE u == s \o eol
           t == u \o l
<1>1. /\ Len(s) \in Nat /\ Len(l) \in Nat /\ Len(eol) \in Nat
      /\ Len(eol) = 1 \/ Len(eol) = 2
  BY TextFacts, EolFacts
<1>2. \E n, k, m \in Nat : n = Len(s) /\ k = Len(eol) /\ m = Len(l)
  BY <1>1
<1>3. PICK n \in Nat, k \in Nat, m \in Nat : n = Len(s) /\ k = Len(eol) /\ m = Len(l)
  BY <1>2
<1>4. k = 1 \/ k = 2
  BY <1>1, <1>3
<1> DEFINE a == n + k
<1>a. eol \in Text /\ u \in Text
  BY TextFacts, EolFacts
<1>b. Len(u) = n + k /\ \A i \in 1..n : u[i] = s[i]
  BY <1>3, <1>a, TextFacts
<1>c. \A i \in 1..k : u[n + i] = eol[i]
  BY <1>3, <1>a, TextFacts
<1> HIDE DEF u
<1>5. t \in Text /\ u \in Text
  BY <1>3, <1>a, TextFacts
<1>6. Len(t) = a + m
  <2>1. Len(u \o l) = Len(u) + Len(l)
    BY <1>5, TextFacts
  <2>2. QED
    BY <1>3, <1>b, <2>1
<1>7. \A i \in 1..a : t[i] = u[i]
  <2>1. \A i \in 1..Len(u) : (u \o l)[i] = u[i]
    BY <1>5, TextFacts
  <2>2. QED
    BY <1>3, <1>b, <2>1
<1>d. \A i \in 1..m : t[a + i] = l[i]
  <2>1. \A i \in 1..Len(l) : (u \o l)[Len(u) + i] = l[i]
    BY <1>5, TextFacts
  <2>2. QED
    BY <1>3, <1>b, <2>1
<1> HIDE DEF t
<1>8. \A i \in 1..n : t[i] = s[i]
  BY <1>7, <1>b
<1>9. t[a] = LF /\ (k = 2 => t[n + 1] = CR)
  <2>1. ASSUME NEW i \in Nat, 1 <= i, i <= k PROVE t[n + i] = eol[i]
    BY <1>7, <1>c, <2>1
  <2>2. eol[k] = LF /\ (k = 2 => eol[1] = CR)
    BY <1>3, EolFacts
  <2>3. QED
    BY <1>4, <2>1, <2>2
<1>10. \A i \in 1..m : t[a + i] = l[i]
  BY <1>d
<1>11. \A i \in 1..m : l[i] # LF
  BY <1>3, FreeFacts
<1>12. n > 0 /\ s[n] # LF /\ s[n] # CR
  BY <1>3 DEF Inline
<1> DEFINE old == Ends(s, LF)
           new == Ends(t, LF)
<1>13. /\ old \subseteq 1..(n + 1) /\ n + 1 \in old
       /\ \A i \in 1..n : i \in old <=> s[i] = LF
  BY <1>3, EndsFacts
<1>14. /\ new \subseteq 1..(a + m + 1) /\ a + m + 1 \in new
       /\ \A i \in 1..(a + m) : i \in new <=> t[i] = LF
  BY <1>5, <1>6, EndsFacts
<1>15. /\ \A e \in old : Lines(s)[e] =
            LET line == SubSeq(s, Before(s, LF, e) + 1, e - 1) IN
              IF e <= n /\ line # <<>> /\ Last(line) = CR THEN Front(line) ELSE line
       /\ \A e \in new : Lines(t)[e] =
            LET line == SubSeq(t, Before(t, LF, e) + 1, e - 1) IN
              IF e <= a + m /\ line # <<>> /\ Last(line) = CR THEN Front(line) ELSE line
  BY <1>3, <1>5, <1>6, LinesFacts
<1>16. /\ \A e \in old : /\ Before(s, LF, e) \in 0..(e - 1)
                         /\ Before(s, LF, e) # 0 => Before(s, LF, e) \in old
  BY BeforeFacts
<1> HIDE DEF old, new
<1>17. new = (old \ {n + 1}) \cup {a, a + m + 1}
  <2>1. ASSUME NEW e \in Nat
        PROVE  e \in new <=> e \in (old \ {n + 1}) \cup {a, a + m + 1}
    <3>1. CASE 1 <= e /\ e <= n
      BY <1>4, <1>8, <1>13, <1>14, <3>1
    <3>2. CASE e = n + 1 /\ k = 2
      BY <1>9, <1>14, <3>2, TokenFacts
    <3>3. CASE e = a
      BY <1>4, <1>9, <1>14, <3>3
    <3>4. CASE a + 1 <= e /\ e <= a + m
      <4>1. PICK i \in Nat : e = a + i /\ i >= 1 /\ i <= m
        <5>1. e - a \in Nat /\ e = a + (e - a) /\ e - a >= 1 /\ e - a <= m
          BY <3>4
        <5>2. QED
          BY <5>1
      <4>2. t[e] # LF
        BY <1>10, <1>11, <4>1
      <4>3. e > n + 1
        BY <1>4, <3>4
      <4>4. e \notin old
        BY <1>13, <4>3
      <4>5. e \notin new
        BY <1>14, <3>4, <4>2
      <4>6. QED
        BY <3>4, <4>4, <4>5
    <3>5. CASE e = a + m + 1
      BY <1>14, <3>5
    <3>6. CASE e = 0 \/ e > a + m + 1
      BY <1>4, <1>13, <1>14, <3>6
    <3>7. QED
      <4>1. \/ 1 <= e /\ e <= n
            \/ e = n + 1 /\ k = 2
            \/ e = a
            \/ a + 1 <= e /\ e <= a + m
            \/ e = a + m + 1
            \/ e = 0 \/ e > a + m + 1
        BY <1>4
      <4>2. QED
        BY <3>1, <3>2, <3>3, <3>4, <3>5, <3>6, <4>1
  <2>2. new \subseteq Nat /\ old \subseteq Nat /\ {a, a + m + 1} \subseteq Nat
    BY <1>13, <1>14
  <2>3. QED
    BY <2>1, <2>2
<1>18. ASSUME NEW e \in old, e # n + 1 PROVE Lines(t)[e] = Lines(s)[e]
  <2>1. PICK d \in Nat : d = e /\ 1 <= d /\ d <= n
    BY <1>13, <1>18
  <2>2. d \in new /\ d \in old
    BY <1>17, <1>18, <2>1
  <2>3. {i \in new : i < d} = {i \in old : i < d}
    BY <1>4, <1>17, <2>1
  <2>4. Before(t, LF, d) = Before(s, LF, d)
    BY <2>3 DEF Before, old, new
  <2>5. PICK b \in Nat : b = Before(s, LF, d) /\ b <= d - 1
    BY <1>16, <2>1, <2>2
  <2>6. /\ b + 1 \in Nat /\ d - 1 \in Nat /\ b + 1 > 0 /\ (b + 1) - 1 <= d - 1
        /\ d - 1 <= n /\ d - 1 <= a + m
    BY <2>1, <2>5
  <2>7. \A i \in (b + 1)..(d - 1) : t[i] = s[i]
    BY <1>8, <2>1
  <2>8. SubSeq(t, b + 1, d - 1) = SubSeq(s, b + 1, d - 1)
    BY <1>3, <1>5, <1>6, <2>6, <2>7, SameParts
  <2>9. d <= n /\ d <= a + m
    BY <2>1
  <2>10. Lines(t)[d] = Lines(s)[d]
    BY <1>15, <2>2, <2>4, <2>5, <2>8, <2>9
  <2>11. QED
    BY <2>1, <2>10
<1>19. Lines(t)[a] = Lines(s)[n + 1]
  <2>1. {i \in new : i < a} = {i \in old : i < n + 1}
    <3>1. ASSUME NEW i \in Nat PROVE i \in new /\ i < a <=> i \in old /\ i < n + 1
      BY <1>4, <1>13, <1>17
    <3>2. new \subseteq Nat /\ old \subseteq Nat
      BY <1>13, <1>14
    <3>3. QED
      BY <3>1, <3>2
  <2>2. Before(t, LF, a) = Before(s, LF, n + 1)
    BY <2>1 DEF Before, old, new
  <2>3. PICK b \in Nat : b = Before(s, LF, n + 1) /\ b < n
    <3>1. Before(s, LF, n + 1) \in 0..n /\ (Before(s, LF, n + 1) # 0 => Before(s, LF, n + 1) \in old)
      BY <1>13, <1>16
    <3>2. n \notin old
      BY <1>12, <1>13
    <3>3. Before(s, LF, n + 1) \in Nat /\ Before(s, LF, n + 1) < n
      BY <1>12, <3>1, <3>2
    <3>4. QED
      BY <3>3
  <2> DEFINE line == SubSeq(s, b + 1, n)
             whole == SubSeq(t, b + 1, a - 1)
  <2>4. line \in Text /\ Len(line) = n - b /\ \A i \in 1..(n - b) : line[i] = s[b + i]
    <3>1. b + 1 \in 1..(Len(s) + 1) /\ n \in 0..Len(s) /\ n >= (b + 1) - 1
      BY <1>3, <2>3
    <3>2. /\ line \in Text /\ Len(line) = n - (b + 1) + 1
          /\ \A i \in 1..(n - (b + 1) + 1) : line[i] = s[(b + 1) + i - 1]
      BY <3>1, PartFacts
    <3>3. n - (b + 1) + 1 = n - b /\ \A i \in Nat : (b + 1) + i - 1 = b + i
      OBVIOUS
    <3>4. QED
      BY <3>2, <3>3
  <2>5. /\ whole \in Text /\ Len(whole) = a - 1 - b
        /\ \A i \in 1..(a - 1 - b) : whole[i] = t[b + i]
    <3>1. b + 1 \in 1..(Len(t) + 1) /\ a - 1 \in 0..Len(t) /\ a - 1 >= (b + 1) - 1
      BY <1>4, <1>6, <2>3
    <3>2. /\ whole \in Text /\ Len(whole) = (a - 1) - (b + 1) + 1
          /\ \A i \in 1..((a - 1) - (b + 1) + 1) : whole[i] = t[(b + 1) + i - 1]
      BY <1>5, <3>1, PartFacts
    <3>3. (a - 1) - (b + 1) + 1 = a - 1 - b /\ \A i \in Nat : (b + 1) + i - 1 = b + i
      OBVIOUS
    <3>4. QED
      BY <3>2, <3>3
  <2>6. Lines(s)[n + 1] = line
    <3>1. ~(n + 1 <= n) /\ (n + 1) - 1 = n
      OBVIOUS
    <3>2. QED
      BY <1>13, <1>15, <2>3, <3>1
  <2>7. Lines(t)[a] = IF whole # <<>> /\ Last(whole) = CR THEN Front(whole) ELSE whole
    <3>1. a <= a + m /\ a \in new
      BY <1>17
    <3>2. QED
      BY <1>15, <2>2, <2>3, <3>1
  <2> HIDE DEF line, whole
  <2>8. CASE k = 1
    <3>1. a - 1 = n
      BY <2>8
    <3>2. Len(whole) = n - b /\ \A i \in 1..(n - b) : whole[i] = s[b + i]
      BY <1>8, <2>3, <2>5, <3>1
    <3>3. whole = line
      BY <2>4, <2>5, <3>2, SameText
    <3>4. Last(whole) = s[n]
      <4>1. whole[n - b] = s[n]
        BY <2>3, <3>2
      <4>2. QED
        BY <3>2, <4>1 DEF Last
    <3>5. QED
      BY <1>12, <2>6, <2>7, <3>3, <3>4
  <2>9. CASE k = 2
    <3>1. PICK j \in Nat : j = n - b /\ j > 0 /\ a - 1 - b = j + 1
      BY <2>3, <2>9
    <3>2. Len(whole) = j + 1 /\ Len(line) = j
      BY <2>4, <2>5, <3>1
    <3>3. whole[j + 1] = CR
      <4>1. whole[j + 1] = t[b + (j + 1)] /\ b + (j + 1) = n + 1
        BY <2>5, <3>1
      <4>2. QED
        BY <1>9, <2>9, <4>1
    <3>4. whole # <<>> /\ Last(whole) = CR
      <4>1. Len(<<>>) = 0
        OBVIOUS
      <4>2. QED
        BY <3>2, <3>3, <4>1 DEF Last
    <3>5. Front(whole) = line
      <4>1. Front(whole) = SubSeq(whole, 1, j)
        BY <3>2 DEF Front
      <4>2. \A i \in 1..j : whole[i] = line[i]
        <5>1. ASSUME NEW i \in Nat, 1 <= i, i <= j PROVE whole[i] = line[i]
          <6>1. whole[i] = t[b + i] /\ line[i] = s[b + i] /\ b + i \in 1..n
            BY <2>3, <2>4, <2>5, <3>1, <5>1
          <6>2. QED
            BY <1>8, <6>1
        <5>2. QED
          BY <5>1
      <4>3. SubSeq(whole, 1, j) = line
        BY <2>4, <2>5, <3>2, <4>2, PrefixIs
      <4>4. QED
        BY <4>1, <4>3
    <3>6. QED
      BY <2>6, <2>7, <3>4, <3>5
  <2>10. QED
    BY <1>4, <2>8, <2>9
<1>20. Lines(t)[a + m + 1] = l
  <2>1. Before(t, LF, a + m + 1) = a
    <3> DEFINE S == {0} \cup {i \in new : i < a + m + 1}
    <3>0. new \subseteq Nat /\ a \in new /\ a < a + m + 1
      BY <1>14, <1>17
    <3>1. a \in S /\ S \in SUBSET Nat
      <4>1. a \in S
        BY <3>0
      <4>2. S \subseteq Nat
        <5>1. {0} \subseteq Nat
          OBVIOUS
        <5>2. {i \in new : i < a + m + 1} \subseteq Nat
          BY <3>0, Zenon
        <5>3. QED
          BY <5>1, <5>2, Zenon
      <4>3. QED
        BY <4>1, <4>2
    <3>2. \A i \in S : i <= a
      BY <1>4, <1>13, <1>17
    <3>3. Max(S) = a
      BY <3>1, <3>2, MaxIs
    <3>4. QED
      BY <3>3 DEF Before, new
  <2>2. SubSeq(t, a + 1, a + m) = l
    <3>1. a \in Nat /\ a + m \in Nat /\ a + m = a + Len(l) /\ a + m <= Len(t)
      BY <1>3, <1>6
    <3>2. \A i \in 1..Len(l) : t[a + i] = l[i]
      BY <1>3, <1>10
    <3>3. QED
      BY <1>5, <3>1, <3>2, PartIs
  <2>3. ~(a + m + 1 <= a + m) /\ (a + m + 1) - 1 = a + m
    OBVIOUS
  <2>4. QED
    BY <1>14, <1>15, <2>1, <2>2, <2>3
<1>21. QED
  BY <1>3, <1>5, <1>6, <1>17, <1>18, <1>19, <1>20 DEF t, u, old, new, AddsLine

LEMMA MinExists ==
  ASSUME NEW S \in SUBSET Nat, S # {}
  PROVE  Min(S) \in S /\ \A x \in S : Min(S) <= x
<1> DEFINE R == OpToRel(<, Nat)
<1>1. IsWellFoundedOn(R, Nat)
  BY NatLessThanWellFounded
<1>2. \A x, y \in Nat : y < x => <<y, x>> \in R
  BY LessIsRelated
<1> HIDE DEF R
<1>3. PICK m \in S : \A z \in S : ~ (<<z, m>> \in R)
  BY <1>1, WFMin
<1>4. ASSUME NEW x \in S PROVE m <= x
  <2>1. x \in Nat /\ m \in Nat /\ ~(x < m)
    BY <1>2, <1>3
  <2>2. QED
    BY <2>1
<1>5. Min(S) = m
  BY <1>4, MinIs
<1>6. QED
  BY <1>4, <1>5

\* The first of the lines of a text, and the lines that follow it.
LEMMA LinesApart ==
  ASSUME NEW s \in Text
  PROVE  /\ Min(Ends(s, LF)) \in Ends(s, LF)
         /\ \A e \in Ends(s, LF) : Min(Ends(s, LF)) <= e
         /\ First(Lines(s)) = Lines(s)[Min(Ends(s, LF))]
         /\ DOMAIN Others(Lines(s)) = Ends(s, LF) \ {Min(Ends(s, LF))}
         /\ \A e \in Ends(s, LF) \ {Min(Ends(s, LF))} : Others(Lines(s))[e] = Lines(s)[e]
<1>1. Ends(s, LF) \subseteq Nat /\ Ends(s, LF) # {}
  <2>1. Len(s) \in Nat
    BY TextFacts
  <2>2. QED
    BY <2>1, EndsFacts
<1>2. Min(Ends(s, LF)) \in Ends(s, LF) /\ \A e \in Ends(s, LF) : Min(Ends(s, LF)) <= e
  BY <1>1, MinExists
<1>3. DOMAIN Lines(s) = Ends(s, LF)
  BY LinesFacts
<1>4. /\ DOMAIN Others(Lines(s)) = Ends(s, LF) \ {Min(Ends(s, LF))}
      /\ \A e \in Ends(s, LF) \ {Min(Ends(s, LF))} : Others(Lines(s))[e] = Lines(s)[e]
  BY <1>3, Zenon DEF Others, Without, Restrict
<1>5. First(Lines(s)) = Lines(s)[Min(Ends(s, LF))]
  BY <1>3 DEF First
<1>6. QED
  BY <1>2, <1>4, <1>5

LEMMA LineValues ==
  ASSUME NEW s \in Text
  PROVE  \A v : v \in Range(Others(Lines(s))) <=>
                  \E e \in Ends(s, LF) : e # Min(Ends(s, LF)) /\ v = Lines(s)[e]
  BY LinesApart, Zenon DEF Range

-----------------------------------------------------------------------------
(* What stands above the blank line of a frame. *)

Unbroken(s) == \A i \in Nat : 1 <= i /\ i <= Len(s) /\ s[i] = LF =>
                                i < Len(s) /\ s[i + 1] # LF /\ s[i + 1] # CR

\* A command and the lines that follow it, in some order.
Heading(s, command, lines) ==
  /\ s \in Text /\ Inline(s) /\ Unbroken(s)
  /\ First(Lines(s)) = command
  /\ Range(Others(Lines(s))) = lines

\* The command alone is a heading, and each line that is added makes one.
LEMMA HeadStarts ==
  ASSUME NEW command, Free(command, {LF, CR}), command # <<>>
  PROVE  Heading(command, command, {})
<1>1. command \in Text
  BY FreeFacts
<1>2. PICK n \in Nat : n = Len(command)
  BY <1>1, TextFacts
<1>3. n > 0
  BY <1>1, <1>2 DEF Text
<1>4. \A i \in 1..n : command[i] # LF /\ command[i] # CR
  BY <1>2, FreeFacts
<1>5. Inline(command)
  BY <1>2, <1>3, <1>4 DEF Inline
<1>6. Unbroken(command)
  BY <1>2, <1>4 DEF Unbroken
<1>7. Ends(command, LF) = {n + 1}
  <2>1. ASSUME NEW e \in Nat PROVE e \in Ends(command, LF) <=> e = n + 1
    BY <1>1, <1>2, <1>4, EndsFacts
  <2>2. Ends(command, LF) \subseteq Nat
    BY <1>1, <1>2, EndsFacts
  <2>3. QED
    BY <2>1, <2>2
<1>8. Min(Ends(command, LF)) = n + 1
  BY <1>1, <1>7, LinesApart
<1>9. Range(Others(Lines(command))) = {}
  BY <1>1, <1>7, <1>8, LineValues
<1>10. Before(command, LF, n + 1) = 0
  <2>1. {0} \cup {i \in Ends(command, LF) : i < n + 1} = {0}
    BY <1>7
  <2>2. Max({0}) = 0
    BY MaxIs
  <2>3. QED
    BY <2>1, <2>2 DEF Before
<1>11. SubSeq(command, 1, n) = command
  BY <1>1, <1>2, PrefixIs
<1>12. Lines(command)[n + 1] = command
  <2>1. n + 1 \in Ends(command, LF) /\ ~(n + 1 <= n) /\ (n + 1) - 1 = n /\ 0 + 1 = 1
    BY <1>7
  <2>2. QED
    BY <1>1, <1>2, <1>10, <1>11, <2>1, LinesFacts
<1>13. First(Lines(command)) = command
  BY <1>1, <1>8, <1>12, LinesApart
<1>14. QED
  BY <1>1, <1>5, <1>6, <1>9, <1>13 DEF Heading

LEMMA HeadGrows ==
  ASSUME NEW s, NEW command, NEW lines, Heading(s, command, lines), NEW eol \in Eol,
         NEW l, Free(l, {LF, CR}), l # <<>>
  PROVE  Heading(s \o eol \o l, command, lines \cup {l})
<1>1. s \in Text /\ Inline(s) /\ Unbroken(s) /\ l \in Text /\ eol \in Text
  BY FreeFacts, EolFacts DEF Heading
<1> DEFINE u == s \o eol
           t == u \o l
<1>2. /\ Len(s) \in Nat /\ Len(l) \in Nat /\ Len(eol) \in Nat
      /\ Len(eol) = 1 \/ Len(eol) = 2
  BY <1>1, TextFacts, EolFacts
<1>3. \E n, k, m \in Nat : n = Len(s) /\ k = Len(eol) /\ m = Len(l)
  BY <1>2
<1>4. PICK n \in Nat, k \in Nat, m \in Nat : n = Len(s) /\ k = Len(eol) /\ m = Len(l)
  BY <1>3
<1>5. (k = 1 \/ k = 2) /\ m > 0
  <2>1. Len(l) > 0
    BY <1>1 DEF Text
  <2>2. QED
    BY <1>2, <1>4, <2>1
<1> DEFINE a == n + k
<1>6. /\ t \in Text /\ Len(t) = a + m
      /\ Ends(t, LF) = (Ends(s, LF) \ {n + 1}) \cup {a, a + m + 1}
      /\ \A e \in Ends(s, LF) \ {n + 1} : Lines(t)[e] = Lines(s)[e]
      /\ Lines(t)[a] = Lines(s)[n + 1]
      /\ Lines(t)[a + m + 1] = l
  <2>1. AddsLine(s, eol, l, t)
    BY <1>1, OneMoreLine, Zenon
  <2> HIDE DEF t
  <2>2. QED
    BY <1>4, <2>1 DEF AddsLine
<1>7. /\ \A i \in 1..a : t[i] = u[i]
      /\ \A i \in 1..m : t[a + i] = l[i]
  <2>1. u \in Text /\ Len(u) = Len(s) + Len(eol)
    BY <1>1, TextFacts
  <2>2. Len(u) = a
    BY <1>4, <2>1
  <2> HIDE DEF u
  <2>3. /\ \A i \in 1..Len(u) : t[i] = u[i]
        /\ \A i \in 1..Len(l) : t[Len(u) + i] = l[i]
    BY <1>1, <2>1, TextFacts
  <2>4. QED
    BY <1>4, <2>2, <2>3
<1>8. /\ \A i \in 1..n : u[i] = s[i]
      /\ \A i \in 1..k : u[n + i] = eol[i]
  BY <1>1, <1>4, TextFacts
<1> HIDE DEF u, t
<1>9. \A i \in 1..m : l[i] # LF /\ l[i] # CR
  BY <1>4, FreeFacts
<1>10. Inline(t)
  <2>1. a + m > 0 /\ t[a + m] = l[m]
    BY <1>5, <1>7
  <2>2. l[m] # LF /\ l[m] # CR
    BY <1>5, <1>9
  <2>3. QED
    BY <1>6, <2>1, <2>2 DEF Inline
<1>11. Unbroken(t)
  <2> SUFFICES ASSUME NEW i \in Nat, 1 <= i, i <= a + m, t[i] = LF
               PROVE  i < a + m /\ t[i + 1] # LF /\ t[i + 1] # CR
    BY <1>6 DEF Unbroken
  <2>1. CASE i < n
    <3>1. t[i] = s[i] /\ t[i + 1] = s[i + 1]
      BY <1>7, <1>8, <2>1
    <3>2. s[i] = LF => s[i + 1] # LF /\ s[i + 1] # CR
      BY <1>1, <1>4, <2>1 DEF Unbroken
    <3>3. QED
      BY <2>1, <3>1, <3>2
  <2>2. CASE i = n
    <3>1. t[i] = s[i]
      BY <1>7, <1>8, <2>2
    <3>2. s[n] # LF
      BY <1>1, <1>4 DEF Inline
    <3>3. QED
      BY <2>2, <3>1, <3>2
  <2>3. CASE i = n + 1 /\ k = 2
    <3>1. t[i] = u[n + 1] /\ u[n + 1] = eol[1]
      BY <1>7, <1>8, <2>3
    <3>2. eol[1] = CR
      BY <1>4, <2>3, EolFacts
    <3>3. QED
      BY <3>1, <3>2, TokenFacts
  <2>4. CASE i = a
    <3>1. t[a + 1] = l[1] /\ l[1] # LF /\ l[1] # CR
      BY <1>5, <1>7, <1>9
    <3>2. QED
      BY <1>5, <2>4, <3>1
  <2>5. CASE i > a
    <3>1. PICK j \in Nat : i = a + j /\ 1 <= j /\ j <= m
      <4>1. i - a \in Nat /\ i = a + (i - a) /\ 1 <= i - a /\ i - a <= m
        BY <2>5
      <4>2. QED
        BY <4>1
    <3>2. t[i] = l[j] /\ l[j] # LF /\ l[j] # CR
      BY <1>7, <1>9, <3>1
    <3>3. QED
      BY <3>2
  <2>6. QED
    <3>1. i < n \/ i = n \/ (i = n + 1 /\ k = 2) \/ i = a \/ i > a
      BY <1>5
    <3>2. QED
      BY <2>1, <2>2, <2>3, <2>4, <2>5, <3>1
<1> DEFINE old == Ends(s, LF)
           new == Ends(t, LF)
<1>12. old \subseteq Nat /\ new \subseteq Nat /\ n + 1 \in old /\ \A e \in old : e <= n + 1
  BY <1>1, <1>4, <1>6, EndsFacts
<1>13. PICK first \in Nat : first = Min(old)
  BY <1>1, <1>12, LinesApart
<1>14. first \in old /\ \A e \in old : first <= e
  BY <1>1, <1>13, LinesApart
<1>15. \A v : v \in lines <=> \E e \in old : e # first /\ v = Lines(s)[e]
  BY <1>1, <1>13, LineValues DEF Heading
<1>16. \A v : v \in Range(Others(Lines(t))) <=> \E e \in new : e # Min(new) /\ v = Lines(t)[e]
  BY <1>6, LineValues
<1>17. command = Lines(s)[first] /\ First(Lines(t)) = Lines(t)[Min(new)]
  BY <1>1, <1>6, <1>13, LinesApart DEF Heading
<1>18. new = (old \ {n + 1}) \cup {a, a + m + 1}
  BY <1>6
<1>19. /\ \A e \in old \ {n + 1} : Lines(t)[e] = Lines(s)[e]
       /\ Lines(t)[a] = Lines(s)[n + 1] /\ Lines(t)[a + m + 1] = l
  BY <1>6
<1> HIDE DEF old, new
<1>20. CASE first = n + 1
  <2>1. old = {n + 1}
    <3>1. \A e \in old : e \in Nat /\ e <= n + 1 /\ n + 1 <= e
      BY <1>12, <1>14, <1>20
    <3>2. \A e \in old : e = n + 1
      BY <3>1
    <3>3. QED
      BY <1>12, <3>2
  <2>2. new = {a, a + m + 1} /\ a < a + m + 1
    BY <1>18, <2>1
  <2>3. Min(new) = a
    BY <1>12, <2>2, MinIs
  <2>4. First(Lines(t)) = command
    BY <1>17, <1>19, <1>20, <2>3
  <2>5. a + m + 1 # a
    OBVIOUS
  <2>6. \A v : v \in Range(Others(Lines(t))) <=> v = l
    BY <1>16, <1>19, <2>2, <2>3, <2>5
  <2>7. \A v : v \notin lines
    BY <1>15, <1>20, <2>1
  <2>8. Range(Others(Lines(t))) = lines \cup {l}
    BY <2>6, <2>7
  <2>9. QED
    BY <1>6, <1>10, <1>11, <2>4, <2>8 DEF Heading, t, u
<1>21. CASE first # n + 1
  <2>1. first < n + 1
    BY <1>12, <1>14, <1>21
  <2>2. first \in new /\ \A e \in new : first <= e
    BY <1>5, <1>14, <1>18, <1>21, <2>1
  <2>3. Min(new) = first
    BY <1>12, <2>2, MinIs
  <2>4. First(Lines(t)) = command
    BY <1>14, <1>17, <1>19, <1>21, <2>3
  <2>5. first # a /\ first # a + m + 1
    BY <1>5, <2>1
  <2>6. ASSUME NEW v PROVE v \in Range(Others(Lines(t))) <=> v \in lines \cup {l}
    <3>1. ASSUME NEW e \in new, e # first PROVE Lines(t)[e] \in lines \cup {l}
      <4>1. CASE e \in old \ {n + 1}
        BY <1>15, <1>19, <3>1, <4>1
      <4>2. CASE e = a
        BY <1>12, <1>15, <1>19, <1>21, <4>2
      <4>3. CASE e = a + m + 1
        BY <1>19, <4>3
      <4>4. QED
        BY <1>18, <4>1, <4>2, <4>3
    <3>2. ASSUME NEW e \in old, e # first PROVE \E d \in new : d # first /\ Lines(t)[d] = Lines(s)[e]
      <4>1. CASE e = n + 1
        BY <1>18, <1>19, <2>5, <4>1
      <4>2. CASE e # n + 1
        BY <1>18, <1>19, <3>2, <4>2
      <4>3. QED
        BY <4>1, <4>2
    <3>3. \E d \in new : d # first /\ Lines(t)[d] = l
      BY <1>18, <1>19, <2>5
    <3>4. QED
      BY <1>15, <1>16, <2>3, <3>1, <3>2, <3>3
  <2>7. Range(Others(Lines(t))) = lines \cup {l}
    BY <2>6
  <2>8. QED
    BY <1>6, <1>10, <1>11, <2>4, <2>7 DEF Heading, t, u
<1>22. QED
  BY <1>20, <1>21

LEMMA LineEndIs ==
  ASSUME NEW text, NEW i
  PROVE  /\ LineEnd(text, i) > 0 =>
              \/ i <= Len(text) /\ text[i] = LF /\ LineEnd(text, i) = 1
              \/ i < Len(text) /\ text[i] = CR /\ text[i + 1] = LF /\ LineEnd(text, i) = 2
         /\ i <= Len(text) /\ text[i] = LF => LineEnd(text, i) = 1
         /\ i < Len(text) /\ text[i] = CR /\ text[i + 1] = LF => LineEnd(text, i) = 2
<1>1. CASE i <= Len(text) /\ text[i] = LF
  BY <1>1, TokenFacts DEF LineEnd
<1>2. CASE ~(i <= Len(text) /\ text[i] = LF) /\ i < Len(text) /\ text[i] = CR /\ text[i + 1] = LF
  BY <1>2, TokenFacts DEF LineEnd
<1>3. CASE ~(i <= Len(text) /\ text[i] = LF)
           /\ ~(i < Len(text) /\ text[i] = CR /\ text[i + 1] = LF)
  BY <1>3 DEF LineEnd
<1>4. CASE (i <= Len(text) /\ text[i] = LF) /\ i < Len(text) /\ text[i] = CR /\ text[i + 1] = LF
  BY <1>4, TokenFacts
<1>5. QED
  BY <1>1, <1>2, <1>3, <1>4

\* The parts of a text that has a heading, two line ends and something more.
Parts(s, eol, rest, t) ==
  /\ t \in Text /\ Len(t) = Len(s) + Len(eol) + Len(eol) + Len(rest)
  /\ BlankLines(t) # {} /\ BodyAt(t) = Len(s) + 1
  /\ LineEnd(t, Len(s) + 1) = Len(eol)
  /\ LineEnd(t, Len(s) + 1 + Len(eol)) = Len(eol)
  /\ SubSeq(t, 1, Len(s)) = s
  /\ SubSeq(t, Len(s) + Len(eol) + Len(eol) + 1, Len(t)) = rest

\* A heading, a blank line and more are found in their text.
LEMMA PartsApart ==
  ASSUME NEW s \in Text, Inline(s), Unbroken(s), NEW eol \in Eol, NEW rest \in Text
  PROVE  Parts(s, eol, rest, s \o eol \o eol \o rest)
<1> DEFINE v == s \o eol
           w == v \o eol
           t == w \o rest
<1>1. /\ Len(s) \in Nat /\ Len(rest) \in Nat /\ Len(eol) \in Nat
      /\ Len(eol) = 1 \/ Len(eol) = 2
  BY TextFacts, EolFacts
<1>2. \E n, k, m \in Nat : n = Len(s) /\ k = Len(eol) /\ m = Len(rest)
  BY <1>1
<1>3. PICK n \in Nat, k \in Nat, m \in Nat : n = Len(s) /\ k = Len(eol) /\ m = Len(rest)
  BY <1>2
<1>4. k = 1 \/ k = 2
  BY <1>1, <1>3
<1>5. eol \in Text /\ v \in Text
  BY TextFacts, EolFacts
<1>6. Len(v) = n + k /\ \A i \in 1..n : v[i] = s[i]
  BY <1>3, <1>5, TextFacts
<1>7. \A i \in 1..k : v[n + i] = eol[i]
  BY <1>3, <1>5, TextFacts
<1> HIDE DEF v
<1>8. w \in Text /\ Len(w) = n + k + k
  <2>1. w \in Text /\ Len(w) = Len(v) + Len(eol)
    BY <1>5, TextFacts
  <2>2. QED
    BY <1>3, <1>6, <2>1
<1>9. \A i \in 1..(n + k) : w[i] = v[i]
  <2>1. \A i \in 1..Len(v) : w[i] = v[i]
    BY <1>5, TextFacts
  <2>2. QED
    BY <1>6, <2>1
<1>10. \A i \in 1..k : w[n + k + i] = eol[i]
  <2>1. \A i \in 1..Len(eol) : w[Len(v) + i] = eol[i]
    BY <1>5, TextFacts
  <2>2. QED
    BY <1>3, <1>6, <2>1
<1> HIDE DEF w
<1>11. t \in Text /\ Len(t) = n + k + k + m
  <2>1. t \in Text /\ Len(t) = Len(w) + Len(rest)
    BY <1>8, TextFacts
  <2>2. QED
    BY <1>3, <1>8, <2>1
<1>12. \A i \in 1..(n + k + k) : t[i] = w[i]
  <2>1. \A i \in 1..Len(w) : t[i] = w[i]
    BY <1>8, TextFacts
  <2>2. QED
    BY <1>8, <2>1
<1>13. \A i \in 1..m : t[n + k + k + i] = rest[i]
  <2>1. \A i \in 1..Len(rest) : t[Len(w) + i] = rest[i]
    BY <1>8, TextFacts
  <2>2. QED
    BY <1>3, <1>8, <2>1
<1> HIDE DEF t
<1>14. \A i \in 1..n : t[i] = s[i]
  BY <1>6, <1>9, <1>12
<1>15. \A i \in Nat : 1 <= i /\ i <= k => t[n + i] = eol[i] /\ t[n + k + i] = eol[i]
  BY <1>7, <1>9, <1>10, <1>12
<1>16. eol[k] = LF /\ (k = 2 => eol[1] = CR)
  BY <1>3, EolFacts
<1>17. LineEnd(t, n + 1) = k
  <2>1. CASE k = 1
    <3>1. n + 1 <= Len(t) /\ t[n + 1] = LF
      BY <1>11, <1>15, <1>16, <2>1
    <3>2. QED
      BY <2>1, <3>1, LineEndIs
  <2>2. CASE k = 2
    <3>1. n + 1 < Len(t) /\ t[n + 1] = CR /\ t[(n + 1) + 1] = LF
      BY <1>11, <1>15, <1>16, <2>2
    <3>2. QED
      BY <2>2, <3>1, LineEndIs
  <2>3. QED
    BY <1>4, <2>1, <2>2
<1>18. LineEnd(t, n + 1 + k) = k
  <2>1. CASE k = 1
    <3>1. n + 1 + k <= Len(t) /\ t[n + 1 + k] = LF
      BY <1>11, <1>15, <1>16, <2>1
    <3>2. QED
      BY <2>1, <3>1, LineEndIs
  <2>2. CASE k = 2
    <3>1. n + 1 + k < Len(t) /\ t[n + 1 + k] = CR /\ t[(n + 1 + k) + 1] = LF
      BY <1>11, <1>15, <1>16, <2>2
    <3>2. QED
      BY <2>2, <3>1, LineEndIs
  <2>3. QED
    BY <1>4, <2>1, <2>2
<1>19. DOMAIN t = 1..(n + k + k + m)
  BY <1>11, TextFacts
<1>20. n + 1 \in BlankLines(t)
  <2>1. n + 1 \in DOMAIN t
    BY <1>4, <1>19
  <2>2. LineEnd(t, n + 1) > 0 /\ LineEnd(t, (n + 1) + LineEnd(t, n + 1)) > 0
    BY <1>4, <1>17, <1>18
  <2>3. QED
    BY <2>1, <2>2 DEF BlankLines
<1>21. n > 0 /\ s[n] # LF /\ s[n] # CR
  BY <1>3 DEF Inline
<1>22. \A i \in Nat : 1 <= i /\ i <= n /\ s[i] = LF => i < n /\ s[i + 1] # LF /\ s[i + 1] # CR
  BY <1>3 DEF Unbroken
<1>23. ASSUME NEW i \in Nat, 1 <= i, i <= n PROVE i \notin BlankLines(t)
  <2> SUFFICES ASSUME LineEnd(t, i) > 0, LineEnd(t, i + LineEnd(t, i)) > 0 PROVE FALSE
    BY DEF BlankLines
  <2>1. CASE t[i] = LF /\ LineEnd(t, i) = 1
    <3>1. i < n /\ t[i + 1] = s[i + 1] /\ s[i + 1] # LF /\ s[i + 1] # CR
      BY <1>14, <1>22, <1>23, <2>1
    <3>2. LineEnd(t, i + 1) > 0
      BY <2>1
    <3>3. QED
      BY <3>1, <3>2, LineEndIs
  <2>2. CASE t[i] = CR /\ t[i + 1] = LF /\ LineEnd(t, i) = 2
    <3>1. i < n
      BY <1>14, <1>21, <1>23, <2>2
    <3>2. s[i + 1] = LF
      BY <1>14, <2>2, <3>1
    <3>3. i + 1 < n /\ s[(i + 1) + 1] # LF /\ s[(i + 1) + 1] # CR
      BY <1>22, <3>1, <3>2
    <3>4. t[i + 2] # LF /\ t[i + 2] # CR
      <4>1. (i + 1) + 1 = i + 2 /\ i + 2 \in 1..n
        BY <3>3
      <4>2. QED
        BY <1>14, <3>3, <4>1
    <3>5. LineEnd(t, i + 2) > 0
      BY <2>2
    <3>6. QED
      BY <3>4, <3>5, LineEndIs
  <2>3. QED
    BY <2>1, <2>2, LineEndIs
<1>24. BodyAt(t) = n + 1
  <2>1. BlankLines(t) \subseteq DOMAIN t
    BY DEF BlankLines
  <2>2. BlankLines(t) \in SUBSET Nat
    BY <1>19, <2>1
  <2>3. ASSUME NEW i \in BlankLines(t) PROVE n + 1 <= i
    <3>1. PICK j \in Nat : j = i /\ 1 <= j
      BY <1>19, <2>1
    <3>2. ~(j <= n)
      BY <1>23, <3>1
    <3>3. QED
      BY <3>1, <3>2
  <2>4. Min(BlankLines(t)) = n + 1
    BY <1>20, <2>2, <2>3, MinIs
  <2>5. QED
    BY <2>4 DEF BodyAt
<1>25. SubSeq(t, 1, n) = s
  <2>1. Len(s) <= Len(t) /\ \A i \in 1..Len(s) : t[i] = s[i]
    BY <1>3, <1>11, <1>14
  <2>2. QED
    BY <1>3, <1>11, <2>1, PrefixIs
<1>26. SubSeq(t, n + k + k + 1, n + k + k + m) = rest
  <2>1. /\ n + k + k \in Nat /\ n + k + k + m \in Nat
        /\ n + k + k + m = (n + k + k) + Len(rest) /\ n + k + k + m <= Len(t)
        /\ \A i \in 1..Len(rest) : t[(n + k + k) + i] = rest[i]
    BY <1>3, <1>11, <1>13
  <2>2. QED
    BY <1>11, <2>1, PartIs
<1>27. t = s \o eol \o eol \o rest
  BY DEF t, w, v
<1>28. QED
  BY <1>3, <1>11, <1>17, <1>18, <1>20, <1>24, <1>25, <1>26, <1>27 DEF Parts

-----------------------------------------------------------------------------
(* Header lines. *)

HeaderLine(name, value) == name \o <<Colon>> \o value

\* A header line is read as its name and value, colons in the value among them.
LEMMA HeaderLineReads ==
  ASSUME NEW name, Free(name, {LF, CR, Colon, NUL}), NEW value, Free(value, {LF, CR, NUL})
  PROVE  /\ Free(HeaderLine(name, value), {LF, CR}) /\ HeaderLine(name, value) # <<>>
         /\ HeaderName(HeaderLine(name, value)) = name
         /\ HeaderValue(HeaderLine(name, value)) = value
<1>1. /\ name \in Text /\ value \in Text /\ Colon \in Token
      /\ \A i \in 1..Len(name) : name[i] \notin {LF, CR, Colon, NUL}
      /\ \A i \in 1..Len(value) : value[i] \notin {LF, CR, NUL}
  BY FreeFacts, TokenFacts
<1>2. HeaderName(HeaderLine(name, value)) = name
  <2>1. \A i \in 1..Len(name) : name[i] # Colon
    BY <1>1
  <2>2. First(Split(name \o <<Colon>> \o value, Colon)) = name
    BY <1>1, <2>1, FirstPiece, Zenon
  <2>3. QED
    BY <2>2, Zenon DEF HeaderName, HeaderLine
<1> DEFINE u == name \o <<Colon>>
           t == u \o value
<1>3. PICK n \in Nat, m \in Nat : n = Len(name) /\ m = Len(value)
  <2>1. Len(name) \in Nat /\ Len(value) \in Nat
    BY <1>1, TextFacts
  <2>2. QED
    BY <2>1
<1>4. u \in Text /\ Len(u) = n + 1 /\ (\A i \in 1..n : u[i] = name[i]) /\ u[n + 1] = Colon
  <2>1. <<Colon>> \in Text /\ Len(<<Colon>>) = 1 /\ <<Colon>>[1] = Colon
    BY <1>1, WordText
  <2> DEFINE c == <<Colon>>
  <2> HIDE DEF c
  <2>2. c \in Text /\ Len(c) = 1 /\ c[1] = Colon
    BY <2>1 DEF c
  <2>3. /\ name \o c \in Text /\ Len(name \o c) = Len(name) + Len(c)
        /\ \A i \in 1..Len(name) : (name \o c)[i] = name[i]
        /\ \A i \in 1..Len(c) : (name \o c)[Len(name) + i] = c[i]
    BY <1>1, <2>2, TextFacts
  <2>4. u = name \o c
    BY DEF c
  <2>5. 1 \in 1..Len(c)
    BY <2>2
  <2> HIDE DEF u
  <2>6. QED
    BY <1>3, <2>2, <2>3, <2>4, <2>5
<1> HIDE DEF u
<1>5. /\ t \in Text /\ Len(t) = n + 1 + m
      /\ \A i \in 1..(n + 1) : t[i] = u[i]
      /\ \A i \in 1..m : t[n + 1 + i] = value[i]
  <2>1. /\ t \in Text /\ Len(t) = Len(u) + Len(value)
        /\ \A i \in 1..Len(u) : t[i] = u[i]
        /\ \A i \in 1..Len(value) : t[Len(u) + i] = value[i]
    BY <1>1, <1>4, TextFacts
  <2>2. QED
    BY <1>3, <1>4, <2>1
<1>6. t = HeaderLine(name, value)
  BY DEF u, HeaderLine
<1> HIDE DEF t
<1>7. \A i \in Nat : 1 <= i /\ i <= n + 1 + m => t[i] # LF /\ t[i] # CR
  <2> SUFFICES ASSUME NEW i \in Nat, 1 <= i, i <= n + 1 + m PROVE t[i] # LF /\ t[i] # CR
    OBVIOUS
  <2>1. CASE i <= n
    BY <1>1, <1>3, <1>4, <1>5, <2>1
  <2>2. CASE i = n + 1
    BY <1>4, <1>5, <2>2, TokenFacts
  <2>3. CASE i > n + 1
    <3>1. PICK j \in Nat : i = n + 1 + j /\ 1 <= j /\ j <= m
      <4>1. i - (n + 1) \in Nat /\ i = n + 1 + (i - (n + 1)) /\ 1 <= i - (n + 1) /\ i - (n + 1) <= m
        BY <2>3
      <4>2. QED
        BY <4>1
    <3>2. t[i] = value[j] /\ value[j] \notin {LF, CR, NUL}
      BY <1>1, <1>3, <1>5, <3>1
    <3>3. QED
      BY <3>2
  <2>4. QED
    BY <2>1, <2>2, <2>3
<1>8. Free(t, {LF, CR})
  <2>1. DOMAIN t = 1..Len(t)
    BY <1>5, TextFacts
  <2>2. \A i \in DOMAIN t : t[i] \notin {LF, CR}
    BY <1>5, <1>7, <2>1
  <2>3. QED
    BY <1>5, <2>2, Zenon DEF Free, Range
<1>9. t # <<>>
  <2>1. Len(<<>>) = 0
    OBVIOUS
  <2>2. QED
    BY <1>5, <2>1
<1>10. HeaderValue(t) = value
  <2>1. HeaderValue(t) = SubSeq(t, Len(name) + 2, Len(t))
    BY <1>2, <1>6 DEF HeaderValue
  <2>2. /\ n + 1 \in Nat /\ n + 1 + m \in Nat /\ n + 1 + m = (n + 1) + Len(value) /\ n + 1 + m <= Len(t)
        /\ \A i \in 1..Len(value) : t[(n + 1) + i] = value[i]
    BY <1>3, <1>5
  <2>3. SubSeq(t, (n + 1) + 1, n + 1 + m) = value
    BY <1>1, <1>5, <2>2, PartIs
  <2>4. (n + 1) + 1 = n + 2
    OBVIOUS
  <2>5. QED
    BY <1>3, <1>5, <2>1, <2>3, <2>4
<1>11. QED
  BY <1>2, <1>6, <1>8, <1>9, <1>10

HeaderLines(headers) == {HeaderLine(name, headers[name]) : name \in DOMAIN headers}

\* The headers that are read are those that were written, in whatever order.
LEMMA HeadersAreRead ==
  ASSUME NEW s, NEW command, NEW headers, Writable(headers),
         Heading(s, command, HeaderLines(headers))
  PROVE  Headers(Others(Lines(s))) = [name \in DOMAIN headers |-> headers[name]]
<1> DEFINE lines == Others(Lines(s))
<1>1. s \in Text /\ Range(lines) = HeaderLines(headers)
  BY DEF Heading
<1>2. \A name \in DOMAIN headers :
        /\ HeaderName(HeaderLine(name, headers[name])) = name
        /\ HeaderValue(HeaderLine(name, headers[name])) = headers[name]
  BY HeaderLineReads, Zenon DEF Writable
<1>3. DOMAIN lines \subseteq Ends(s, LF)
  BY <1>1, LinesApart
<1>4. PICK n \in Nat : DOMAIN lines \subseteq 1..n
  <2>1. Len(s) + 1 \in Nat
    BY <1>1, TextFacts
  <2>2. DOMAIN lines \subseteq 1..(Len(s) + 1)
    BY <1>1, <1>3, EndsFacts
  <2>3. QED
    BY <2>1, <2>2
<1> HIDE DEF lines
<1>5. \A e \in DOMAIN lines : \E name \in DOMAIN headers : lines[e] = HeaderLine(name, headers[name])
  BY <1>1, Zenon DEF Range, HeaderLines
<1>6. \A name \in DOMAIN headers : \E e \in DOMAIN lines : lines[e] = HeaderLine(name, headers[name])
  BY <1>1, Zenon DEF Range, HeaderLines
<1>7. \A e \in DOMAIN lines : /\ HeaderName(lines[e]) \in DOMAIN headers
                              /\ HeaderValue(lines[e]) = headers[HeaderName(lines[e])]
  BY <1>2, <1>5
<1>8. {HeaderName(lines[e]) : e \in DOMAIN lines} = DOMAIN headers
  BY <1>2, <1>6, <1>7
<1>9. ASSUME NEW name \in DOMAIN headers
      PROVE  HeaderValue(lines[Max({e \in DOMAIN lines : HeaderName(lines[e]) = name})])
               = headers[name]
  <2> DEFINE S == {e \in DOMAIN lines : HeaderName(lines[e]) = name}
  <2>1. S # {}
    BY <1>2, <1>6
  <2>2. S \in SUBSET Nat /\ \A e \in S : e <= n
    BY <1>4
  <2>3. Max(S) \in S
    BY <2>1, <2>2, MaxExists
  <2> HIDE DEF S
  <2>4. HeaderValue(lines[Max(S)]) = headers[name]
    BY <1>7, <2>3 DEF S
  <2>5. QED
    BY <2>4 DEF S
<1>10. Headers(lines) = [name \in DOMAIN headers |-> headers[name]]
  BY <1>8, <1>9, Zenon DEF Headers
<1>11. QED
  BY <1>10 DEF lines

\* Sequences of the texts that are written one after the other.

LEMMA ArrayIsSequence ==
  ASSUME NEW V, NEW N \in Nat, NEW f \in [1..N -> V]
  PROVE  f \in Seq(V) /\ Len(f) = N
<1>1. f \in Seq(V)
  OBVIOUS
<1>2. Len(f) \in Nat /\ DOMAIN f = 1..Len(f) /\ DOMAIN f = 1..N
  BY <1>1, LenProperties
<1>3. Len(f) = N
  <2>1. PICK n \in Nat : n = Len(f)
    BY <1>2
  <2>2. 1..n = 1..N
    BY <1>2, <2>1
  <2>3. CASE n < N
    <3>1. N \in 1..N /\ N \notin 1..n
      BY <2>3
    <3>2. QED
      BY <2>2, <3>1
  <2>4. CASE n > N
    <3>1. n \in 1..n /\ n \notin 1..N
      BY <2>4
    <3>2. QED
      BY <2>2, <3>1
  <2>5. QED
    BY <2>1, <2>3, <2>4
<1>4. QED
  BY <1>1, <1>3

\* Every element of a finite set is somewhere in its sequence.
LEMMA SetToSeqHasAll ==
  ASSUME NEW S, IsFiniteSet(S)
  PROVE  \E N \in Nat : /\ SetToSeq(S) \in [1..N -> S]
                        /\ \A x \in S : \E k \in 1..N : SetToSeq(S)[k] = x
<1>1. PICK N \in Nat : N = Cardinality(S) /\ ExistsBijection(1..N, S)
  BY FS_CardinalityType
<1>2. PICK f \in [1..N -> S] : IsInjective(f)
  BY <1>1, Zenon DEF ExistsBijection, Bijection, Injection
<1>3. SetToSeq(S) \in [1..N -> S] /\ IsInjective(SetToSeq(S))
  BY <1>1, <1>2, Zenon DEF SetToSeq
<1>4. SetToSeq(S) \in Injection(1..N, S)
  BY <1>3, Zenon DEF Injection
<1>5. IsFiniteSet(1..N) /\ Cardinality(1..N) = N
  <2>1. IF 1 > N THEN Cardinality(1..N) = 0 ELSE Cardinality(1..N) = N - 1 + 1
    BY FS_Interval
  <2>2. IsFiniteSet(1..N)
    BY FS_Interval
  <2>3. QED
    BY <2>1, <2>2
<1>6. SetToSeq(S) \in Surjection(1..N, S)
  BY <1>1, <1>4, <1>5, FS_Injection
<1>7. QED
  BY <1>3, <1>6, Zenon DEF Surjection

\* The texts that a text is joined from: what has been written after k of them.
LEMMA Flattened ==
  ASSUME NEW N \in Nat \ {0}, NEW texts \in [1..N -> Text]
  PROVE  \E f \in [1..N -> Text] : /\ f[1] = texts[1]
                                   /\ \A k \in 2..N : f[k] = f[k - 1] \o texts[k]
                                   /\ FlattenSeq(texts) = f[N]
<1> DEFINE step == [p \in (2..N) \X Text |-> p[2] \o texts[p[1]]]
           Flatten(f) == f = [i \in 1..N |-> IF i = 1 THEN texts[i] ELSE f[i - 1] \o texts[i]]
           g == CHOOSE f : Flatten(f)
<1>1. step \in [(2..N) \X Text -> Text]
  <2>1. ASSUME NEW p \in (2..N) \X Text PROVE p[2] \o texts[p[1]] \in Text
    <3>1. p[2] \in Text /\ texts[p[1]] \in Text
      OBVIOUS
    <3>2. QED
      BY <3>1, TextFacts
  <2>2. QED
    BY <2>1
<1>2. \A k \in 2..N : \A t \in Text : step[<<k, t>>] = t \o texts[k]
  OBVIOUS
<1> HIDE DEF step
<1>3. PICK f : IsRecursion(f, Text, texts[1], step, N)
  <2>1. texts[1] \in Text
    OBVIOUS
  <2>2. QED
    BY <1>1, <2>1, RecursionExists
<1>4. f \in [1..N -> Text] /\ f[1] = texts[1] /\ \A k \in 2..N : f[k] = step[<<k, f[k - 1]>>]
  BY <1>3 DEF IsRecursion
<1>5. \A k \in 2..N : f[k] = f[k - 1] \o texts[k]
  <2>1. ASSUME NEW k \in 2..N PROVE f[k] = f[k - 1] \o texts[k]
    <3>1. k - 1 \in 1..N
      OBVIOUS
    <3>2. f[k - 1] \in Text
      BY <1>4, <3>1
    <3>3. QED
      BY <1>2, <1>4, <3>2
  <2>2. QED
    BY <2>1
<1>6. Flatten(f)
  <2>1. \A i \in 1..N : f[i] = IF i = 1 THEN texts[i] ELSE f[i - 1] \o texts[i]
    <3>1. ASSUME NEW i \in 1..N PROVE f[i] = IF i = 1 THEN texts[i] ELSE f[i - 1] \o texts[i]
      <4>1. i = 1 \/ i \in 2..N
        OBVIOUS
      <4>2. QED
        BY <1>4, <1>5, <4>1
    <3>2. QED
      BY <3>1
  <2>2. f = [i \in 1..N |-> f[i]]
    BY <1>4
  <2>3. QED
    BY <2>1, <2>2
<1>7. Flatten(g)
  BY <1>6, Zenon
<1>8. FlattenSeq(texts) = g[N]
  <2>1. Len(texts) = N /\ N # 0
    <3>1. N \in Nat /\ N # 0
      OBVIOUS
    <3>2. QED
      BY <3>1, ArrayIsSequence, Zenon
  <2>2. QED
    BY <2>1, Zenon DEF FlattenSeq
<1> HIDE DEF g
<1>9. DOMAIN g = 1..N /\ g[1] = texts[1] /\ \A k \in 2..N : g[k] = g[k - 1] \o texts[k]
  <2>1. DOMAIN g = 1..N /\ \A i \in 1..N : g[i] = IF i = 1 THEN texts[i] ELSE g[i - 1] \o texts[i]
    BY <1>7, Zenon
  <2>2. \A k \in 2..N : k \in 1..N /\ k # 1
    OBVIOUS
  <2>3. 1 \in 1..N
    OBVIOUS
  <2>4. QED
    BY <2>1, <2>2, <2>3
<1>10. \A k \in 1..N : g[k] \in Text
  <2> DEFINE S == {k \in 1..N : g[k] \in Text}
  <2>1. 1 \in S
    BY <1>9
  <2>2. ASSUME NEW k \in 2..N, k - 1 \in S PROVE k \in S
    <3>1. g[k - 1] \in Text /\ texts[k] \in Text
      BY <2>2
    <3>2. g[k - 1] \o texts[k] \in Text
      BY <3>1, TextFacts
    <3>3. k \in 1..N /\ g[k] \in Text
      <4>1. g[k] = g[k - 1] \o texts[k]
        BY <1>9, Zenon
      <4>2. k \in 1..N
        OBVIOUS
      <4>3. QED
        BY <3>2, <4>1, <4>2, Zenon
    <3>4. QED
      BY <3>3
  <2> HIDE DEF S
  <2>3. 1..N \subseteq S
    BY <2>1, <2>2, UpTo
  <2>4. QED
    BY <2>3 DEF S
<1>11. g = [k \in 1..N |-> g[k]]
  BY <1>7, Zenon
<1>12. g \in [1..N -> Text]
  BY <1>10, <1>11
<1>13. QED
  BY <1>8, <1>9, <1>12

\* No sequences at all.
LEMMA Flattened0 ==
  ASSUME NEW texts, texts \in [1..0 -> Text]
  PROVE  FlattenSeq(texts) = <<>>
<1>1. texts \in Text /\ Len(texts) = 0
  <2>1. 1..0 = {} /\ 0 \in Nat
    OBVIOUS
  <2>2. texts \in [1..0 -> Token]
    BY <2>1
  <2>3. QED
    BY <2>1, <2>2, ArrayIsSequence, Zenon DEF Text
<1>2. <<>> \in Text /\ Len(<<>>) = 0
  BY DEF Text
<1>3. texts = <<>>
  BY <1>1, <1>2, SameText
<1>4. QED
  BY <1>1, <1>3 DEF FlattenSeq

LEMMA Joins ==
  /\ \A r, s, t \in Text : (r \o s) \o t = r \o (s \o t)
  /\ \A s \in Text : s \o <<>> = s /\ <<>> \o s = s
<1>1. ASSUME NEW r \in Text, NEW s \in Text, NEW t \in Text PROVE (r \o s) \o t = r \o (s \o t)
  BY ConcatAssociative DEF Text
<1>2. ASSUME NEW s \in Text PROVE s \o <<>> = s /\ <<>> \o s = s
  BY ConcatEmptySeq DEF Text
<1>3. QED
  BY <1>1, <1>2

\* Lines as they are written: free of line ends, and not empty.
Writes(lines, N) ==
  lines \in [1..N -> Text] /\ \A k \in 1..N : Free(lines[k], {LF, CR}) /\ lines[k] # <<>>

FirstOf(lines, n) == {lines[j] : j \in 1..n}

LEMMA FirstOfGrows ==
  ASSUME NEW lines
  PROVE  /\ FirstOf(lines, 1) = {lines[1]}
         /\ \A k \in Nat : k > 1 => FirstOf(lines, k) = FirstOf(lines, k - 1) \cup {lines[k]}
<1>1. FirstOf(lines, 1) = {lines[1]}
  <2>1. 1..1 = {1}
    OBVIOUS
  <2>2. QED
    BY <2>1 DEF FirstOf
<1>2. ASSUME NEW k \in Nat, k > 1
      PROVE  FirstOf(lines, k) = FirstOf(lines, k - 1) \cup {lines[k]}
  <2>1. 1..k = (1..(k - 1)) \cup {k}
    BY <1>2
  <2>2. QED
    BY <2>1, Zenon DEF FirstOf
<1>3. QED
  BY <1>1, <1>2

LEMMA Join3 ==
  ASSUME NEW r \in Text, NEW s \in Text, NEW t \in Text
  PROVE  r \o (s \o t) = r \o s \o t
  BY Joins

LEMMA Join4 ==
  ASSUME NEW r \in Text, NEW s \in Text, NEW t \in Text, NEW u \in Text
  PROVE  (r \o s) \o (t \o u) = r \o s \o t \o u
<1>1. r \o s \in Text
  BY TextFacts
<1>2. QED
  BY <1>1, Join3

LEMMA EolText ==
  ASSUME NEW eol \in Eol PROVE eol \in Text
  BY EolFacts

\* build: each line comes after its line end.
LEMMA LinesBuilt ==
  ASSUME NEW command, Free(command, {LF, CR}), command # <<>>,
         NEW N \in Nat \ {0}, NEW lines, Writes(lines, N), NEW eol \in Eol,
         NEW f \in [1..N -> Text], f[1] = eol \o lines[1],
         \A k \in 2..N : f[k] = f[k - 1] \o (eol \o lines[k])
  PROVE  Heading(command \o f[N], command, FirstOf(lines, N))
<1> DEFINE S == {k \in 1..N : Heading(command \o f[k], command, FirstOf(lines, k))}
<1>1. command \in Text /\ eol \in Text
  BY FreeFacts, EolText
<1>2. \A k \in 1..N : lines[k] \in Text /\ Free(lines[k], {LF, CR}) /\ lines[k] # <<>>
  BY DEF Writes
<1>3. 1 \in S
  <2>1. 1 \in 1..N
    OBVIOUS
  <2>2. command \o f[1] = command \o eol \o lines[1]
    <3>1. lines[1] \in Text
      BY <1>2, <2>1
    <3>2. command \o (eol \o lines[1]) = command \o eol \o lines[1]
      BY <1>1, <3>1, Join3, Zenon
    <3>3. QED
      BY <3>2, Zenon
  <2>3. Heading(command \o eol \o lines[1], command, {} \cup {lines[1]})
    BY <1>2, <2>1, HeadStarts, HeadGrows
  <2>4. {} \cup {lines[1]} = FirstOf(lines, 1)
    BY FirstOfGrows
  <2>5. QED
    BY <2>1, <2>2, <2>3, <2>4
<1>4. ASSUME NEW k \in 2..N, k - 1 \in S PROVE k \in S
  <2>1. k \in 1..N /\ k - 1 \in 1..N /\ k \in Nat /\ k > 1
    OBVIOUS
  <2>2. /\ f[k - 1] \in Text /\ lines[k] \in Text
        /\ Heading(command \o f[k - 1], command, FirstOf(lines, k - 1))
    BY <1>2, <1>4, <2>1
  <2> DEFINE g == f[k - 1]
             l == lines[k]
             t == command \o g
  <2>3. g \in Text /\ l \in Text /\ Free(l, {LF, CR}) /\ l # <<>> /\ eol \o l \in Text /\ t \in Text
    BY <1>1, <1>2, <2>1, <2>2, TextFacts
  <2>4. f[k] = g \o (eol \o l)
    OBVIOUS
  <2> HIDE DEF g, l
  <2>5. command \o f[k] = t \o eol \o l
    <3>1. command \o (g \o (eol \o l)) = t \o (eol \o l)
      BY <1>1, <2>3, Joins
    <3>2. t \o (eol \o l) = t \o eol \o l
      BY <1>1, <2>3, Joins
    <3>3. QED
      BY <2>4, <3>1, <3>2
  <2>6. Heading(t, command, FirstOf(lines, k - 1))
    BY <2>2 DEF g
  <2> HIDE DEF t
  <2>7. Heading(t \o eol \o l, command, FirstOf(lines, k - 1) \cup {l})
    BY <2>3, <2>6, HeadGrows, Zenon
  <2>8. FirstOf(lines, k - 1) \cup {l} = FirstOf(lines, k)
    BY <2>1, FirstOfGrows DEF l
  <2>9. QED
    BY <2>1, <2>5, <2>7, <2>8
<1> HIDE DEF S
<1>5. N \in S
  <2>1. N \in Nat /\ N \in 1..N
    OBVIOUS
  <2>2. 1..N \subseteq S
    BY <1>3, <1>4, <2>1, UpTo
  <2>3. QED
    BY <2>1, <2>2
<1>6. QED
  BY <1>5 DEF S

\* A server: each line comes before its line end.
LineByLine(f, lines, N, eol) ==
  /\ f \in [1..N -> Text] /\ f[1] = lines[1] \o eol
  /\ \A k \in 2..N : f[k] = f[k - 1] \o (lines[k] \o eol)

HeadWritten(text, command, lines, eol) ==
  \E s : Heading(s, command, lines) /\ (command \o eol) \o text = s \o eol

\* The lines of a server make a heading.
LEMMA LinesWritten ==
  ASSUME NEW command, Free(command, {LF, CR}), command # <<>>,
         NEW N \in Nat \ {0}, NEW lines, Writes(lines, N), NEW eol \in Eol,
         NEW f, LineByLine(f, lines, N, eol)
  PROVE  HeadWritten(f[N], command, FirstOf(lines, N), eol)
<1>0. /\ f \in [1..N -> Text] /\ f[1] = lines[1] \o eol
      /\ \A k \in 2..N : f[k] = f[k - 1] \o (lines[k] \o eol)
  BY DEF LineByLine
<1> DEFINE P(k) == \E s : /\ Heading(s, command, FirstOf(lines, k))
                          /\ (command \o eol) \o f[k] = s \o eol
           S == {k \in 1..N : P(k)}
<1>1. command \in Text /\ eol \in Text /\ command \o eol \in Text
  BY FreeFacts, EolText, TextFacts
<1>2. \A k \in 1..N : lines[k] \in Text /\ Free(lines[k], {LF, CR}) /\ lines[k] # <<>>
  BY DEF Writes
<1>3. 1 \in S
  <2>1. 1 \in 1..N
    OBVIOUS
  <2>2. (command \o eol) \o f[1] = (command \o eol \o lines[1]) \o eol
    <3>1. lines[1] \in Text
      BY <1>2, <2>1
    <3>2. (command \o eol) \o (lines[1] \o eol) = (command \o eol \o lines[1]) \o eol
      BY <1>1, <3>1, Join3
    <3>3. QED
      BY <1>0, <3>2, Zenon
  <2>3. Heading(command \o eol \o lines[1], command, {} \cup {lines[1]})
    BY <1>2, <2>1, HeadStarts, HeadGrows
  <2>4. {} \cup {lines[1]} = FirstOf(lines, 1)
    BY FirstOfGrows
  <2>5. P(1)
    BY <2>2, <2>3, <2>4
  <2>6. QED
    BY <2>1, <2>5
<1>4. ASSUME NEW k \in 2..N, k - 1 \in S PROVE k \in S
  <2>1. k \in 1..N /\ k - 1 \in 1..N /\ k \in Nat /\ k > 1
    OBVIOUS
  <2>2. P(k - 1)
    BY <1>4
  <2>3. PICK s : /\ Heading(s, command, FirstOf(lines, k - 1))
                 /\ (command \o eol) \o f[k - 1] = s \o eol
    BY <2>2
  <2> DEFINE g == f[k - 1]
             l == lines[k]
             c == command \o eol
  <2>4. /\ g \in Text /\ l \in Text /\ Free(l, {LF, CR}) /\ l # <<>> /\ l \o eol \in Text
        /\ c \in Text /\ s \in Text
    <3>1. g \in Text /\ l \in Text /\ Free(l, {LF, CR}) /\ l # <<>>
      BY <1>0, <1>2, <2>1
    <3>2. l \o eol \in Text /\ c \in Text /\ s \in Text
      BY <1>1, <2>3, <3>1, TextFacts DEF Heading
    <3>3. QED
      BY <3>1, <3>2
  <2>5. f[k] = g \o (l \o eol) /\ c \o g = s \o eol
    BY <1>0, <2>3
  <2> HIDE DEF g, l, c
  <2>6. c \o f[k] = (s \o eol \o l) \o eol
    <3>1. c \o (g \o (l \o eol)) = (c \o g) \o (l \o eol)
      BY <2>4, Joins
    <3>2. s \o eol \in Text
      BY <1>1, <2>4, TextFacts
    <3>3. (s \o eol) \o (l \o eol) = ((s \o eol) \o l) \o eol
      BY <1>1, <2>4, <3>2, Join3
    <3>4. QED
      BY <2>5, <3>1, <3>3
  <2>7. Heading(s \o eol \o l, command, FirstOf(lines, k - 1) \cup {l})
    BY <2>3, <2>4, HeadGrows, Zenon
  <2>8. FirstOf(lines, k - 1) \cup {l} = FirstOf(lines, k)
    BY <2>1, FirstOfGrows DEF l
  <2>9. P(k)
    BY <2>6, <2>7, <2>8 DEF c
  <2> HIDE DEF P
  <2>10. QED
    BY <2>1, <2>9
<1> HIDE DEF S
<1>5. N \in S
  <2>1. N \in Nat /\ N \in 1..N
    OBVIOUS
  <2>2. 1..N \subseteq S
    BY <1>3, <1>4, <2>1, UpTo
  <2>3. QED
    BY <2>1, <2>2
<1>6. QED
  BY <1>5, Zenon DEF S, HeadWritten

-----------------------------------------------------------------------------
(* Frames. *)

\* The header lines of a message, in the order in which they are written.
LEMMA HeadersInOrder ==
  ASSUME NEW headers, Writable(headers)
  PROVE  \E N \in Nat : \E lines :
           /\ DOMAIN SetToSeq(DOMAIN headers) = 1..N
           /\ Writes(lines, N) /\ FirstOf(lines, N) = HeaderLines(headers)
           /\ \A k \in 1..N : /\ SetToSeq(DOMAIN headers)[k] \in DOMAIN headers
                              /\ lines[k] = HeaderLine(SetToSeq(DOMAIN headers)[k],
                                                       headers[SetToSeq(DOMAIN headers)[k]])
<1> DEFINE names == SetToSeq(DOMAIN headers)
<1>1. IsFiniteSet(DOMAIN headers)
  BY DEF Writable
<1>2. PICK N \in Nat : names \in [1..N -> DOMAIN headers] /\ \A x \in DOMAIN headers : \E k \in 1..N : names[k] = x
  BY <1>1, SetToSeqHasAll
<1> HIDE DEF names
<1> DEFINE lines == [k \in 1..N |-> HeaderLine(names[k], headers[names[k]])]
<1>3. ASSUME NEW name \in DOMAIN headers
      PROVE  /\ Free(HeaderLine(name, headers[name]), {LF, CR})
             /\ HeaderLine(name, headers[name]) # <<>>
             /\ HeaderLine(name, headers[name]) \in Text
  <2>1. Free(name, {LF, CR, Colon, NUL}) /\ Free(headers[name], {LF, CR, NUL})
    BY Zenon DEF Writable
  <2>2. Free(HeaderLine(name, headers[name]), {LF, CR}) /\ HeaderLine(name, headers[name]) # <<>>
    BY <2>1, HeaderLineReads, Zenon
  <2>3. QED
    BY <2>2, FreeFacts, Zenon
<1>4. \A k \in 1..N : names[k] \in DOMAIN headers
  BY <1>2
<1>5. Writes(lines, N)
  BY <1>3, <1>4 DEF Writes
<1>6. FirstOf(lines, N) = HeaderLines(headers)
  <2>1. \A x \in FirstOf(lines, N) : x \in HeaderLines(headers)
    BY <1>4 DEF FirstOf, HeaderLines
  <2>2. ASSUME NEW name \in DOMAIN headers PROVE HeaderLine(name, headers[name]) \in FirstOf(lines, N)
    <3>1. PICK k \in 1..N : names[k] = name
      BY <1>2
    <3>2. lines[k] = HeaderLine(name, headers[name])
      BY <3>1
    <3>3. QED
      BY <3>2, Zenon DEF FirstOf
  <2>3. \A x \in HeaderLines(headers) : x \in FirstOf(lines, N)
    BY <2>2, Zenon DEF HeaderLines
  <2>4. QED
    BY <2>1, <2>3, Zenon
<1>7. DOMAIN names = 1..N /\ \A k \in 1..N : lines[k] = HeaderLine(names[k], headers[names[k]])
  BY <1>2
<1> HIDE DEF lines
<1>8. QED
  BY <1>4, <1>5, <1>6, <1>7 DEF names

-----------------------------------------------------------------------------
(* What the bridge writes. *)

LEMMA WordIsFree ==
  ASSUME NEW w \in Word
  PROVE  Free(<<w>>, {LF, CR, Colon, NUL}) /\ Free(<<w>>, {LF, CR, NUL}) /\ Free(<<w>>, {LF, CR})
<1>1. w \in Token /\ w \notin {LF, CR, Colon, NUL}
  BY TokenFacts
<1>2. <<w>> \in Text
  BY <1>1, WordText
<1>3. Range(<<w>>) = {w}
  BY DEF Range
<1>4. QED
  BY <1>1, <1>2, <1>3 DEF Free

LEMMA FreeOfFewer ==
  ASSUME NEW text, Free(text, {LF, CR, NUL})
  PROVE  Free(text, {LF, CR})
  BY DEF Free

\* more has the headers and this one, which replaces another of its name.
OneMore(name, value, headers, more) ==
  /\ DOMAIN more = DOMAIN headers \cup {name}
  /\ more[name] = value
  /\ \A n \in DOMAIN headers \ {name} : more[n] = headers[n]

LEMMA HeaderOver ==
  ASSUME NEW name, NEW value, NEW headers
  PROVE  OneMore(name, value, headers, Over(Header(name, value), headers))
<1>1. DOMAIN Header(name, value) = {name} /\ Header(name, value)[name] = value
  BY DEF Header
<1>2. DOMAIN Over(Header(name, value), headers) = DOMAIN headers \cup {name}
  BY <1>1 DEF Over
<1>3. \A n \in DOMAIN headers \cup {name} :
        Over(Header(name, value), headers)[n]
          = IF n \in {name} THEN Header(name, value)[n] ELSE headers[n]
  BY <1>1 DEF Over
<1>4. QED
  BY <1>1, <1>2, <1>3 DEF OneMore

\* A header that can be written may be added.
LEMMA WritableOver ==
  ASSUME NEW headers, Writable(headers), NEW name, Free(name, {LF, CR, Colon, NUL}),
         name # <<"command">>, NEW value, Free(value, {LF, CR, NUL})
  PROVE  Writable(Over(Header(name, value), headers))
<1> DEFINE more == Over(Header(name, value), headers)
<1>1. /\ DOMAIN more = DOMAIN headers \cup {name}
      /\ more[name] = value
      /\ \A n \in DOMAIN headers \ {name} : more[n] = headers[n]
  <2>1. OneMore(name, value, headers, more)
    BY HeaderOver
  <2> HIDE DEF more
  <2>2. QED
    BY <2>1, Zenon DEF OneMore
<1> HIDE DEF more
<1>2. /\ IsFiniteSet(DOMAIN headers) /\ <<"command">> \notin DOMAIN headers
      /\ \A n \in DOMAIN headers :
           Free(n, {LF, CR, Colon, NUL}) /\ Free(headers[n], {LF, CR, NUL})
  BY Zenon DEF Writable
<1>3. IsFiniteSet(DOMAIN more)
  BY <1>1, <1>2, FS_AddElement
<1>4. <<"command">> \notin DOMAIN more
  BY <1>1, <1>2
<1>5. ASSUME NEW n \in DOMAIN more
      PROVE  Free(n, {LF, CR, Colon, NUL}) /\ Free(more[n], {LF, CR, NUL})
  <2>1. CASE n = name
    BY <1>1, <2>1, Zenon
  <2>2. CASE n # name
    <3>1. n \in DOMAIN headers /\ more[n] = headers[n]
      BY <1>1, <2>2
    <3>2. QED
      BY <1>2, <3>1, Zenon
  <2>3. QED
    BY <2>1, <2>2
<1>6. Writable(more)
  BY <1>3, <1>4, <1>5, Zenon DEF Writable
<1>7. QED
  BY <1>6 DEF more

\* The headers that build writes.
Length == <<"content-length">>
Sized(m) ==
  IF m.body = <<>> \/ Length \in DOMAIN m.headers THEN m.headers
  ELSE Over(Header(Length, <<Numeral(Len(m.body))>>), m.headers)

LEMMA LengthIs ==
  /\ Free(Length, {LF, CR, Colon, NUL}) /\ Length # <<"command">> /\ Length \in Text
  /\ Length # <<"id">> /\ Length # <<"topic">> /\ Length # <<"destination">>
  /\ Length # <<"content-type">> /\ Length # <<"contentType">>
<1>1. Free(Length, {LF, CR, Colon, NUL}) /\ Length \in Text
  BY WordIsFree, WordAssumption, FreeFacts DEF Length
<1>2. "content-length" \notin {"command", "id", "topic", "destination", "content-type", "contentType"}
  OBVIOUS
<1>3. QED
  BY <1>1, <1>2 DEF Length

LEMMA SizedIs ==
  ASSUME NEW m, Writable(m.headers), Numeral(Len(m.body)) \in Word
  PROVE  Writable(Sized(m))
<1>1. Free(<<Numeral(Len(m.body))>>, {LF, CR, NUL})
  BY WordIsFree
<1>2. QED
  BY <1>1, LengthIs, WritableOver, Zenon DEF Sized

\* The lines of more headers.
LEMMA LinesOver ==
  ASSUME NEW headers, NEW name, NEW value, name \notin DOMAIN headers
  PROVE  HeaderLines(Over(Header(name, value), headers))
           = HeaderLines(headers) \cup {HeaderLine(name, value)}
<1> DEFINE more == Over(Header(name, value), headers)
<1>1. /\ DOMAIN more = DOMAIN headers \cup {name}
      /\ more[name] = value
      /\ \A n \in DOMAIN headers \ {name} : more[n] = headers[n]
  <2>1. OneMore(name, value, headers, more)
    BY HeaderOver
  <2> HIDE DEF more
  <2>2. QED
    BY <2>1, Zenon DEF OneMore
<1> HIDE DEF more
<1>2. HeaderLines(more) = HeaderLines(headers) \cup {HeaderLine(name, value)}
  BY <1>1 DEF HeaderLines
<1>3. QED
  BY <1>2 DEF more

LEMMA LineIs ==
  ASSUME NEW name \in Text, NEW value \in Text
  PROVE  Line(name, value) = <<LF>> \o HeaderLine(name, value)
<1> DEFINE lf == <<LF>>
           colon == <<Colon>>
<1>1. lf \in Text /\ colon \in Text
  BY WordText, TokenFacts
<1> HIDE DEF lf, colon
<1>2. name \o colon \in Text /\ lf \o name \in Text
  BY <1>1, TextFacts
<1> DEFINE start == name \o colon
<1>3. lf \o start = lf \o name \o colon
  BY <1>1, Join3
<1>4. start \in Text
  BY <1>2
<1> HIDE DEF start
<1>5. lf \o (start \o value) = lf \o start \o value
  BY <1>1, <1>4, Join3
<1>6. lf \o (start \o value) = lf \o name \o colon \o value
  BY <1>3, <1>5, Zenon
<1>7. QED
  BY <1>6, Zenon DEF start, lf, colon, Line, HeaderLine

\* What build writes: a heading, a blank line, the body and NUL.
LEMMA Built ==
  ASSUME NEW m, Writable(m.headers), Free(m.command, {LF, CR}), m.command # <<>>,
         m.body \in Text, Numeral(Len(m.body)) \in Word
  PROVE  \E s : /\ Heading(s, m.command, HeaderLines(Sized(m)))
                /\ build(m) = s \o <<LF>> \o <<LF>> \o (m.body \o <<NUL>>)
<1> DEFINE headers == m.headers
           names == SetToSeq(DOMAIN headers)
           texts == [k \in DOMAIN names |-> Line(names[k], headers[names[k]])]
           s0 == m.command \o FlattenSeq(texts)
           s == s0 \o ContentLength(m)
<1>0. PICK N \in Nat : \E lines :
        /\ DOMAIN names = 1..N
        /\ Writes(lines, N) /\ FirstOf(lines, N) = HeaderLines(headers)
        /\ \A k \in 1..N : /\ names[k] \in DOMAIN headers
                           /\ lines[k] = HeaderLine(names[k], headers[names[k]])
  BY HeadersInOrder, Zenon
<1>1. PICK lines :
        /\ DOMAIN names = 1..N
        /\ Writes(lines, N) /\ FirstOf(lines, N) = HeaderLines(headers)
        /\ \A k \in 1..N : /\ names[k] \in DOMAIN headers
                           /\ lines[k] = HeaderLine(names[k], headers[names[k]])
  BY <1>0
<1> HIDE DEF names
<1>2. <<LF>> \in Eol /\ <<LF>> \in Text
  BY WordText, TokenFacts DEF Eol
<1>3. ASSUME NEW k \in 1..N PROVE texts[k] = <<LF>> \o lines[k] /\ texts[k] \in Text
  <2>1. names[k] \in Text /\ headers[names[k]] \in Text /\ lines[k] \in Text
    BY <1>1, Zenon DEF Writable, Free, Writes
  <2>2. texts[k] = Line(names[k], headers[names[k]])
    BY <1>1
  <2>3. texts[k] = <<LF>> \o lines[k]
    <3>1. Line(names[k], headers[names[k]]) = <<LF>> \o HeaderLine(names[k], headers[names[k]])
      BY <2>1, LineIs
    <3>2. lines[k] = HeaderLine(names[k], headers[names[k]])
      BY <1>1
    <3>3. QED
      BY <2>2, <3>1, <3>2, Zenon
  <2>4. <<LF>> \o lines[k] \in Text
    BY <1>2, <2>1, TextFacts
  <2>5. QED
    BY <2>3, <2>4
<1>4. texts \in [1..N -> Text]
  BY <1>1, <1>3
<1> HIDE DEF texts
<1>5. Heading(s0, m.command, HeaderLines(headers))
  <2>1. CASE N = 0
    <3>1. texts \in [1..0 -> Text] /\ FirstOf(lines, 0) = {}
      BY <1>4, <2>1 DEF FirstOf
    <3>2. m.command \o <<>> = m.command
      BY FreeFacts, Joins
    <3>3. s0 = m.command
      BY <3>1, <3>2, Flattened0, Zenon
    <3>4. Heading(m.command, m.command, {})
      BY HeadStarts
    <3>5. QED
      BY <1>1, <2>1, <3>1, <3>3, <3>4
  <2>2. CASE N # 0
    <3>1. N \in Nat \ {0} /\ 1 \in 1..N /\ \A k \in 2..N : k \in 1..N
      BY <2>2
    <3>2. PICK f \in [1..N -> Text] : /\ f[1] = texts[1]
                                      /\ \A k \in 2..N : f[k] = f[k - 1] \o texts[k]
                                      /\ FlattenSeq(texts) = f[N]
      BY <1>4, <3>1, Flattened
    <3>3. f[1] = <<LF>> \o lines[1]
      BY <1>3, <3>1, <3>2
    <3>4. \A k \in 2..N : f[k] = f[k - 1] \o (<<LF>> \o lines[k])
      BY <1>3, <3>1, <3>2, Zenon
    <3>5. Heading(m.command \o f[N], m.command, FirstOf(lines, N))
      BY <1>1, <1>2, <3>1, <3>2, <3>3, <3>4, LinesBuilt, Zenon
    <3>6. QED
      BY <1>1, <3>2, <3>5, Zenon
  <2>3. QED
    BY <2>1, <2>2
<1>6. s0 \in Text
  BY <1>5 DEF Heading
<1>7. build(m) = s \o <<LF, LF>> \o m.body \o <<NUL>>
  BY Zenon DEF build, texts, names
<1> HIDE DEF s0
<1>8. Heading(s, m.command, HeaderLines(Sized(m)))
  <2>1. CASE m.body = <<>> \/ Length \in DOMAIN m.headers
    <3>1. ContentLength(m) = <<>> /\ Sized(m) = m.headers
      BY <2>1, Zenon DEF ContentLength, Sized, Length
    <3>2. s0 \o <<>> = s0
      BY <1>6, Joins
    <3>3. QED
      BY <1>5, <3>1, <3>2, Zenon
  <2>2. CASE ~(m.body = <<>> \/ Length \in DOMAIN m.headers)
    <3> DEFINE number == <<Numeral(Len(m.body))>>
    <3>1. /\ ContentLength(m) = Line(Length, number)
          /\ Sized(m) = Over(Header(Length, number), m.headers)
      BY <2>2, Zenon DEF ContentLength, Sized, Length
    <3>2. Free(number, {LF, CR, NUL}) /\ number \in Text
      BY WordIsFree, FreeFacts
    <3> HIDE DEF number
    <3> DEFINE l == HeaderLine(Length, number)
               lf == <<LF>>
    <3>3. Free(l, {LF, CR}) /\ l # <<>> /\ l \in Text /\ lf \in Text /\ lf \in Eol
      BY <1>2, <3>2, LengthIs, HeaderLineReads, FreeFacts
    <3>4. ContentLength(m) = lf \o l
      BY <3>1, <3>2, LengthIs, LineIs, Zenon
    <3>5. HeaderLines(Sized(m)) = HeaderLines(headers) \cup {l}
      <4>1. Length \notin DOMAIN m.headers
        BY <2>2
      <4>2. HeaderLines(Over(Header(Length, number), m.headers)) = HeaderLines(m.headers) \cup {l}
        BY <4>1, LinesOver, Zenon
      <4>3. QED
        BY <3>1, <4>2, Zenon
    <3> HIDE DEF l, lf
    <3>6. s = s0 \o lf \o l
      <4>1. s0 \o (lf \o l) = s0 \o lf \o l
        BY <1>6, <3>3, Join3
      <4>2. QED
        BY <3>4, <4>1, Zenon
    <3>7. Heading(s0 \o lf \o l, m.command, HeaderLines(headers) \cup {l})
      BY <1>5, <3>3, HeadGrows, Zenon
    <3>8. QED
      BY <3>5, <3>6, <3>7, Zenon
  <2>3. QED
    BY <2>1, <2>2
<1>9. s \in Text
  BY <1>8 DEF Heading
<1> HIDE DEF s
<1>10. s \o <<LF, LF>> \o m.body \o <<NUL>> = s \o <<LF>> \o <<LF>> \o (m.body \o <<NUL>>)
  <2> DEFINE lf == <<LF>>
             nul == <<NUL>>
             body == m.body
  <2>1. lf \in Text /\ nul \in Text /\ body \in Text
    BY WordText, TokenFacts
  <2>2. <<LF, LF>> = lf \o lf
    OBVIOUS
  <2> HIDE DEF lf, nul, body
  <2>3. s \o (lf \o lf) = s \o lf \o lf
    BY <1>9, <2>1, Join3
  <2> DEFINE t == s \o lf \o lf
  <2>4. t \in Text
    <3>1. s \o lf \in Text
      BY <1>9, <2>1, TextFacts
    <3>2. QED
      BY <2>1, <3>1, TextFacts
  <2> HIDE DEF t
  <2>5. t \o (body \o nul) = t \o body \o nul
    BY <2>1, <2>4, Join3
  <2>6. QED
    BY <2>2, <2>3, <2>5 DEF t, lf, nul, body
<1>11. QED
  BY <1>7, <1>8, <1>10, Zenon

-----------------------------------------------------------------------------
(* What the server writes. *)

\* What a server writes for a header.
LEMMA Written ==
  ASSUME NEW m, Writable(m.headers), Free(m.command, {LF, CR}), m.command # <<>>,
         m.body \in Text, NEW text \in Writings(m)
  PROVE  \E s : \E eol \in Eol, tail \in Text :
           /\ Heading(s, m.command, HeaderLines(m.headers))
           /\ text = s \o eol \o eol \o (m.body \o <<NUL>> \o tail)
<1> DEFINE headers == m.headers
           names == SetToSeq(DOMAIN headers)
           texts(eol) == [k \in DOMAIN names |->
                            names[k] \o <<Colon>> \o headers[names[k]] \o eol]
           start(eol) == m.command \o eol \o FlattenSeq(texts(eol))
<1>0. PICK N \in Nat : \E lines :
        /\ DOMAIN names = 1..N
        /\ Writes(lines, N) /\ FirstOf(lines, N) = HeaderLines(headers)
        /\ \A k \in 1..N : /\ names[k] \in DOMAIN headers
                           /\ lines[k] = HeaderLine(names[k], headers[names[k]])
  BY HeadersInOrder, Zenon
<1>1. PICK lines :
        /\ DOMAIN names = 1..N
        /\ Writes(lines, N) /\ FirstOf(lines, N) = HeaderLines(headers)
        /\ \A k \in 1..N : /\ names[k] \in DOMAIN headers
                           /\ lines[k] = HeaderLine(names[k], headers[names[k]])
  BY <1>0
<1> DEFINE whole(eol) == start(eol) \o eol \o m.body \o <<NUL>>
<1>2. PICK eol \in {<<LF>>, <<CR, LF>>} : text \in {whole(eol), whole(eol) \o <<LF>>}
  <2>1. PICK eol \in {<<LF>>, <<CR, LF>>} : text \in {Writing(m, eol), Writing(m, eol) \o <<LF>>}
    BY Zenon DEF Writings
  <2>2. Writing(m, eol) = whole(eol)
    BY Zenon DEF Writing
  <2>3. QED
    BY <2>1, <2>2, Zenon
<1>3. eol \in Eol /\ eol \in Text
  <2>1. eol \in Eol
    BY DEF Eol
  <2>2. QED
    BY <2>1, EolText
<1> DEFINE flat == texts(eol)
           head == start(eol)
<1> HIDE DEF names
<1>4. ASSUME NEW k \in 1..N PROVE flat[k] = lines[k] \o eol /\ flat[k] \in Text
  <2>1. lines[k] \in Text
    BY <1>1, Zenon DEF Writes
  <2>2. flat[k] = names[k] \o <<Colon>> \o headers[names[k]] \o eol
    BY <1>1, Zenon
  <2>3. flat[k] = lines[k] \o eol
    BY <1>1, <2>2, Zenon DEF HeaderLine
  <2>4. lines[k] \o eol \in Text
    BY <1>3, <2>1, TextFacts
  <2>5. QED
    BY <2>3, <2>4
<1>5. flat = [k \in 1..N |-> flat[k]]
  BY <1>1
<1>6. head = m.command \o eol \o FlattenSeq(flat)
  OBVIOUS
<1> HIDE DEF texts, flat
<1>7. flat \in [1..N -> Text]
  BY <1>4, <1>5
<1> HIDE DEF start, head
<1>8. \E s : Heading(s, m.command, HeaderLines(headers)) /\ head = s \o eol
  <2>1. CASE N = 0
    <3>1. flat \in [1..0 -> Text] /\ FirstOf(lines, 0) = {}
      BY <1>7, <2>1 DEF FirstOf
    <3>2. m.command \o eol \in Text
      BY <1>3, FreeFacts, TextFacts
    <3>3. (m.command \o eol) \o <<>> = m.command \o eol
      BY <3>2, Joins
    <3>4. head = m.command \o eol
      BY <1>6, <3>1, <3>3, Flattened0, Zenon
    <3>5. Heading(m.command, m.command, {})
      BY HeadStarts
    <3>6. QED
      BY <1>1, <2>1, <3>1, <3>4, <3>5
  <2>2. CASE N # 0
    <3>1. N \in Nat \ {0} /\ 1 \in 1..N /\ \A k \in 2..N : k \in 1..N
      BY <2>2
    <3>2. PICK f \in [1..N -> Text] : /\ f[1] = flat[1]
                                      /\ \A k \in 2..N : f[k] = f[k - 1] \o flat[k]
                                      /\ FlattenSeq(flat) = f[N]
      BY <1>7, <3>1, Flattened
    <3>3. f[1] = lines[1] \o eol
      BY <1>4, <3>1, <3>2
    <3>4. \A k \in 2..N : f[k] = f[k - 1] \o (lines[k] \o eol)
      BY <1>4, <3>1, <3>2, Zenon
    <3> LineByLine(f, lines, N, eol)
      BY <3>2, <3>3, <3>4, Zenon DEF LineByLine
    <3>5. HeadWritten(f[N], m.command, FirstOf(lines, N), eol)
      BY <1>1, <1>3, <3>1, LinesWritten
    <3>6. head = (m.command \o eol) \o f[N]
      BY <1>6, <3>2, Zenon
    <3>7. QED
      BY <1>1, <3>5, <3>6, Zenon DEF HeadWritten
  <2>3. QED
    BY <2>1, <2>2
<1>9. PICK s : Heading(s, m.command, HeaderLines(headers)) /\ head = s \o eol
  BY <1>8
<1> DEFINE body == m.body
           nul == <<NUL>>
           t == s \o eol \o eol
<1>10. s \in Text /\ body \in Text /\ nul \in Text /\ t \in Text
  <2>1. s \in Text /\ body \in Text /\ nul \in Text
    BY <1>9, WordText, TokenFacts DEF Heading
  <2>2. s \o eol \in Text
    BY <1>3, <2>1, TextFacts
  <2>3. QED
    BY <1>3, <2>1, <2>2, TextFacts
<1>11. /\ whole(eol) = t \o body \o nul /\ whole(eol) \in Text
       /\ whole(eol) \o <<>> = whole(eol)
  <2>1. head \o eol = t
    BY <1>9, Zenon
  <2> HIDE DEF t, body, nul
  <2>2. t \o body \in Text
    BY <1>10, TextFacts
  <2>3. t \o body \o nul \in Text
    BY <1>10, <2>2, TextFacts
  <2>4. (t \o body \o nul) \o <<>> = t \o body \o nul
    BY <2>3, Joins
  <2>5. whole(eol) = t \o body \o nul
    BY <2>1, Zenon DEF head, body, nul
  <2>6. QED
    BY <2>3, <2>4, <2>5, Zenon
<1>12. PICK tail \in Text : text = whole(eol) \o tail
  <2> HIDE DEF whole
  <2>1. <<>> \in Text /\ <<LF>> \in Text
    <3>1. <<>> \in Text
      BY DEF Text
    <3>2. QED
      BY <3>1, WordText, TokenFacts
  <2>2. QED
    BY <1>2, <1>11, <2>1, Zenon
<1>13. t \o (body \o nul \o tail) = (t \o body \o nul) \o tail
  <2> HIDE DEF t, body, nul
  <2>1. t \o (body \o nul) = t \o body \o nul
    BY <1>10, Join3
  <2> DEFINE u == body \o nul
  <2>2. u \in Text
    BY <1>10, TextFacts
  <2> HIDE DEF u
  <2>3. t \o (u \o tail) = t \o u \o tail
    <3>1. tail \in Text /\ t \in Text
      BY <1>10, <1>12
    <3>2. QED
      BY <2>2, <3>1, Join3
  <2>4. QED
    BY <2>1, <2>3, Zenon DEF u
<1>14. text = s \o eol \o eol \o (m.body \o <<NUL>> \o tail)
  <2> HIDE DEF whole
  <2>1. QED
    BY <1>11, <1>12, <1>13, Zenon
<1>15. QED
  BY <1>3, <1>9, <1>14, Zenon

-----------------------------------------------------------------------------
(* Reading. *)

HeadingIsRead(text, command, headers, eol, rest) ==
  /\ text \in Text /\ BlankLines(text) # {}
  /\ LineEnd(text, BodyAt(text)) = Len(eol)
  /\ LineEnd(text, BodyAt(text) + Len(eol)) = Len(eol)
  /\ SubSeq(text, BodyAt(text) + Len(eol) + Len(eol), Len(text)) = rest
  /\ First(Lines(SubSeq(text, 1, BodyAt(text) - 1))) = command
  /\ Headers(Others(Lines(SubSeq(text, 1, BodyAt(text) - 1))))
       = [name \in DOMAIN headers |-> headers[name]]

\* Heading and rest are found, and the headers read.
LEMMA HeadingParts ==
  ASSUME NEW s, NEW command, NEW headers, Heading(s, command, HeaderLines(headers)),
         Writable(headers), NEW eol \in Eol, NEW rest \in Text,
         NEW text, text = s \o eol \o eol \o rest
  PROVE  HeadingIsRead(text, command, headers, eol, rest)
<1>1. s \in Text /\ Inline(s) /\ Unbroken(s) /\ First(Lines(s)) = command
  BY DEF Heading
<1>2. Parts(s, eol, rest, text)
  BY <1>1, PartsApart, Zenon
<1>3. PICK n \in Nat, k \in Nat : n = Len(s) /\ k = Len(eol)
  BY <1>1, EolText, TextFacts
<1> DEFINE length == Len(text)
<1> HIDE DEF length
<1>4. /\ text \in Text /\ BlankLines(text) # {} /\ BodyAt(text) = n + 1
      /\ LineEnd(text, n + 1) = k /\ LineEnd(text, n + 1 + k) = k
      /\ SubSeq(text, 1, n) = s /\ SubSeq(text, n + k + k + 1, length) = rest
  BY <1>2, <1>3, Zenon DEF Parts, length
<1>5. (n + 1) - 1 = n /\ n + 1 + k + k = n + k + k + 1
  OBVIOUS
<1>6. Headers(Others(Lines(s))) = [name \in DOMAIN headers |-> headers[name]]
  BY HeadersAreRead, Zenon
<1>7. SubSeq(text, 1, BodyAt(text) - 1) = s
  BY <1>4, <1>5, Zenon
<1>8. SubSeq(text, BodyAt(text) + Len(eol) + Len(eol), length) = rest
  BY <1>3, <1>4, <1>5, Zenon
<1>9. QED
  BY <1>1, <1>3, <1>4, <1>6, <1>7, <1>8, Zenon DEF length, HeadingIsRead

\* The bridge reads what was written, whatever comes behind it in the chunk.
ParsesAs(text, command, headers, body) ==
  parse(text) = Identified(Message(command,
                  Without([name \in DOMAIN headers |-> headers[name]], {<<"command">>}), body))

LEMMA Parsed ==
  ASSUME NEW s, NEW command, NEW headers, Heading(s, command, HeaderLines(headers)),
         Writable(headers), NEW eol \in Eol, NEW body, Free(body, {NUL}), NEW tail \in Text,
         NEW text, text = s \o eol \o eol \o (body \o <<NUL>> \o tail)
  PROVE  ParsesAs(text, command, headers, body)
<1> DEFINE rest == body \o <<NUL>> \o tail
<1>1. body \in Text /\ (\A i \in 1..Len(body) : body[i] # NUL) /\ NUL \in Token /\ <<NUL>> \in Text
  BY FreeFacts, TokenFacts, WordText
<1>2. First(Split(rest, NUL)) = body
  BY <1>1, FirstPiece, Zenon
<1>3. rest \in Text
  <2>1. body \o <<NUL>> \in Text
    BY <1>1, TextFacts
  <2>2. QED
    BY <2>1, TextFacts
<1> HIDE DEF rest
<1>4. text = s \o eol \o eol \o rest
  BY Zenon DEF rest
<1> DEFINE i == BodyAt(text)
           lines == Lines(SubSeq(text, 1, i - 1))
           length == Len(eol)
<1>5. /\ BlankLines(text) # {} /\ LineEnd(text, i) = length /\ LineEnd(text, i + length) = length
      /\ SubSeq(text, i + length + length, Len(text)) = rest
      /\ First(lines) = command
      /\ Headers(Others(lines)) = [name \in DOMAIN headers |-> headers[name]]
  <2>1. HeadingIsRead(text, command, headers, eol, rest)
    BY <1>3, <1>4, HeadingParts
  <2>2. QED
    BY <2>1, Zenon DEF HeadingIsRead
<1>6. parse(text) = Identified(Message(First(lines),
                      Without(Headers(Others(lines)), {<<"command">>}),
                      First(Split(SubSeq(text, (i + LineEnd(text, i))
                                                 + LineEnd(text, i + LineEnd(text, i)), Len(text)), NUL))))
  BY <1>5, Zenon DEF parse
<1>7. QED
  BY <1>2, <1>5, <1>6, Zenon DEF ParsesAs

\* The length that the server takes is that of the body.
Measured(headers, body) ==
  \/ /\ Length \in DOMAIN headers /\ headers[Length] = <<Numeral(Len(body))>>
     /\ \A n \in 0..(Len(body) + 1) : Numeral(n) = Numeral(Len(body)) => n = Len(body)
  \/ Length \notin DOMAIN headers /\ body = <<>>

ReadsAs(text, command, headers, body) ==
  Reading(text) = Message(command, [name \in DOMAIN headers |-> headers[name]], body)

LEMMA ReadBack ==
  ASSUME NEW s, NEW command, NEW headers, Heading(s, command, HeaderLines(headers)),
         Writable(headers), NEW body \in Text,
         NEW text, text = s \o <<LF>> \o <<LF>> \o (body \o <<NUL>>),
         Measured(headers, body)
  PROVE  ReadsAs(text, command, headers, body)
<1> DEFINE nul == <<NUL>>
           rest == body \o nul
           lf == <<LF>>
<1>1. /\ nul \in Text /\ Len(nul) = 1 /\ nul[1] = NUL /\ lf \in Text /\ Len(lf) = 1 /\ lf \in Eol
  BY WordText, TokenFacts DEF Eol
<1>2. text = s \o lf \o lf \o rest
  OBVIOUS
<1> HIDE DEF nul, lf
<1>3. PICK n \in Nat : n = Len(body)
  BY TextFacts
<1>4. rest \in Text /\ Len(rest) = n + 1 /\ rest[n + 1] = NUL /\ \A i \in 1..n : rest[i] = body[i]
  <2>1. /\ rest \in Text /\ Len(rest) = Len(body) + Len(nul)
        /\ \A i \in 1..Len(body) : rest[i] = body[i]
        /\ \A i \in 1..Len(nul) : rest[Len(body) + i] = nul[i]
    BY <1>1, TextFacts
  <2>2. 1 \in 1..Len(nul)
    BY <1>1
  <2> HIDE DEF rest
  <2>3. QED
    BY <1>1, <1>3, <2>1, <2>2
<1> HIDE DEF rest
<1> DEFINE i == BodyAt(text)
           lines == Lines(SubSeq(text, 1, i - 1))
           found == Headers(Others(lines))
<1>5. /\ SubSeq(text, i + Len(lf) + Len(lf), Len(text)) = rest
      /\ First(lines) = command
      /\ found = [name \in DOMAIN headers |-> headers[name]]
      /\ i \in Nat
  <2> HeadingIsRead(text, command, headers, lf, rest)
    BY <1>1, <1>2, <1>4, HeadingParts
  <2>1. /\ SubSeq(text, i + Len(lf) + Len(lf), Len(text)) = rest
        /\ First(lines) = command
        /\ found = [name \in DOMAIN headers |-> headers[name]]
    BY Zenon DEF HeadingIsRead
  <2>2. text \in Text /\ BlankLines(text) # {}
    BY Zenon DEF HeadingIsRead
  <2>3. BlankLines(text) \in SUBSET Nat
    <3>1. DOMAIN text \subseteq Nat
      BY <2>2, TextFacts
    <3>2. QED
      BY <3>1 DEF BlankLines
  <2>4. i \in Nat
    BY <2>2, <2>3, MinExists DEF BodyAt
  <2>5. QED
    BY <2>1, <2>4
<1>6. SubSeq(text, i + 2, Len(text)) = rest
  <2>1. i + Len(lf) + Len(lf) = i + 2
    <3> HIDE DEF i
    <3>1. QED
      BY <1>1, <1>5
  <2>2. QED
    BY <1>5, <2>1, Zenon
<1> HIDE DEF i, lines, found
<1> DEFINE Fits(k) == IF Length \in DOMAIN found THEN found[Length] = <<Numeral(k)>>
                      ELSE rest[k + 1] = NUL /\ \A j \in 1..k : rest[j] # NUL
           length == CHOOSE k \in 0..Len(rest) : Fits(k)
<1>7. DOMAIN found = DOMAIN headers /\ \A name \in DOMAIN headers : found[name] = headers[name]
  BY <1>5, Zenon
<1>8. n \in 0..Len(rest) /\ Fits(n) /\ \A k \in 0..Len(rest) : Fits(k) => k = n
  <2>1. CASE /\ Length \in DOMAIN headers /\ headers[Length] = <<Numeral(Len(body))>>
             /\ \A k \in 0..(Len(body) + 1) : Numeral(k) = Numeral(Len(body)) => k = Len(body)
    <3>1. \A k : Fits(k) <=> <<Numeral(n)>> = <<Numeral(k)>>
      BY <1>3, <1>7, <2>1, Zenon
    <3>2. \A k : <<Numeral(n)>> = <<Numeral(k)>> => Numeral(n) = Numeral(k)
      OBVIOUS
    <3>3. n \in 0..Len(rest) /\ 0..Len(rest) = 0..(n + 1)
      BY <1>4
    <3> HIDE DEF Fits
    <3>4. \A k \in 0..(n + 1) : Fits(k) => k = n
      BY <1>3, <2>1, <3>1, <3>2, Zenon
    <3>5. QED
      BY <3>1, <3>3, <3>4, Zenon
  <2>2. CASE Length \notin DOMAIN headers /\ body = <<>>
    <3>1. n = 0
      BY <1>3, <2>2
    <3>2. \A k : Fits(k) <=> rest[k + 1] = NUL /\ \A j \in 1..k : rest[j] # NUL
      BY <1>7, <2>2, Zenon
    <3> HIDE DEF Fits
    <3>3. rest[1] = NUL /\ 0..Len(rest) = {0, 1} /\ 1..0 = {} /\ 1 \in 1..1 /\ 0 + 1 = 1
      BY <1>4, <3>1
    <3>4. Fits(0) /\ ~Fits(1)
      BY <3>2, <3>3
    <3>5. QED
      BY <3>1, <3>3, <3>4
  <2>3. QED
    <3>1. \/ /\ Length \in DOMAIN headers /\ headers[Length] = <<Numeral(Len(body))>>
             /\ \A k \in 0..(Len(body) + 1) : Numeral(k) = Numeral(Len(body)) => k = Len(body)
          \/ Length \notin DOMAIN headers /\ body = <<>>
      BY Zenon DEF Measured
    <3>2. QED
      BY <2>1, <2>2, <3>1, Zenon
<1>9. length = n
  <2> HIDE DEF Fits
  <2>1. QED
    BY <1>8, Zenon
<1>10. SubSeq(rest, 1, n) = body
  BY <1>3, <1>4, PrefixIs
<1>11. Reading(text) = Message(First(lines), found, SubSeq(rest, 1, length))
  BY <1>6, Zenon DEF Reading, i, lines, found, Length
<1>12. QED
  BY <1>5, <1>9, <1>10, <1>11, Zenon DEF ReadsAs

-----------------------------------------------------------------------------
(* What the bridge sends. *)

\* A message that can be sent with the length of its body.
Sendable(m) ==
  /\ m = Message(m.command, m.headers, m.body)
  /\ Writable(m.headers) /\ Length \notin DOMAIN m.headers
  /\ m.body \in Text
  /\ \A n \in 0..(Len(m.body) + 1) :
       Numeral(n) \in Word /\ (Numeral(n) = Numeral(Len(m.body)) => n = Len(m.body))

LEMMA MixedIn ==
  ASSUME NEW m, m = Message(m.command, m.headers, m.body), NEW headers
  PROVE  /\ mixin(m, headers) = Message(m.command, Over(headers, m.headers), m.body)
         /\ mixin(m, headers).headers = Over(headers, m.headers)
         /\ mixin(m, headers).command = m.command /\ mixin(m, headers).body = m.body
<1> DEFINE more == Over(headers, m.headers)
<1>1. mixin(m, headers) = [m EXCEPT !.headers = more]
  BY Zenon DEF mixin
<1> HIDE DEF more
<1>2. mixin(m, headers) = Message(m.command, more, m.body)
  BY <1>1 DEF Message
<1>3. /\ mixin(m, headers).headers = more
      /\ mixin(m, headers).command = m.command /\ mixin(m, headers).body = m.body
  BY <1>2 DEF Message
<1>4. QED
  BY <1>2, <1>3, Zenon DEF more

LEMMA SendableWith ==
  ASSUME NEW m, Sendable(m), NEW name, Free(name, {LF, CR, Colon, NUL}),
         name # <<"command">>, name # Length, NEW value, Free(value, {LF, CR, NUL})
  PROVE  /\ Sendable(mixin(m, Header(name, value)))
         /\ OneMore(name, value, m.headers, mixin(m, Header(name, value)).headers)
         /\ mixin(m, Header(name, value)).body = m.body
<1> DEFINE new == Header(name, value)
           more == Over(new, m.headers)
           mixed == mixin(m, new)
<1>1. mixed = Message(m.command, more, m.body) /\ mixed.headers = more
      /\ mixed.command = m.command /\ mixed.body = m.body
  BY MixedIn, Zenon DEF Sendable
<1>2. Writable(more)
  BY WritableOver, Zenon DEF Sendable
<1>3. OneMore(name, value, m.headers, more)
  BY HeaderOver, Zenon
<1> HIDE DEF mixed, more
<1>4. Length \notin DOMAIN more
  BY <1>3 DEF OneMore, Sendable
<1>5. Sendable(mixed)
  BY <1>1, <1>2, <1>4, Zenon DEF Sendable
<1>6. QED
  BY <1>1, <1>3, <1>5, Zenon DEF mixed

LEMMA Names ==
  /\ \A w \in {"id", "topic", "destination", "content-type"} :
       /\ Free(<<w>>, {LF, CR, Colon, NUL}) /\ Free(<<w>>, {LF, CR, NUL})
       /\ <<w>> # <<"command">> /\ <<w>> # Length
  /\ Free(<<"busId-n">>, {LF, CR, NUL})
  /\ Free(<<"SEND">>, {LF, CR}) /\ <<"SEND">> # <<>>
<1>1. ASSUME NEW w \in {"id", "topic", "destination", "content-type"}
      PROVE  /\ Free(<<w>>, {LF, CR, Colon, NUL}) /\ Free(<<w>>, {LF, CR, NUL})
             /\ <<w>> # <<"command">> /\ <<w>> # Length
  <2>1. w \in Word /\ w # "command" /\ w # "content-length"
    BY WordAssumption
  <2>2. <<w>> # <<"command">> /\ <<w>> # Length
    BY <2>1 DEF Length
  <2>3. QED
    BY <2>1, <2>2, WordIsFree
<1>2. "busId-n" \in Word /\ "SEND" \in Word
  BY WordAssumption
<1>3. Free(<<"busId-n">>, {LF, CR, NUL}) /\ Free(<<"SEND">>, {LF, CR})
  BY <1>2, WordIsFree
<1>4. <<"SEND">> # <<>>
  OBVIOUS
<1>5. QED
  BY <1>1, <1>3, <1>4, Zenon

\* An id and a topic are added to what is sent.
LEMMA SentIsSendable ==
  ASSUME NEW m, Sendable(m), NEW topic, Free(topic, {LF, CR, NUL})
  PROVE  /\ Sendable(Topicized(Identified(m), topic))
         /\ <<"topic">> \in DOMAIN Topicized(Identified(m), topic).headers
<1>1. Sendable(Identified(m))
  <2>1. CASE <<"id">> \in DOMAIN m.headers
    BY <2>1, Zenon DEF Identified
  <2>2. CASE <<"id">> \notin DOMAIN m.headers
    <3>1. Identified(m) = mixin(m, Header(<<"id">>, <<"busId-n">>))
      BY <2>2, Zenon DEF Identified
    <3>2. /\ Free(<<"id">>, {LF, CR, Colon, NUL}) /\ Free(<<"busId-n">>, {LF, CR, NUL})
          /\ <<"id">> # <<"command">> /\ <<"id">> # Length
      BY Names
    <3>3. Sendable(mixin(m, Header(<<"id">>, <<"busId-n">>)))
      BY <3>2, SendableWith, Zenon
    <3>4. QED
      BY <3>1, <3>3, Zenon
  <2>3. QED
    BY <2>1, <2>2
<1> DEFINE i == Identified(m)
<1> HIDE DEF i
<1>2. /\ Free(<<"topic">>, {LF, CR, Colon, NUL})
      /\ <<"topic">> # <<"command">> /\ <<"topic">> # Length
  BY Names
<1>3. Sendable(i)
  BY <1>1 DEF i
<1>4. /\ Sendable(mixin(i, Header(<<"topic">>, topic)))
      /\ OneMore(<<"topic">>, topic, i.headers, mixin(i, Header(<<"topic">>, topic)).headers)
  BY <1>2, <1>3, SendableWith, Zenon
<1>5. QED
  BY <1>4 DEF Topicized, OneMore, i

\* The headers of a SEND frame, and the frame as a message that build writes.
Replaced == {<<"topic">>, <<"contentType">>, <<"content-type">>}
Typed(given) ==
  IF <<"contentType">> \in DOMAIN given /\ given[<<"contentType">>] # <<>>
    THEN Header(<<"content-type">>, given[<<"contentType">>]) ELSE <<>>
Destined(given) ==
  Over(Header(<<"destination">>, given[<<"topic">>]), Over(Typed(given), Without(given, Replaced)))

LEMMA FrameIs ==
  ASSUME NEW m, m = Message(m.command, m.headers, m.body)
  PROVE  buildSendFrame(m) = build(Message(<<"SEND">>, Destined(m.headers), m.body))
<1> DEFINE given == m.headers
           kept == [m EXCEPT !.command = <<"SEND">>, !.headers = Without(@, Replaced)]
           typed == Typed(given)
           to == Header(<<"destination">>, given[<<"topic">>])
           base == Without(given, Replaced)
<1>1. buildSendFrame(m) = build(mixin(mixin(kept, typed), to))
  BY Zenon DEF buildSendFrame, Replaced, Typed
<1>2. kept = Message(<<"SEND">>, base, m.body)
  <2> HIDE DEF base
  <2>1. kept = [m EXCEPT !.command = <<"SEND">>, !.headers = base]
    BY Zenon DEF base
  <2> HIDE DEF kept
  <2>2. QED
    BY <2>1 DEF Message
<1> HIDE DEF kept, base, typed, to
<1>3. /\ kept = Message(kept.command, kept.headers, kept.body)
      /\ kept.command = <<"SEND">> /\ kept.headers = base /\ kept.body = m.body
  BY <1>2 DEF Message
<1> DEFINE k2 == mixin(kept, typed)
<1>4. /\ k2 = Message(<<"SEND">>, Over(typed, base), m.body)
      /\ k2.command = <<"SEND">> /\ k2.headers = Over(typed, base) /\ k2.body = m.body
  BY <1>3, MixedIn, Zenon
<1> HIDE DEF k2
<1>5. k2 = Message(k2.command, k2.headers, k2.body)
  BY <1>4, Zenon
<1>6. mixin(k2, to) = Message(<<"SEND">>, Over(to, Over(typed, base)), m.body)
  <2>1. mixin(k2, to) = Message(k2.command, Over(to, k2.headers), k2.body)
    BY <1>5, MixedIn, Zenon
  <2>2. QED
    BY <1>4, <2>1, Zenon
<1>7. QED
  BY <1>1, <1>6, Zenon DEF k2, Destined, typed, base, to

\* What each header becomes.
LEMMA DestinedIs ==
  ASSUME NEW given
  PROVE  /\ DOMAIN Destined(given)
              = (DOMAIN given \ Replaced) \cup DOMAIN Typed(given) \cup {<<"destination">>}
         /\ Destined(given)[<<"destination">>] = given[<<"topic">>]
         /\ <<"content-type">> \in DOMAIN Typed(given) =>
              Destined(given)[<<"content-type">>] = given[<<"contentType">>]
         /\ \A n \in DOMAIN given \ Replaced :
              n # <<"destination">> => Destined(given)[n] = given[n]
         /\ DOMAIN Typed(given)
              = IF <<"contentType">> \in DOMAIN given /\ given[<<"contentType">>] # <<>>
                  THEN {<<"content-type">>} ELSE {}
<1> DEFINE typed == Typed(given)
           base == Without(given, Replaced)
           more == Over(typed, base)
           to == <<"destination">>
<1>1. DOMAIN base = DOMAIN given \ Replaced /\ \A n \in DOMAIN given \ Replaced : base[n] = given[n]
  BY DEF Without, Restrict
<1>2. /\ DOMAIN typed = IF <<"contentType">> \in DOMAIN given /\ given[<<"contentType">>] # <<>>
                  THEN {<<"content-type">>} ELSE {}
      /\ \A n \in DOMAIN typed : typed[n] = given[<<"contentType">>] /\ n = <<"content-type">>
  BY DEF Typed, Header
<1>3. /\ DOMAIN more = DOMAIN typed \cup (DOMAIN given \ Replaced)
      /\ \A n \in DOMAIN typed : more[n] = given[<<"contentType">>]
      /\ \A n \in DOMAIN given \ Replaced : n \notin DOMAIN typed => more[n] = given[n]
  <2> HIDE DEF typed, base
  <2>1. QED
    BY <1>1, <1>2 DEF Over
<1>4. OneMore(to, given[<<"topic">>], more, Destined(given))
  BY HeaderOver, Zenon DEF Destined
<1>5. to # <<"content-type">> /\ <<"content-type">> \in Replaced
  <2>1. "destination" # "content-type"
    OBVIOUS
  <2>2. QED
    BY <2>1 DEF Replaced
<1> HIDE DEF more, typed, to
<1>6. \A n \in DOMAIN more \ {to} : Destined(given)[n] = more[n]
  BY <1>4, Zenon DEF OneMore
<1>7. DOMAIN Destined(given) = (DOMAIN given \ Replaced) \cup DOMAIN typed \cup {to}
  BY <1>3, <1>4 DEF OneMore
<1>8. Destined(given)[to] = given[<<"topic">>]
  BY <1>4, Zenon DEF OneMore
<1>9. <<"content-type">> \in DOMAIN typed => Destined(given)[<<"content-type">>] = given[<<"contentType">>]
  BY <1>3, <1>5, <1>6
<1>10. \A n \in DOMAIN given \ Replaced : n # to => Destined(given)[n] = given[n]
  BY <1>2, <1>3, <1>5, <1>6
<1>11. QED
  BY <1>2, <1>7, <1>8, <1>9, <1>10, Zenon DEF typed, to

LEMMA DestinedIsWritable ==
  ASSUME NEW given, Writable(given), Length \notin DOMAIN given, <<"topic">> \in DOMAIN given
  PROVE  Writable(Destined(given)) /\ Length \notin DOMAIN Destined(given)
<1> DEFINE base == Without(given, Replaced)
           more == Over(Typed(given), base)
<1>1. /\ IsFiniteSet(DOMAIN given) /\ <<"command">> \notin DOMAIN given
      /\ \A n \in DOMAIN given :
           Free(n, {LF, CR, Colon, NUL}) /\ Free(given[n], {LF, CR, NUL})
  BY Zenon DEF Writable
<1>2. DOMAIN base = DOMAIN given \ Replaced /\ \A n \in DOMAIN given \ Replaced : base[n] = given[n]
  BY DEF Without, Restrict
<1> HIDE DEF base
<1>3. Writable(base)
  <2>1. IsFiniteSet(DOMAIN base)
    BY <1>1, <1>2, FS_Subset
  <2>2. <<"command">> \notin DOMAIN base
    BY <1>1, <1>2
  <2>3. \A n \in DOMAIN base : Free(n, {LF, CR, Colon, NUL}) /\ Free(base[n], {LF, CR, NUL})
    BY <1>1, <1>2, Zenon
  <2>4. QED
    BY <2>1, <2>2, <2>3, Zenon DEF Writable
<1>4. Writable(more)
  <2>1. CASE <<"contentType">> \in DOMAIN given /\ given[<<"contentType">>] # <<>>
    <3> DEFINE type == given[<<"contentType">>]
    <3>1. more = Over(Header(<<"content-type">>, type), base)
      BY <2>1, Zenon DEF Typed
    <3>2. Free(type, {LF, CR, NUL})
      BY <1>1, <2>1
    <3>3. Free(<<"content-type">>, {LF, CR, Colon, NUL}) /\ <<"content-type">> # <<"command">>
      BY Names
    <3>4. Writable(Over(Header(<<"content-type">>, type), base))
      BY <1>3, <3>2, <3>3, WritableOver, Zenon
    <3>5. QED
      BY <3>1, <3>4, Zenon
  <2>2. CASE ~(<<"contentType">> \in DOMAIN given /\ given[<<"contentType">>] # <<>>)
    <3>1. Typed(given) = <<>>
      BY <2>2, Zenon DEF Typed
    <3>2. DOMAIN more = DOMAIN base /\ \A n \in DOMAIN base : more[n] = base[n]
      BY <3>1 DEF Over
    <3> HIDE DEF more
    <3>3. QED
      BY <1>3, <3>2, Zenon DEF Writable
  <2>3. QED
    BY <2>1, <2>2, Zenon
<1> HIDE DEF more
<1>5. Writable(Destined(given))
  <2> DEFINE topic == given[<<"topic">>]
  <2>1. Free(topic, {LF, CR, NUL})
    BY <1>1
  <2>2. Free(<<"destination">>, {LF, CR, Colon, NUL}) /\ <<"destination">> # <<"command">>
    BY Names
  <2>3. Writable(Over(Header(<<"destination">>, topic), more))
    BY <1>4, <2>1, <2>2, WritableOver, Zenon
  <2>4. QED
    BY <2>3, Zenon DEF Destined, more, base
<1>6. Length \notin DOMAIN Destined(given)
  <2>1. Length # <<"destination">> /\ Length \notin DOMAIN Typed(given)
    <3>1. Length # <<"destination">> /\ Length # <<"content-type">>
      BY LengthIs
    <3>2. DOMAIN Typed(given) \subseteq {<<"content-type">>}
      BY DEF Typed, Header
    <3>3. QED
      BY <3>1, <3>2
  <2>2. DOMAIN Destined(given)
          = (DOMAIN given \ Replaced) \cup DOMAIN Typed(given) \cup {<<"destination">>}
    BY DestinedIs, Zenon
  <2>3. QED
    BY <2>1, <2>2, Zenon
<1>7. QED
  BY <1>5, <1>6

\* A SEND tells the server the message under the names of STOMP.
LEMMA AllIsTold ==
  ASSUME NEW m, <<"topic">> \in DOMAIN m.headers
  PROVE  Pairs(Destined(m.headers), {}) = Renamed(m)
<1> DEFINE given == m.headers
           told == Destined(given)
           topic == <<"topic">>
           type == <<"contentType">>
           stompType == <<"content-type">>
           to == <<"destination">>
           stomp(n) == CASE n = topic -> to [] n = type -> stompType [] OTHER -> n
           untold(n) == \/ n \in {stompType, to}
                        \/ n = type /\ given[n] = <<>>
           heard == {n \in DOMAIN given : ~untold(n)}
<1>1. Renamed(m) = {<<stomp(n), given[n]>> : n \in heard}
  BY Zenon DEF Renamed
<1>2. Pairs(told, {}) = {<<n, told[n]>> : n \in DOMAIN told}
  BY DEF Pairs
<1>3. /\ DOMAIN told = (DOMAIN given \ Replaced) \cup DOMAIN Typed(given) \cup {to}
      /\ told[to] = given[topic]
      /\ stompType \in DOMAIN Typed(given) => told[stompType] = given[type]
      /\ \A n \in DOMAIN given \ Replaced : n # to => told[n] = given[n]
      /\ DOMAIN Typed(given)
           = IF type \in DOMAIN given /\ given[type] # <<>> THEN {stompType} ELSE {}
  BY DestinedIs, Zenon
<1>4. /\ topic # type /\ topic # stompType /\ topic # to /\ type # stompType /\ type # to
      /\ stompType # to /\ Replaced = {topic, type, stompType}
  BY DEF Replaced
<1>5. topic \in DOMAIN given
  OBVIOUS
<1> HIDE DEF given, told, topic, type, stompType, to
<1>6. ASSUME NEW n \in DOMAIN told PROVE \E k \in heard : stomp(k) = n /\ given[k] = told[n]
  <2>1. CASE n = to
    <3>1. topic \in heard /\ stomp(topic) = n
      BY <1>4, <1>5, <2>1
    <3>2. QED
      BY <1>3, <2>1, <3>1
  <2>2. CASE n \in DOMAIN Typed(given)
    <3>1. type \in DOMAIN given /\ given[type] # <<>> /\ n = stompType
      BY <1>3, <2>2
    <3>2. type \in heard /\ stomp(type) = n
      BY <1>4, <3>1
    <3>3. QED
      BY <1>3, <2>2, <3>1, <3>2
  <2>3. CASE n \in DOMAIN given \ Replaced /\ n # to
    <3>1. n \in heard /\ stomp(n) = n
      BY <1>4, <2>3
    <3>2. QED
      BY <1>3, <2>3, <3>1
  <2>4. QED
    BY <1>3, <2>1, <2>2, <2>3
<1>7. ASSUME NEW k \in heard PROVE stomp(k) \in DOMAIN told /\ told[stomp(k)] = given[k]
  <2>1. CASE k = topic
    <3>1. stomp(k) = to
      BY <1>4, <2>1
    <3>2. QED
      BY <1>3, <2>1, <3>1
  <2>2. CASE k = type
    <3>1. stomp(k) = stompType /\ type \in DOMAIN given /\ given[type] # <<>>
      BY <1>4, <2>2
    <3>2. stompType \in DOMAIN Typed(given)
      BY <1>3, <3>1
    <3>3. QED
      BY <1>3, <2>2, <3>1, <3>2
  <2>3. CASE k # topic /\ k # type
    <3>1. stomp(k) = k
      BY <2>3
    <3>2. k \in DOMAIN given /\ k # stompType /\ k # to
      BY Zenon
    <3>3. k \in DOMAIN given \ Replaced
      BY <1>4, <2>3, <3>2
    <3>4. QED
      BY <1>3, <3>1, <3>2, <3>3
  <2>4. QED
    BY <2>1, <2>2, <2>3
<1> HIDE DEF stomp, heard
<1>8. {<<n, told[n]>> : n \in DOMAIN told} \subseteq {<<stomp(n), given[n]>> : n \in heard}
  BY <1>6
<1>9. {<<stomp(n), given[n]>> : n \in heard} \subseteq {<<n, told[n]>> : n \in DOMAIN told}
  BY <1>7
<1>10. QED
  BY <1>1, <1>2, <1>8, <1>9, Zenon DEF told, given

\* What the server makes of it.
Told(got, m) ==
  /\ got.body = m.body /\ got.command = <<"SEND">>
  /\ Pairs(got.headers, {Length}) = Renamed(m)

\* What the bridge writes for a message the server reads as that message, under the names
\* of STOMP, though its body may hold blank lines and NUL: the length that build adds
\* is its length (translators/stomp.js:44-71,144-156).
THEOREM FrameIsRead ==
  ASSUME NEW m, Sendable(m), <<"topic">> \in DOMAIN m.headers
  PROVE  Told(Reading(buildSendFrame(m)), m)
<1> DEFINE headers == Destined(m.headers)
           frame == Message(<<"SEND">>, headers, m.body)
           all == Sized(frame)
           text == build(frame)
           body == m.body
<1>1. buildSendFrame(m) = text
  BY FrameIs, Zenon DEF Sendable
<1>2. frame.command = <<"SEND">> /\ frame.headers = headers /\ frame.body = body
  BY DEF Message
<1>3. Writable(headers) /\ Length \notin DOMAIN headers
  BY DestinedIsWritable, Zenon DEF Sendable
<1>4. body \in Text
      /\ \A n \in 0..(Len(body) + 1) :
           Numeral(n) \in Word /\ (Numeral(n) = Numeral(Len(body)) => n = Len(body))
  BY Zenon DEF Sendable
<1>5. Pairs(headers, {}) = Renamed(m)
  BY AllIsTold, Zenon
<1> HIDE DEF frame, headers, text, body
<1>6. Numeral(Len(body)) \in Word
  <2>1. PICK n \in Nat : n = Len(body)
    BY <1>4, TextFacts
  <2>2. n \in 0..(n + 1)
    OBVIOUS
  <2>3. QED
    BY <1>4, <2>1, <2>2, Zenon
<1>7. PICK s : Heading(s, frame.command, HeaderLines(all))
               /\ text = s \o <<LF>> \o <<LF>> \o (frame.body \o <<NUL>>)
  <2>1. Free(frame.command, {LF, CR}) /\ frame.command # <<>>
    BY <1>2, Names
  <2>2. Writable(frame.headers) /\ frame.body \in Text /\ Numeral(Len(frame.body)) \in Word
    BY <1>2, <1>3, <1>4, <1>6, Zenon
  <2>3. QED
    BY <2>1, <2>2, Built, Zenon DEF text
<1>8. Writable(all)
  BY <1>2, <1>3, <1>6, SizedIs, Zenon
<1>9. /\ Measured(all, body)
      /\ Pairs(all, {Length}) = Pairs(headers, {})
  <2>1. CASE body = <<>>
    <3>1. all = headers
      BY <1>2, <2>1, Zenon DEF Sized
    <3> HIDE DEF all
    <3>2. DOMAIN headers \ {Length} = DOMAIN headers \ {}
      BY <1>3
    <3>3. QED
      BY <1>3, <2>1, <3>1, <3>2, Zenon DEF Pairs, Measured
  <2>2. CASE body # <<>>
    <3> DEFINE number == <<Numeral(Len(body))>>
    <3>1. all = Over(Header(Length, number), headers)
      BY <1>2, <1>3, <2>2, Zenon DEF Sized
    <3> HIDE DEF all
    <3>2. OneMore(Length, number, headers, all)
      BY <3>1, HeaderOver, Zenon
    <3>3. /\ DOMAIN all = DOMAIN headers \cup {Length} /\ all[Length] = number
          /\ \A n \in DOMAIN headers \ {Length} : all[n] = headers[n]
      BY <3>2, Zenon DEF OneMore
    <3> HIDE DEF number
    <3>4. Pairs(all, {Length}) = Pairs(headers, {})
      BY <1>3, <3>3 DEF Pairs
    <3>5. Length \in DOMAIN all
      BY <3>3
    <3>6. QED
      BY <1>4, <3>3, <3>4, <3>5, Zenon DEF number, Measured
  <2>3. QED
    BY <2>1, <2>2
<1> HIDE DEF all
<1>10. Reading(text) = Message(frame.command, [n \in DOMAIN all |-> all[n]], body)
  <2>1. text = s \o <<LF>> \o <<LF>> \o (body \o <<NUL>>)
    BY <1>2, <1>7, Zenon
  <2>2. body \in Text /\ Heading(s, frame.command, HeaderLines(all)) /\ Writable(all) /\ Measured(all, body)
    BY <1>4, <1>7, <1>8, <1>9, Zenon
  <2>3. ReadsAs(text, frame.command, all, body)
    BY <2>1, <2>2, ReadBack
  <2>4. QED
    BY <2>3, Zenon DEF ReadsAs
<1> DEFINE got == Reading(text)
           found == [n \in DOMAIN all |-> all[n]]
<1>11. got.body = body /\ got.command = <<"SEND">> /\ got.headers = found
  <2> HIDE DEF found
  <2>1. got = Message(<<"SEND">>, found, body)
    BY <1>2, <1>10, Zenon DEF found
  <2> HIDE DEF got
  <2>2. QED
    BY <2>1 DEF Message
<1>12. Pairs(found, {Length}) = Pairs(all, {Length})
  BY DEF Pairs
<1>13. QED
  BY <1>1, <1>5, <1>9, <1>11, <1>12, Zenon DEF Told, body

-----------------------------------------------------------------------------
(* What the bridge receives. *)

Deliverable(m) ==
  /\ m = Message(m.command, m.headers, m.body)
  /\ m.command # <<>> /\ Free(m.command, {LF, CR, NUL})
  /\ Writable(m.headers) /\ Free(m.body, {NUL})

\* What a message of the server is for the application: it may have got an id.
Heard(got, m) ==
  /\ got.body = m.body /\ got.command = m.command
  /\ Pairs(got.headers, {<<"id">>}) = Pairs(m.headers, {<<"id">>})

LEMMA IdentifiedIsHeard ==
  ASSUME NEW command, NEW headers, NEW body, NEW m, m = Message(command, headers, body)
  PROVE  Heard(Identified(m), m)
<1>1. m.command = command /\ m.headers = headers /\ m.body = body
  BY DEF Message
<1>2. CASE <<"id">> \in DOMAIN m.headers
  BY <1>1, <1>2, Zenon DEF Identified, Heard
<1>3. CASE <<"id">> \notin DOMAIN m.headers
  <2> DEFINE id == <<"id">>
             value == <<"busId-n">>
             mixed == mixin(m, Header(id, value))
             more == Over(Header(id, value), headers)
  <2>1. Identified(m) = mixed
    BY <1>3, Zenon DEF Identified
  <2>2. mixed.headers = more /\ mixed.command = command /\ mixed.body = body
    <3>1. m = Message(m.command, m.headers, m.body)
      BY <1>1, Zenon
    <3>2. /\ mixed.headers = Over(Header(id, value), m.headers)
          /\ mixed.command = m.command /\ mixed.body = m.body
      BY <3>1, MixedIn, Zenon
    <3> HIDE DEF mixed
    <3>3. QED
      BY <1>1, <3>2, Zenon
  <2>3. OneMore(id, value, headers, more)
    BY HeaderOver, Zenon
  <2> HIDE DEF id, value, mixed, more
  <2>4. Pairs(more, {id}) = Pairs(headers, {id})
    BY <2>3 DEF Pairs, OneMore
  <2>5. QED
    BY <1>1, <2>1, <2>2, <2>4, Zenon DEF id, Heard
<1>4. QED
  BY <1>2, <1>3

\* What a server writes the bridge parses as the message, with either line end, colons
\* in values and blank lines in the body, whatever follows the frame in the chunk
\* (translators/stomp.js:80-98).
THEOREM FrameIsParsed ==
  ASSUME NEW m, Deliverable(m), NEW text \in Writings(m), NEW more \in Text
  PROVE  text \in Text /\ text \o more \in Text /\ Heard(parse(text \o more), m)
<1> DEFINE headers == m.headers
           body == m.body
           nul == <<NUL>>
<1>1. Writable(headers) /\ m.command # <<>> /\ Free(m.command, {LF, CR, NUL}) /\ Free(body, {NUL})
  BY Zenon DEF Deliverable
<1>2. Free(m.command, {LF, CR}) /\ body \in Text /\ nul \in Text
  BY <1>1, FreeOfFewer, FreeFacts, WordText, TokenFacts
<1>3. PICK s : \E eol \in Eol, tail \in Text :
        /\ Heading(s, m.command, HeaderLines(headers))
        /\ text = s \o eol \o eol \o (body \o nul \o tail)
  BY <1>1, <1>2, Written, Zenon
<1>4. PICK eol \in Eol, tail \in Text :
        /\ Heading(s, m.command, HeaderLines(headers))
        /\ text = s \o eol \o eol \o (body \o nul \o tail)
  BY <1>3, Zenon
<1> HIDE DEF nul, body, headers
<1> DEFINE t == s \o eol \o eol
           u == body \o nul
           v == u \o tail
<1>5. t \in Text /\ u \in Text /\ v \in Text /\ s \in Text /\ eol \in Text
  <2>1. s \in Text /\ eol \in Text
    BY <1>4, EolText DEF Heading
  <2>2. s \o eol \in Text
    BY <2>1, TextFacts
  <2>3. t \in Text
    BY <2>1, <2>2, TextFacts
  <2>4. u \in Text
    BY <1>2, TextFacts
  <2>5. v \in Text
    BY <2>4, TextFacts
  <2>6. QED
    BY <2>1, <2>3, <2>4, <2>5
<1>6. text = t \o v
  BY <1>4, Zenon
<1> HIDE DEF t, u, v
<1>7. text \in Text /\ text \o more \in Text
  <2>1. text \in Text
    BY <1>5, <1>6, TextFacts
  <2>2. QED
    BY <2>1, TextFacts
<1>8. text \o more = t \o (u \o (tail \o more)) /\ tail \o more \in Text
  <2>1. (t \o v) \o more = t \o (v \o more)
    BY <1>5, Joins
  <2>2. (u \o tail) \o more = u \o (tail \o more)
    BY <1>5, Joins
  <2>3. tail \o more \in Text
    BY TextFacts
  <2>4. QED
    BY <1>6, <2>1, <2>2, <2>3, Zenon DEF v
<1> DEFINE after == tail \o more
           whole == text \o more
           all == [n \in DOMAIN headers |-> headers[n]]
           kept == Without(all, {<<"command">>})
<1>9. whole = s \o eol \o eol \o (body \o <<NUL>> \o after)
  BY <1>8, Zenon DEF t, u, nul
<1>10. after \in Text
  BY <1>8
<1> HIDE DEF after, whole
<1>11. parse(whole) = Identified(Message(m.command, kept, body))
  <2>1. /\ Heading(s, m.command, HeaderLines(headers)) /\ Writable(headers)
        /\ eol \in Eol /\ Free(body, {NUL})
    BY <1>1, <1>4, Zenon DEF headers, body
  <2>2. ParsesAs(whole, m.command, headers, body)
    BY <1>9, <1>10, <2>1, Parsed
  <2>3. QED
    BY <2>2, Zenon DEF ParsesAs
<1>12. Pairs(kept, {<<"id">>}) = Pairs(headers, {<<"id">>})
  <2>1. <<"command">> \notin DOMAIN headers
    BY <1>1 DEF Writable
  <2>2. DOMAIN kept = DOMAIN headers /\ \A n \in DOMAIN headers : kept[n] = headers[n]
    BY <2>1 DEF Without, Restrict
  <2> HIDE DEF kept
  <2>3. QED
    BY <2>2 DEF Pairs
<1> HIDE DEF kept
<1> DEFINE found == Message(m.command, kept, body)
           got == Identified(found)
<1>13. found.command = m.command /\ found.headers = kept /\ found.body = body
  BY DEF Message
<1>14. Heard(got, m)
  <2>1. Heard(got, found)
    BY IdentifiedIsHeard, Zenon
  <2> HIDE DEF found, got
  <2>2. QED
    BY <1>12, <1>13, <2>1, Zenon DEF Heard, headers, body
<1>15. QED
  BY <1>7, <1>11, <1>14, Zenon DEF whole

\* A frame is a text.
LEMMA FrameIsText ==
  ASSUME NEW m, Sendable(m), <<"topic">> \in DOMAIN m.headers
  PROVE  buildSendFrame(m) \in Text
<1> DEFINE headers == Destined(m.headers)
           frame == Message(<<"SEND">>, headers, m.body)
           text == build(frame)
           body == m.body
<1>1. buildSendFrame(m) = text
  BY FrameIs, Zenon DEF Sendable
<1>2. frame.command = <<"SEND">> /\ frame.headers = headers /\ frame.body = body
  BY DEF Message
<1>3. Writable(headers) /\ Length \notin DOMAIN headers
  BY DestinedIsWritable, Zenon DEF Sendable
<1>4. body \in Text /\ \A n \in 0..(Len(body) + 1) : Numeral(n) \in Word
  BY Zenon DEF Sendable
<1> HIDE DEF frame, headers, text, body
<1>5. Numeral(Len(body)) \in Word
  <2>1. PICK n \in Nat : n = Len(body)
    BY <1>4, TextFacts
  <2>2. n \in 0..(n + 1)
    OBVIOUS
  <2>3. QED
    BY <1>4, <2>1, <2>2, Zenon
<1>6. PICK s : Heading(s, frame.command, HeaderLines(Sized(frame)))
               /\ text = s \o <<LF>> \o <<LF>> \o (frame.body \o <<NUL>>)
  <2>1. Free(frame.command, {LF, CR}) /\ frame.command # <<>>
    BY <1>2, Names
  <2>2. Writable(frame.headers) /\ frame.body \in Text /\ Numeral(Len(frame.body)) \in Word
    BY <1>2, <1>3, <1>4, <1>5, Zenon
  <2>3. QED
    BY <2>1, <2>2, Built, Zenon DEF text
<1> DEFINE lf == <<LF>>
           nul == <<NUL>>
<1>7. s \in Text /\ lf \in Text /\ nul \in Text
  BY <1>6, WordText, TokenFacts DEF Heading
<1>8. text = s \o lf \o lf \o (body \o nul)
  BY <1>2, <1>6, Zenon
<1> HIDE DEF lf, nul
<1>9. s \o lf \in Text /\ body \o nul \in Text
  BY <1>4, <1>7, TextFacts
<1>10. s \o lf \o lf \in Text
  BY <1>7, <1>9, TextFacts
<1>11. s \o lf \o lf \o (body \o nul) \in Text
  BY <1>9, <1>10, TextFacts
<1>12. QED
  BY <1>1, <1>8, <1>11, Zenon

-----------------------------------------------------------------------------
(* The protocol. *)

Sent == Delivers \cup {Topicized(Identified(m), topic) : m \in Sends, topic \in Topic}
Chunk == [text : Text, holds : Seq(Nat)]
Made == {parse(text) : text \in Text} \cup {Reading(text) : text \in Text}
Result == [of : Nat, got : Made]

TypeOK ==
  /\ way \in {"toServer", "fromServer"}
  /\ sent \in Seq(Sent) /\ link \in Seq(Chunk) /\ read \in Seq(Result)
  /\ lost \in SUBSET Nat

\* What may be sent, the text of a chunk that begins with it, and what is made of it.
Fit(m) ==
  IF way = "toServer" THEN Sendable(m) /\ <<"topic">> \in DOMAIN m.headers
  ELSE Deliverable(m)

Carries(text, m) ==
  IF way = "toServer" THEN text = buildSendFrame(m)
  ELSE \E writing \in Writings(m), more \in Text : text = writing \o more

SameAs(got, m) == IF way = "toServer" THEN Told(got, m) ELSE Heard(got, m)

\* The numbers of what was read.
Of(results) == {results[k].of : k \in 1..Len(results)}

\* The first chunk holds the numbers from first to last, the others one each.
Numbered(first, last) ==
  /\ first \in Nat \ {0} /\ last \in Nat /\ first <= last
  /\ last + Len(link) = Len(sent) + 1
  /\ link = <<>> => first = last
  /\ link # <<>> => /\ link[1].holds # <<>> /\ link[1].holds[1] = first
                    /\ Range(link[1].holds) = first..last
  /\ \A k \in 2..Len(link) : link[k].holds = <<last + k - 1>>
  /\ Of(read) \cup lost = (1..last) \ {first}

AllFit == \A i \in 1..Len(sent) : Fit(sent[i])
AllCarry == \A k \in 1..Len(link) : Carries(link[k].text, sent[link[k].holds[1]])
AllSame ==
  \A k \in 1..Len(read) :
    read[k].of \in 1..Len(sent) /\ SameAs(read[k].got, sent[read[k].of])

Inv ==
  /\ TypeOK
  /\ \E first, last \in Nat : Numbered(first, last)
  /\ AllFit /\ AllCarry /\ AllSame

LEMMA SameIs ==
  ASSUME NEW r PROVE Same(r) <=> SameAs(r.got, sent[r.of])
  BY DEF Same, SameAs, Told, Heard, Length

LEMMA OutIs ==
  ASSUME TypeOK, AllSame
  PROVE  [k \in DOMAIN read |-> IF Same(read[k]) THEN read[k].of ELSE 0]
           = [k \in 1..Len(read) |-> read[k].of]
<1>1. DOMAIN read = 1..Len(read)
  BY DEF TypeOK
<1>2. \A k \in 1..Len(read) : Same(read[k])
  BY SameIs, Zenon DEF AllSame
<1>3. QED
  BY <1>1, <1>2, Zenon

LEMMA OutIsNext ==
  ASSUME TypeOK', AllSame'
  PROVE  [k \in DOMAIN read |-> IF Same(read[k]) THEN read[k].of ELSE 0]'
           = [k \in 1..Len(read) |-> read[k].of]'
<1>1. DOMAIN read' = 1..Len(read')
  BY DEF TypeOK
<1>2. \A k \in 1..Len(read') : Same(read[k])'
  <2>1. \A k \in 1..Len(read') : SameAs(read[k].got, sent[read[k].of])'
    BY Zenon DEF AllSame
  <2>2. QED
    BY <2>1 DEF Same, SameAs, Told, Heard, Length
<1>3. QED
  BY <1>1, <1>2, Zenon

\* The numbers at the heads of chunks are those of messages.
LEMMA HeadNumbers ==
  ASSUME TypeOK, NEW first, NEW last, Numbered(first, last), NEW k \in 1..Len(link)
  PROVE  /\ link[k].holds # <<>> /\ link[k].holds[1] \in 1..Len(sent)
         /\ first \in 1..Len(sent) /\ last \in 1..Len(sent)
<1>1. PICK N \in Nat, K \in Nat : N = Len(sent) /\ K = Len(link)
  BY DEF TypeOK
<1>2. K >= 1 /\ k \in 1..K /\ first \in Nat \ {0} /\ last \in Nat /\ first <= last /\ last + K = N + 1
  BY <1>1 DEF Numbered
<1>3. link # <<>>
  BY <1>1, <1>2
<1>4. first \in 1..N /\ last \in 1..N
  BY <1>2
<1>5. CASE k = 1
  BY <1>1, <1>3, <1>4, <1>5, Zenon DEF Numbered
<1>6. CASE k # 1
  <2>1. k \in 2..K /\ last + k - 1 \in 1..N
    BY <1>2, <1>6
  <2>2. link[k].holds = <<last + k - 1>>
    BY <1>1, <2>1, Zenon DEF Numbered
  <2>3. QED
    BY <1>1, <1>4, <2>1, <2>2
<1>7. QED
  BY <1>5, <1>6

-----------------------------------------------------------------------------
(* Steps. *)

\* Putting in is Put of FifoLink.
LEMMA Puts ==
  ASSUME Inv, NEW m \in Sent, NEW text \in Text, Fit(m), Carries(text, m), Put(m, text)
  PROVE  Inv' /\ Link!Put
<1> DEFINE chunk == [text |-> text, holds |-> <<Len(sent) + 1>>]
<1>1. TypeOK /\ AllFit /\ AllCarry /\ AllSame
  BY DEF Inv
<1>2. sent' = Append(sent, m) /\ link' = Append(link, chunk) /\ UNCHANGED <<way, read, lost>>
  BY DEF Put
<1>3. PICK N \in Nat, K \in Nat : N = Len(sent) /\ K = Len(link)
  BY <1>1 DEF TypeOK
<1>4. chunk.holds = <<N + 1>> /\ chunk.text = text /\ chunk \in Chunk
  BY <1>3 DEF Chunk
<1> HIDE DEF chunk
<1>5. /\ sent' \in Seq(Sent) /\ Len(sent') = N + 1 /\ sent'[N + 1] = m
      /\ \A i \in 1..N : sent'[i] = sent[i]
  BY <1>1, <1>2, <1>3, AppendProperties DEF TypeOK
<1>6. /\ link' \in Seq(Chunk) /\ Len(link') = K + 1 /\ link'[K + 1] = chunk /\ link' # <<>>
      /\ \A k \in 1..K : link'[k] = link[k]
  BY <1>1, <1>2, <1>3, <1>4, AppendProperties DEF TypeOK
<1>7. TypeOK'
  BY <1>1, <1>2, <1>5, <1>6 DEF TypeOK
<1>8. PICK first \in Nat, last \in Nat : Numbered(first, last)
  BY DEF Inv
<1>9. \A k \in 1..K : link[k].holds[1] \in 1..N
  BY <1>1, <1>3, <1>8, HeadNumbers
<1>10. AllFit'
  <2>1. \A c : Fit(c)' <=> Fit(c)
    BY <1>2 DEF Fit
  <2>2. ASSUME NEW i \in 1..(N + 1) PROVE Fit(sent'[i])
    <3>1. CASE i = N + 1
      BY <1>5, <3>1
    <3>2. CASE i # N + 1
      <4>1. i \in 1..N
        BY <3>2
      <4>2. QED
        BY <1>1, <1>3, <1>5, <4>1, Zenon DEF AllFit
    <3>3. QED
      BY <3>1, <3>2
  <2>3. QED
    BY <1>2, <1>5, <2>2 DEF AllFit, Fit
<1>11. AllCarry'
  <2>1. ASSUME NEW k \in 1..(K + 1) PROVE Carries(link'[k].text, sent'[link'[k].holds[1]])
    <3>1. CASE k = K + 1
      <4>1. link'[k].text = text /\ link'[k].holds[1] = N + 1
        BY <1>4, <1>6, <3>1
      <4>2. QED
        BY <1>5, <4>1
    <3>2. CASE k # K + 1
      <4>1. k \in 1..K
        BY <3>2
      <4>2. link'[k] = link[k] /\ sent'[link[k].holds[1]] = sent[link[k].holds[1]]
        BY <1>5, <1>6, <1>9, <4>1
      <4>3. QED
        BY <1>1, <1>3, <4>1, <4>2, Zenon DEF AllCarry
    <3>3. QED
      BY <3>1, <3>2
  <2>2. QED
    BY <1>2, <1>6, <2>1 DEF AllCarry, Carries
<1>12. AllSame'
  <2>1. ASSUME NEW k \in 1..Len(read)
        PROVE  read[k].of \in 1..(N + 1) /\ SameAs(read[k].got, sent'[read[k].of])
    <3>1. read[k].of \in 1..N /\ SameAs(read[k].got, sent[read[k].of])
      BY <1>1, <1>3, Zenon DEF AllSame
    <3>2. sent'[read[k].of] = sent[read[k].of]
      BY <1>5, <3>1
    <3>3. QED
      BY <3>1, <3>2
  <2>2. QED
    BY <1>2, <1>5, <2>1 DEF AllSame, SameAs
<1>13. Numbered(first, last)'
  <2>1. first \in Nat \ {0} /\ last \in Nat /\ first <= last /\ last + K = N + 1
    BY <1>3, <1>8 DEF Numbered
  <2>2. last + (K + 1) = (N + 1) + 1
    BY <2>1
  <2>3. link'[1].holds # <<>> /\ link'[1].holds[1] = first /\ Range(link'[1].holds) = first..last
    <3>1. CASE K = 0
      <4>1. link = <<>>
        BY <1>1, <1>3, <3>1, EmptySeq DEF TypeOK
      <4>2. first = last /\ last = N + 1
        BY <1>8, <2>1, <3>1, <4>1 DEF Numbered
      <4>3. link'[1].holds = <<N + 1>>
        BY <1>4, <1>6, <3>1
      <4>4. Range(<<N + 1>>) = {N + 1} /\ (N + 1)..(N + 1) = {N + 1}
        BY DEF Range
      <4>5. QED
        BY <4>2, <4>3, <4>4
    <3>2. CASE K # 0
      <4>1. 1 \in 1..K /\ link # <<>>
        BY <1>3, <3>2
      <4>2. link'[1] = link[1]
        BY <1>6, <4>1
      <4>3. QED
        BY <1>8, <4>1, <4>2, Zenon DEF Numbered
    <3>3. QED
      BY <3>1, <3>2
  <2>4. ASSUME NEW k \in 2..(K + 1) PROVE link'[k].holds = <<last + k - 1>>
    <3>1. CASE k = K + 1
      <4>1. last + k - 1 = N + 1
        BY <2>1, <3>1
      <4>2. QED
        BY <1>4, <1>6, <3>1, <4>1, Zenon
    <3>2. CASE k # K + 1
      <4>1. k \in 2..K /\ k \in 1..K
        BY <3>2
      <4>2. QED
        BY <1>3, <1>6, <1>8, <4>1, Zenon DEF Numbered
    <3>3. QED
      BY <3>1, <3>2
  <2>5. (Of(read) \cup lost)' = (1..last) \ {first}
    BY <1>2, <1>8 DEF Numbered, Of
  <2>6. QED
    BY <1>5, <1>6, <2>1, <2>2, <2>3, <2>4, <2>5, Zenon DEF Numbered
<1>14. Inv'
  BY <1>7, <1>10, <1>11, <1>12, <1>13 DEF Inv
<1>15. Link!Put
  <2>1. [k \in DOMAIN read |-> IF Same(read[k]) THEN read[k].of ELSE 0]'
          = [k \in DOMAIN read |-> IF Same(read[k]) THEN read[k].of ELSE 0]
    <3>1. [k \in DOMAIN read |-> IF Same(read[k]) THEN read[k].of ELSE 0]
            = [k \in 1..Len(read) |-> read[k].of]
      BY <1>1, OutIs
    <3>2. [k \in DOMAIN read |-> IF Same(read[k]) THEN read[k].of ELSE 0]'
            = [k \in 1..Len(read) |-> read[k].of]'
      BY <1>7, <1>12, OutIsNext
    <3>3. QED
      BY <1>2, <3>1, <3>2
  <2>2. QED
    BY <1>2, <1>3, <1>5, <2>1 DEF Link!Put
<1>16. QED
  BY <1>14, <1>15

\* What may still come out.
LEMMA OpenIs ==
  ASSUME TypeOK, AllSame
  PROVE  Link!Open = (1..Len(sent)) \ (Of(read) \cup lost)
<1> DEFINE out == [k \in DOMAIN read |-> IF Same(read[k]) THEN read[k].of ELSE 0]
<1>1. out = [k \in 1..Len(read) |-> read[k].of]
  BY OutIs
<1> HIDE DEF out
<1>2. Link!Range(out) = Of(read)
  BY <1>1 DEF Link!Range, Of
<1>3. Link!Open = (1..Len(sent)) \ (Link!Range(out) \cup lost)
  BY Zenon DEF Link!Open, out
<1>4. QED
  BY <1>2, <1>3, Zenon

LEMMA OnlyOne == \A x \in Int : x..x = {x}
  OBVIOUS

LEMMA BothLengths == \A a, b \in Nat : a # 0 => 1 \in 1..(a + b) /\ 1 <= a /\ a + b # 0
  OBVIOUS

\* A frame that gets behind another one is dropped.
LEMMA Coalesces ==
  ASSUME Inv, Coalesce
  PROVE  Inv' /\ Link!Drop
<1> DEFINE c1 == link[1]
           c2 == link[2]
           both == [text |-> c1.text \o c2.text, holds |-> c1.holds \o c2.holds]
           others == SubSeq(link, 3, Len(link))
<1>1. TypeOK /\ AllFit /\ AllCarry /\ AllSame
  BY DEF Inv
<1>2. /\ way = "fromServer" /\ Len(link) > 1 /\ link' = <<both>> \o others
      /\ lost' = lost \cup Range(c2.holds) /\ UNCHANGED <<way, sent, read>>
  BY DEF Coalesce
<1>3. PICK N \in Nat, K \in Nat : N = Len(sent) /\ K = Len(link)
  BY <1>1 DEF TypeOK
<1>4. K > 1 /\ 1 \in 1..K /\ 2 \in 1..K /\ 2 \in 2..K
  BY <1>2, <1>3
<1>5. PICK first \in Nat, last \in Nat : Numbered(first, last)
  BY DEF Inv
<1>6. /\ c1 \in Chunk /\ c2 \in Chunk /\ c1.text \in Text /\ c2.text \in Text
      /\ c1.holds \in Seq(Nat) /\ c2.holds \in Seq(Nat)
  <2>1. \A k \in 1..K : link[k] \in Chunk
    BY <1>1, <1>3, ElementOfSeq DEF TypeOK
  <2>2. c1 \in Chunk /\ c2 \in Chunk
    BY <1>4, <2>1
  <2> HIDE DEF c1, c2
  <2>3. QED
    BY <2>2 DEF Chunk
<1>7. /\ link # <<>> /\ c1.holds # <<>> /\ c1.holds[1] = first /\ Range(c1.holds) = first..last
      /\ c2.holds = <<last + 1>>
  <2>1. link # <<>>
    BY <1>3, <1>4
  <2>2. last + 2 - 1 = last + 1
    OBVIOUS
  <2>3. QED
    BY <1>3, <1>4, <1>5, <2>1, <2>2, Zenon DEF Numbered
<1>8. first \in 1..N /\ last \in 1..N /\ last + K = N + 1 /\ first <= last /\ first \in Nat \ {0}
  BY <1>1, <1>3, <1>4, <1>5, HeadNumbers DEF Numbered
<1> HIDE DEF c1, c2
<1>9. /\ both \in Chunk /\ both.text = c1.text \o c2.text
      /\ both.holds # <<>> /\ both.holds[1] = first
      /\ Range(both.holds) = first..(last + 1)
  <2> DEFINE text == c1.text \o c2.text
             holds == c1.holds \o c2.holds
  <2>1. text \in Text
    BY <1>6, TextFacts
  <2>2. holds \in Seq(Nat) /\ Len(holds) = Len(c1.holds) + Len(c2.holds)
        /\ \A i \in 1..(Len(c1.holds) + Len(c2.holds)) :
             holds[i] = IF i <= Len(c1.holds) THEN c1.holds[i] ELSE c2.holds[i - Len(c1.holds)]
    BY <1>6, ConcatProperties
  <2>3. Range(holds) = Range(c1.holds) \cup Range(c2.holds)
    BY <1>6, RangeConcatenation
  <2>4. both.text = text /\ both.holds = holds
    OBVIOUS
  <2> HIDE DEF text, holds
  <2>5. both \in Chunk
    BY <2>1, <2>2 DEF Chunk, text, holds
  <2>6. PICK a \in Nat \ {0}, b \in Nat : a = Len(c1.holds) /\ b = Len(c2.holds)
    BY <1>6, <1>7, EmptySeq
  <2>7. 1 \in 1..(a + b) /\ 1 <= a /\ a + b # 0
    BY BothLengths
  <2>8. holds[1] = first /\ Len(holds) # 0
    BY <1>7, <2>2, <2>6, <2>7
  <2>9. holds # <<>>
    BY <2>8
  <2>10. Range(c2.holds) = {last + 1}
    BY <1>7 DEF Range
  <2>11. first..last \cup {last + 1} = first..(last + 1)
    BY <1>8
  <2>12. QED
    BY <1>7, <2>3, <2>4, <2>5, <2>8, <2>9, <2>10, <2>11, Zenon DEF text
<1> HIDE DEF both
<1>10. /\ link' \in Seq(Chunk) /\ Len(link') = K - 1 /\ link'[1] = both
       /\ \A k \in 2..(K - 1) : link'[k] = link[k + 1]
  <2>1. \A k \in 3..K : link[k] \in Chunk
    <3>1. \A k \in 1..K : link[k] \in Chunk
      BY <1>1, <1>3, ElementOfSeq DEF TypeOK
    <3>2. 3..K \subseteq 1..K
      OBVIOUS
    <3>3. QED
      BY <3>1, <3>2
  <2>2. /\ others \in Seq(Chunk) /\ Len(others) = IF 3 <= K THEN K - 3 + 1 ELSE 0
        /\ \A i \in 1..(K - 3 + 1) : others[i] = link[3 + i - 1]
    BY <1>3, <2>1, SubSeqProperties
  <2> HIDE DEF others
  <2>3. Len(others) = K - 2 /\ \A i \in 1..(K - 2) : others[i] = link[i + 2]
    <3>1. Len(others) = K - 2
      BY <1>4, <2>2
    <3>2. ASSUME NEW i \in 1..(K - 2) PROVE others[i] = link[i + 2]
      <4>1. i \in 1..(K - 3 + 1) /\ 3 + i - 1 = i + 2
        OBVIOUS
      <4>2. QED
        BY <2>2, <4>1
    <3>3. QED
      BY <3>1, <3>2
  <2> DEFINE one == <<both>>
  <2>4. one \in Seq(Chunk) /\ Len(one) = 1 /\ one[1] = both
    BY <1>9
  <2> HIDE DEF one
  <2>5. /\ one \o others \in Seq(Chunk) /\ Len(one \o others) = Len(one) + Len(others)
        /\ \A i \in 1..(Len(one) + Len(others)) :
             (one \o others)[i] = IF i <= Len(one) THEN one[i] ELSE others[i - Len(one)]
    BY <2>2, <2>4, ConcatProperties
  <2>6. link' = one \o others
    BY <1>2 DEF one
  <2> DEFINE joined == one \o others
  <2>7. 1 + (K - 2) = K - 1 /\ 1 \in 1..(K - 1) /\ 1 <= 1
    BY <1>4
  <2> HIDE DEF joined
  <2>8. /\ joined \in Seq(Chunk) /\ Len(joined) = K - 1
        /\ \A i \in 1..(K - 1) : joined[i] = IF i <= 1 THEN one[i] ELSE others[i - 1]
    BY <2>3, <2>4, <2>5, <2>7, Zenon DEF joined
  <2>9. ASSUME NEW k \in 2..(K - 1) PROVE joined[k] = link[k + 1]
    <3>1. k \in 1..(K - 1) /\ ~(k <= 1) /\ k - 1 \in 1..(K - 2) /\ (k - 1) + 2 = k + 1
      OBVIOUS
    <3>2. QED
      BY <2>3, <2>8, <3>1
  <2>10. joined[1] = both
    BY <2>4, <2>7, <2>8
  <2>11. QED
    BY <2>6, <2>8, <2>9, <2>10, Zenon DEF joined
<1> HIDE DEF others
<1>11. lost' = lost \cup {last + 1} /\ last + 1 \in 1..N
  <2>1. Range(c2.holds) = {last + 1}
    BY <1>7 DEF Range
  <2>2. QED
    BY <1>2, <1>4, <1>8, <2>1
<1>12. TypeOK'
  <2>1. lost \in SUBSET Nat /\ last + 1 \in Nat
    BY <1>1 DEF TypeOK
  <2>2. lost' \in SUBSET Nat
    BY <1>11, <2>1
  <2>3. UNCHANGED <<way, sent, read>>
    BY <1>2
  <2>4. QED
    BY <1>1, <1>10, <2>2, <2>3, Zenon DEF TypeOK
<1>13. AllFit' /\ AllSame'
  BY <1>1, <1>2 DEF AllFit, AllSame, Fit, SameAs
<1>14. AllCarry'
  <2>1. ASSUME NEW k \in 1..(K - 1) PROVE Carries(link'[k].text, sent[link'[k].holds[1]])
    <3>1. CASE k = 1
      <4> DEFINE m == sent[first]
      <4>1. Deliverable(m)
        BY <1>1, <1>2, <1>3, <1>8 DEF AllFit, Fit
      <4>2. Carries(c1.text, m)
        BY <1>1, <1>3, <1>4, <1>7, Zenon DEF AllCarry, c1
      <4> HIDE DEF m
      <4>3. PICK writing \in Writings(m), more \in Text : c1.text = writing \o more
        BY <1>2, <4>2 DEF Carries
      <4>4. writing \in Text
        BY <4>1, FrameIsParsed
      <4> DEFINE t2 == c2.text
      <4>5. t2 \in Text
        BY <1>6
      <4> HIDE DEF t2
      <4>6. (writing \o more) \o t2 = writing \o (more \o t2) /\ more \o t2 \in Text
        BY <4>4, <4>5, Joins, TextFacts
      <4>7. both.text = writing \o (more \o t2)
        BY <1>9, <4>3, <4>6, Zenon DEF t2
      <4>8. Carries(both.text, m)
        BY <1>2, <4>6, <4>7 DEF Carries
      <4>9. QED
        BY <1>9, <1>10, <3>1, <4>8, Zenon DEF m
    <3>2. CASE k # 1
      <4>1. k \in 2..(K - 1) /\ k + 1 \in 1..K
        BY <3>2
      <4>2. QED
        BY <1>1, <1>3, <1>10, <4>1, Zenon DEF AllCarry
    <3>3. QED
      BY <3>1, <3>2
  <2>2. QED
    BY <1>2, <1>10, <2>1 DEF AllCarry, Carries
<1>15. Numbered(first, last + 1)'
  <2>1. last + 1 \in Nat /\ first <= last + 1 /\ (last + 1) + (K - 1) = N + 1
    BY <1>8
  <2>2. link' # <<>>
    <3>1. Len(link') # 0
      BY <1>4, <1>10
    <3>2. QED
      BY <3>1
  <2>3. ASSUME NEW k \in 2..(K - 1) PROVE link'[k].holds = <<(last + 1) + k - 1>>
    <3>1. k + 1 \in 2..K /\ (last + 1) + k - 1 = last + (k + 1) - 1
      OBVIOUS
    <3>2. link[k + 1].holds = <<last + (k + 1) - 1>>
      BY <1>3, <1>5, <3>1, Zenon DEF Numbered
    <3>3. QED
      BY <1>10, <3>1, <3>2, Zenon
  <2>4. Of(read) \cup lost = (1..last) \ {first}
    BY <1>5 DEF Numbered
  <2>5. (Of(read) \cup lost)' = (1..(last + 1)) \ {first}
    <3>1. (Of(read) \cup lost)' = (Of(read) \cup lost) \cup {last + 1}
      BY <1>2, <1>11 DEF Of
    <3>2. ((1..last) \ {first}) \cup {last + 1} = (1..(last + 1)) \ {first}
      BY <1>8
    <3>3. QED
      BY <2>4, <3>1, <3>2
  <2>6. /\ link'[1].holds # <<>> /\ link'[1].holds[1] = first
        /\ Range(link'[1].holds) = first..(last + 1)
    BY <1>9, <1>10, Zenon
  <2>7. Len(sent') = N /\ Len(link') = K - 1
    BY <1>2, <1>3, <1>10
  <2>8. QED
    BY <1>8, <2>1, <2>2, <2>3, <2>5, <2>6, <2>7, Zenon DEF Numbered
<1>16. Inv'
  <2>1. last + 1 \in Nat
    OBVIOUS
  <2>2. QED
    BY <1>12, <1>13, <1>14, <1>15, <2>1 DEF Inv
<1>17. Link!Drop
  <2> DEFINE n == last + 1
  <2>1. n \in 1..Len(sent) /\ n \notin Of(read) \cup lost
    <3>1. Of(read) \cup lost = (1..last) \ {first}
      BY <1>5 DEF Numbered
    <3>2. n \notin 1..last
      OBVIOUS
    <3>3. QED
      BY <1>3, <1>11, <3>1, <3>2
  <2>2. n..n = {n}
    BY OnlyOne
  <2> HIDE DEF n
  <2>3. n..n # {} /\ n..n \subseteq Link!Open
    BY <1>1, <2>1, <2>2, OpenIs
  <2>4. lost' = lost \cup n..n
    BY <1>11, <2>2 DEF n
  <2>5. [k \in DOMAIN read |-> IF Same(read[k]) THEN read[k].of ELSE 0]'
          = [k \in DOMAIN read |-> IF Same(read[k]) THEN read[k].of ELSE 0]
    <3>1. [k \in DOMAIN read |-> IF Same(read[k]) THEN read[k].of ELSE 0]
            = [k \in 1..Len(read) |-> read[k].of]
      BY <1>1, OutIs
    <3>2. [k \in DOMAIN read |-> IF Same(read[k]) THEN read[k].of ELSE 0]'
            = [k \in 1..Len(read) |-> read[k].of]'
      BY <1>12, <1>13, OutIsNext
    <3>3. QED
      BY <1>2, <3>1, <3>2
  <2>6. Len(sent)' = Len(sent)
    BY <1>2
  <2>7. QED
    BY <2>1, <2>3, <2>4, <2>5, <2>6, Zenon DEF Link!Drop
<1>18. QED
  BY <1>16, <1>17

LEMMA AscendingOne ==
  ASSUME NEW x \in Nat
  PROVE  Link!Ascending({x}) = <<x>>
<1> DEFINE below(z) == {y \in {x} : y < z}
           kth(k) == CHOOSE z \in {x} : Cardinality(below(z)) = k - 1
<1>1. Cardinality({x}) = 1 /\ Cardinality({}) = 0
  BY FS_Singleton, FS_EmptySet
<1>2. below(x) = {}
  OBVIOUS
<1>3. Cardinality(below(x)) = 1 - 1
  BY <1>1, <1>2
<1>4. Link!Ascending({x}) = [k \in 1..Cardinality({x}) |-> kth(k)]
  BY Zenon DEF Link!Ascending, Link!Cardinality, Cardinality
<1>5. kth(1) = x
  <2> HIDE DEF below
  <2>1. QED
    BY <1>3
<1> HIDE DEF kth
<1>6. Link!Ascending({x}) = [k \in 1..1 |-> kth(k)]
  BY <1>1, <1>4
<1>7. QED
  BY <1>5, <1>6

\* The first chunk is read.
LEMMA Takes ==
  ASSUME Inv, link # <<>>, NEW got \in Made, SameAs(got, sent[link[1].holds[1]]),
         Reads(got), link' = Tail(link), UNCHANGED <<way, sent, lost>>
  PROVE  Inv' /\ Link!Get
<1>1. TypeOK /\ AllFit /\ AllCarry /\ AllSame
  BY DEF Inv
<1>2. PICK N \in Nat, K \in Nat, R \in Nat : N = Len(sent) /\ K = Len(link) /\ R = Len(read)
  BY <1>1 DEF TypeOK
<1>3. PICK first \in Nat, last \in Nat : Numbered(first, last)
  BY DEF Inv
<1>4. K # 0 /\ 1 \in 1..K
  BY <1>1, <1>2, EmptySeq DEF TypeOK
<1>5. first \in 1..N /\ last \in 1..N /\ last + K = N + 1 /\ first <= last /\ first \in Nat \ {0}
  BY <1>1, <1>2, <1>3, <1>4, HeadNumbers DEF Numbered
<1>6. link[1].holds[1] = first
  BY <1>3, Zenon DEF Numbered
<1> DEFINE result == [of |-> first, got |-> got]
<1>7. result \in Result /\ result.of = first /\ result.got = got
  BY DEF Result
<1> HIDE DEF result
<1>8. read' = Append(read, result)
  <2>1. Head(link) = link[1]
    OBVIOUS
  <2>2. QED
    BY <1>6, <2>1, Zenon DEF Reads, result
<1>9. /\ read' \in Seq(Result) /\ Len(read') = R + 1 /\ read'[R + 1] = result
      /\ \A k \in 1..R : read'[k] = read[k]
  BY <1>1, <1>2, <1>7, <1>8, AppendProperties DEF TypeOK
<1>10. /\ link' \in Seq(Chunk) /\ Len(link') = K - 1
       /\ \A k \in 1..(K - 1) : link'[k] = link[k + 1]
  <2>1. link \in Seq(Chunk)
    BY <1>1 DEF TypeOK
  <2>2. /\ Tail(link) \in Seq(Chunk) /\ Len(Tail(link)) = Len(link) - 1
        /\ \A k \in 1..Len(Tail(link)) : Tail(link)[k] = link[k + 1]
    BY <2>1, HeadTailProperties
  <2>3. QED
    BY <1>2, <2>2, Zenon
<1>11. TypeOK'
  <2>1. UNCHANGED <<way, sent, lost>>
    OBVIOUS
  <2>2. QED
    BY <1>1, <1>9, <1>10, <2>1, Zenon DEF TypeOK
<1>12. AllFit'
  BY <1>1 DEF AllFit, Fit
<1>13. AllCarry'
  <2>1. ASSUME NEW k \in 1..(K - 1) PROVE Carries(link'[k].text, sent[link'[k].holds[1]])
    <3>1. k + 1 \in 1..K
      OBVIOUS
    <3>2. QED
      BY <1>1, <1>2, <1>10, <3>1, Zenon DEF AllCarry
  <2>2. QED
    BY <1>10, <2>1 DEF AllCarry, Carries
<1>14. AllSame'
  <2>1. ASSUME NEW k \in 1..(R + 1)
        PROVE  read'[k].of \in 1..N /\ SameAs(read'[k].got, sent[read'[k].of])
    <3>1. CASE k = R + 1
      BY <1>5, <1>6, <1>7, <1>9, <3>1
    <3>2. CASE k # R + 1
      <4>1. k \in 1..R
        BY <3>2
      <4>2. QED
        BY <1>1, <1>2, <1>9, <4>1, Zenon DEF AllSame
    <3>3. QED
      BY <3>1, <3>2
  <2>2. QED
    BY <1>2, <1>9, <2>1 DEF AllSame, SameAs
<1>15. Of(read') = Of(read) \cup {first}
  <2>1. ASSUME NEW k \in 1..(R + 1) PROVE read'[k].of \in Of(read) \cup {first}
    <3>1. CASE k = R + 1
      BY <1>7, <1>9, <3>1
    <3>2. CASE k # R + 1
      <4>1. k \in 1..R
        BY <3>2
      <4>2. QED
        BY <1>2, <1>9, <4>1 DEF Of
    <3>3. QED
      BY <3>1, <3>2
  <2>2. ASSUME NEW k \in 1..R PROVE read[k].of \in Of(read')
    <3>1. k \in 1..(R + 1)
      OBVIOUS
    <3>2. QED
      BY <1>9, <3>1 DEF Of
  <2>3. first \in Of(read')
    <3>1. R + 1 \in 1..(R + 1)
      OBVIOUS
    <3>2. QED
      BY <1>7, <1>9, <3>1 DEF Of
  <2>4. Of(read') = {read'[k].of : k \in 1..(R + 1)} /\ Of(read) = {read[k].of : k \in 1..R}
    BY <1>2, <1>9 DEF Of
  <2>5. QED
    BY <2>1, <2>2, <2>3, <2>4
<1>16. Of(read) \cup lost = (1..last) \ {first}
  BY <1>3 DEF Numbered
<1>17. Numbered(last + 1, last + 1)'
  <2>1. /\ last + 1 \in Nat \ {0} /\ last + 1 \in Nat /\ last + 1 <= last + 1
        /\ (last + 1) + (K - 1) = N + 1
    BY <1>5
  <2>2. ASSUME link' # <<>>
        PROVE  /\ link'[1].holds # <<>> /\ link'[1].holds[1] = last + 1
               /\ Range(link'[1].holds) = (last + 1)..(last + 1)
    <3>1. K - 1 # 0
      BY <1>10, <2>2, EmptySeq
    <3>2. 1 \in 1..(K - 1) /\ 1 + 1 = 2 /\ 2 \in 2..K /\ last + 2 - 1 = last + 1
      BY <3>1, <1>4
    <3>3. link'[1].holds = <<last + 1>>
      BY <1>2, <1>3, <1>10, <3>2, Zenon DEF Numbered
    <3>4. Range(<<last + 1>>) = {last + 1} /\ (last + 1)..(last + 1) = {last + 1}
      BY OnlyOne DEF Range
    <3>5. \A x : <<x>> # <<>> /\ <<x>>[1] = x
      OBVIOUS
    <3>6. QED
      BY <3>3, <3>4, <3>5, Zenon
  <2>3. ASSUME NEW k \in 2..(K - 1) PROVE link'[k].holds = <<(last + 1) + k - 1>>
    <3>1. k \in 1..(K - 1) /\ k + 1 \in 2..K /\ (last + 1) + k - 1 = last + (k + 1) - 1
      OBVIOUS
    <3>2. link[k + 1].holds = <<last + (k + 1) - 1>>
      BY <1>2, <1>3, <3>1, Zenon DEF Numbered
    <3>3. QED
      BY <1>10, <3>1, <3>2, Zenon
  <2>4. (Of(read) \cup lost)' = (1..(last + 1)) \ {last + 1}
    <3>1. (Of(read) \cup lost)' = (Of(read) \cup lost) \cup {first}
      BY <1>15
    <3>2. ((1..last) \ {first}) \cup {first} = (1..(last + 1)) \ {last + 1}
      BY <1>5
    <3>3. QED
      BY <1>16, <3>1, <3>2
  <2>5. Len(sent') = N
    BY <1>2
  <2>6. QED
    BY <1>10, <2>1, <2>2, <2>3, <2>4, <2>5, Zenon DEF Numbered
<1>18. Inv'
  <2>1. last + 1 \in Nat
    OBVIOUS
  <2>2. QED
    BY <1>11, <1>12, <1>13, <1>14, <1>17, <2>1 DEF Inv
<1>19. Link!Get
  <2> DEFINE out == [k \in DOMAIN read |-> IF Same(read[k]) THEN read[k].of ELSE 0]
             numbers == [k \in 1..R |-> read[k].of]
             S == {i \in Link!Open : i <= first}
  <2>1. out = numbers
    BY <1>1, <1>2, OutIs
  <2>2. out' = [k \in 1..(R + 1) |-> read'[k].of]
    BY <1>9, <1>11, <1>14, OutIsNext
  <2>3. S = {first}
    <3>1. Link!Open = (1..N) \ (Of(read) \cup lost)
      BY <1>1, <1>2, OpenIs
    <3>2. {i \in (1..N) \ ((1..last) \ {first}) : i <= first} = {first}
      BY <1>5
    <3>3. QED
      BY <1>16, <3>1, <3>2
  <2>4. Link!Ascending(S) = <<first>>
    BY <2>3, AscendingOne
  <2>5. [k \in 1..(R + 1) |-> read'[k].of] = numbers \o <<first>>
    <3>1. \A k \in 1..R : read[k].of \in Nat
      <4>1. \A k \in 1..R : read[k].of \in 1..N
        BY <1>1, <1>2, Zenon DEF AllSame
      <4>2. QED
        BY <4>1
    <3>2. numbers \in Seq(Nat) /\ Len(numbers) = R
      BY <3>1
    <3> DEFINE one == <<first>>
    <3>3. one \in Seq(Nat) /\ Len(one) = 1 /\ one[1] = first
      OBVIOUS
    <3>4. \A k \in 1..R : numbers[k] = read'[k].of
      BY <1>9
    <3> HIDE DEF numbers, one
    <3>5. /\ numbers \o one \in Seq(Nat) /\ Len(numbers \o one) = Len(numbers) + Len(one)
          /\ \A i \in 1..(Len(numbers) + Len(one)) :
               (numbers \o one)[i] = IF i <= Len(numbers) THEN numbers[i] ELSE one[i - Len(numbers)]
      BY <3>2, <3>3, ConcatProperties
    <3> DEFINE all == numbers \o one
    <3> HIDE DEF all
    <3>6. /\ all \in Seq(Nat) /\ Len(all) = R + 1
          /\ \A i \in 1..(R + 1) : all[i] = IF i <= R THEN numbers[i] ELSE one[i - R]
      BY <3>2, <3>3, <3>5, Zenon DEF all
    <3>7. ASSUME NEW k \in 1..(R + 1) PROVE all[k] = read'[k].of
      <4>1. CASE k = R + 1
        <5>1. ~(k <= R) /\ k - R = 1
          BY <4>1
        <5>2. QED
          BY <1>7, <1>9, <3>3, <3>6, <4>1, <5>1
      <4>2. CASE k # R + 1
        <5>1. k \in 1..R /\ k <= R
          BY <4>2
        <5>2. QED
          BY <3>4, <3>6, <5>1
      <4>3. QED
        BY <4>1, <4>2
    <3>8. all = [k \in 1..(R + 1) |-> all[k]]
      BY <3>6
    <3>9. QED
      BY <3>7, <3>8, Zenon DEF all, one
  <2> HIDE DEF out, numbers
  <2>6. S # {} /\ out' = out \o Link!Ascending(S)
    BY <2>1, <2>2, <2>3, <2>4, <2>5
  <2>7. first \in 1..Len(sent) /\ UNCHANGED <<Len(sent), lost>>
    BY <1>2, <1>5
  <2>8. QED
    BY <2>6, <2>7, Zenon DEF Link!Get, out
<1>20. QED
  BY <1>18, <1>19

LEMMA SendsAreSendable ==
  ASSUME NEW m \in Sends, NEW topic \in Topic
  PROVE  Sendable(m) /\ Free(topic, {LF, CR, NUL})
<1>1. /\ m = Message(m.command, m.headers, m.body)
      /\ Writable(m.headers) /\ <<"content-length">> \notin DOMAIN m.headers
      /\ m.body \in Text
      /\ \A n \in 0..(Len(m.body) + 1) :
           Numeral(n) \in Word /\ (Numeral(n) = Numeral(Len(m.body)) => n = Len(m.body))
  BY SendsAssumption, Zenon
<1>2. Free(topic, {LF, CR, NUL})
  BY SendsAssumption, Zenon
<1>3. QED
  BY <1>1, <1>2, Zenon DEF Sendable, Length

LEMMA DeliversAreDeliverable ==
  ASSUME NEW m \in Delivers
  PROVE  Deliverable(m)
  BY DeliversAssumption, Zenon DEF Deliverable

\* The invariant holds initially.
LEMMA Starts ==
  ASSUME Init
  PROVE  Inv /\ Link!Init
<1>1. /\ way \in {"toServer", "fromServer"} /\ sent = <<>> /\ link = <<>> /\ read = <<>>
      /\ lost = {}
  BY DEF Init
<1>2. Len(sent) = 0 /\ Len(link) = 0 /\ Len(read) = 0 /\ 1..0 = {} /\ 2..0 = {}
  BY <1>1
<1>3. TypeOK
  BY <1>1 DEF TypeOK
<1>4. AllFit /\ AllCarry /\ AllSame
  BY <1>2 DEF AllFit, AllCarry, AllSame
<1>5. Numbered(1, 1)
  <2>1. Of(read) = {}
    BY <1>2 DEF Of
  <2>2. (1..1) \ {1} = {} /\ 1 + 0 = 0 + 1 /\ 1 <= 1 /\ 1 \in Nat \ {0} /\ 1 \in Nat
    OBVIOUS
  <2>3. Of(read) \cup lost = {}
    BY <1>1, <2>1
  <2>4. QED
    BY <1>1, <1>2, <2>2, <2>3, Zenon DEF Numbered
<1>6. Inv
  <2>1. 1 \in Nat
    OBVIOUS
  <2>2. QED
    BY <1>3, <1>4, <1>5, <2>1 DEF Inv
<1>7. Link!Init
  <2>1. [k \in DOMAIN read |-> IF Same(read[k]) THEN read[k].of ELSE 0] = <<>>
    <3>1. DOMAIN read = {}
      BY <1>1
    <3>2. \A f : DOMAIN f = {} => [k \in DOMAIN f |-> IF Same(f[k]) THEN f[k].of ELSE 0] = <<>>
      OBVIOUS
    <3>3. QED
      BY <3>1, <3>2
  <2>2. QED
    BY <1>1, <1>2, <2>1, Zenon DEF Link!Init
<1>8. QED
  BY <1>6, <1>7

\* Each step keeps the invariant, and is one of FifoLink or none.
LEMMA Steps ==
  ASSUME Inv, [Next]_vars
  PROVE  Inv' /\ [Link!Next]_Link!vars
<1>1. ASSUME NEW m \in Sends, NEW topic \in Topic, Send(m, topic)
      PROVE  Inv' /\ Link!Put
  <2> DEFINE message == Topicized(Identified(m), topic)
  <2>1. way = "toServer" /\ Put(message, buildSendFrame(message))
    BY <1>1, Zenon DEF Send
  <2>2. Sendable(message) /\ <<"topic">> \in DOMAIN message.headers
    BY SendsAreSendable, SentIsSendable
  <2>3. message \in Sent
    BY DEF Sent
  <2> HIDE DEF message
  <2>4. buildSendFrame(message) \in Text
    BY <2>2, FrameIsText
  <2>5. Fit(message) /\ Carries(buildSendFrame(message), message)
    BY <2>1, <2>2, Zenon DEF Fit, Carries
  <2>6. QED
    BY <2>1, <2>3, <2>4, <2>5, Puts
<1>2. ASSUME NEW m \in Delivers, ServerSends(m)
      PROVE  Inv' /\ Link!Put
  <2>1. way # "toServer" /\ \E text \in Writings(m) : Put(m, text)
    BY <1>2 DEF ServerSends
  <2>2. PICK text \in Writings(m) : Put(m, text)
    BY <2>1
  <2>3. Deliverable(m) /\ m \in Sent
    BY DeliversAreDeliverable DEF Sent
  <2>4. <<>> \in Text
    BY DEF Text
  <2>5. text \in Text
    BY <2>3, <2>4, FrameIsParsed
  <2>6. text = text \o <<>>
    BY <2>5, Joins
  <2>7. Fit(m) /\ Carries(text, m)
    BY <2>1, <2>3, <2>4, <2>6, Zenon DEF Fit, Carries
  <2>8. QED
    BY <2>2, <2>3, <2>5, <2>7, Puts
<1>3. ASSUME Coalesce
      PROVE  Inv' /\ Link!Drop
  BY <1>3, Coalesces
<1> DEFINE first == link[1]
           m == sent[first.holds[1]]
<1>4. ASSUME link # <<>>
      PROVE  Fit(m) /\ Carries(first.text, m) /\ first.text \in Text
  <2>1. TypeOK /\ AllFit /\ AllCarry
    BY DEF Inv
  <2>2. PICK a \in Nat, b \in Nat : Numbered(a, b)
    BY DEF Inv
  <2>3. 1 \in 1..Len(link)
    <3>1. Len(link) \in Nat \ {0}
      BY <1>4, <2>1, EmptySeq DEF TypeOK
    <3> DEFINE K == Len(link)
    <3>2. K \in Nat \ {0}
      BY <3>1
    <3> HIDE DEF K
    <3>3. 1 \in 1..K
      BY <3>2
    <3>4. QED
      BY <3>3 DEF K
  <2>4. first.holds[1] \in 1..Len(sent)
    BY <2>1, <2>2, <2>3, HeadNumbers
  <2>5. Fit(m)
    BY <2>1, <2>4, Zenon DEF AllFit
  <2>6. Carries(first.text, m)
    BY <2>1, <2>3, Zenon DEF AllCarry
  <2>7. first \in Chunk
    BY <2>1, <2>3, ElementOfSeq DEF TypeOK
  <2>8. first.text \in Text
    <3> HIDE DEF first
    <3>1. QED
      BY <2>7 DEF Chunk
  <2>9. QED
    BY <2>5, <2>6, <2>8
<1>5. ASSUME Receive
      PROVE  Inv' /\ Link!Get
  <2>1. /\ way # "toServer" /\ link # <<>> /\ Head(link) = first
        /\ Reads(parse(Head(link).text)) /\ link' = Tail(link) /\ UNCHANGED <<way, sent, lost>>
    BY <1>5 DEF Receive
  <2>2. Fit(m) /\ Carries(first.text, m) /\ first.text \in Text
    BY <1>4, <2>1
  <2> DEFINE text == first.text
  <2>3. Reads(parse(text))
    BY <2>1, Zenon
  <2>4. parse(text) \in Made
    BY <2>2 DEF Made
  <2>5. Deliverable(m) /\ \E writing \in Writings(m), more \in Text : text = writing \o more
    BY <2>1, <2>2, Zenon DEF Fit, Carries
  <2>6. Heard(parse(text), m)
    <3> HIDE DEF m, text
    <3>1. PICK writing \in Writings(m), more \in Text : text = writing \o more
      BY <2>5
    <3>2. Heard(parse(writing \o more), m)
      BY <2>5, FrameIsParsed, Zenon
    <3>3. QED
      BY <3>1, <3>2, Zenon
  <2>7. SameAs(parse(text), m)
    BY <2>1, <2>6, Zenon DEF SameAs
  <2>8. QED
    BY <2>1, <2>3, <2>4, <2>7, Takes
<1>6. ASSUME ServerReads
      PROVE  Inv' /\ Link!Get
  <2>1. /\ way = "toServer" /\ link # <<>> /\ Head(link) = first
        /\ Reads(Reading(Head(link).text)) /\ link' = Tail(link) /\ UNCHANGED <<way, sent, lost>>
    BY <1>6 DEF ServerReads
  <2>2. Fit(m) /\ Carries(first.text, m) /\ first.text \in Text
    BY <1>4, <2>1
  <2> DEFINE text == first.text
  <2>3. Reads(Reading(text))
    BY <2>1, Zenon
  <2>4. Reading(text) \in Made
    BY <2>2 DEF Made
  <2>5. Sendable(m) /\ <<"topic">> \in DOMAIN m.headers /\ text = buildSendFrame(m)
    BY <2>1, <2>2, Zenon DEF Fit, Carries
  <2>6. Told(Reading(text), m)
    <3> HIDE DEF m, text
    <3>1. Told(Reading(buildSendFrame(m)), m)
      BY <2>5, FrameIsRead
    <3>2. QED
      BY <2>5, <3>1, Zenon
  <2>7. SameAs(Reading(text), m)
    BY <2>1, <2>6, Zenon DEF SameAs
  <2>8. QED
    BY <2>1, <2>3, <2>4, <2>7, Takes
<1>7. CASE UNCHANGED vars
  <2>1. Inv'
    <3>1. /\ way' = way /\ sent' = sent /\ link' = link /\ read' = read /\ lost' = lost
      BY <1>7 DEF vars
    <3>2. TypeOK' /\ AllFit' /\ AllCarry' /\ AllSame'
      BY <3>1 DEF Inv, TypeOK, AllFit, AllCarry, AllSame, Fit, Carries, SameAs
    <3>3. \A a, b : Numbered(a, b) => Numbered(a, b)'
      BY <3>1 DEF Numbered, Of
    <3>4. QED
      BY <3>2, <3>3 DEF Inv
  <2>2. UNCHANGED Link!vars
    <3>1. /\ way' = way /\ sent' = sent /\ link' = link /\ read' = read /\ lost' = lost
      BY <1>7 DEF vars
    <3>2. QED
      BY <3>1 DEF Link!vars, Same
  <2>3. QED
    BY <2>1, <2>2
<1>8. QED
  BY <1>1, <1>2, <1>3, <1>5, <1>6, <1>7 DEF Next, Link!Next

\* The link between the bridge and the server is a first in first out link on which only
\* frames behind another one in a chunk are lost, and what comes out is what was sent, for
\* all messages, topics and frames, and however the server ends its lines
\* (translators/stomp.js:44-172, adapters/webSocket.js, adapters/stream.js).
THEOREM StompLinkIsLink == Spec => IsLink
<1>1. Init => Inv /\ Link!Init
  BY Starts
<1>2. Inv /\ [Next]_vars => Inv' /\ [Link!Next]_Link!vars
  BY Steps
<1>3. QED
  BY <1>1, <1>2, PTL DEF Spec, IsLink, Link!Spec

=============================================================================
