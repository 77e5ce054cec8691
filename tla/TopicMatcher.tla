---------------------------- MODULE TopicMatcher ----------------------------
(***************************************************************************)
(* The matchers of the exchange channels (exchange.js:122-150).  The       *)
(* topical matcher rewrites a subscription into a regular expression with  *)
(* five replacements, one after the other, and tests the topic with it.    *)
(*                                                                         *)
(* Texts are sequences of tokens: words, dots and the wild cards "*" and   *)
(* "#"; a subscription or a topic is the sequence of its words, none of    *)
(* which is empty.  The pieces that a replacement puts into the expression *)
(* are tokens too.  The cache of expressions has no effect but speed.      *)
(***************************************************************************)
EXTENDS Integers, Sequences, SequencesExt

\* The words with dots between them.
Text(words) ==
  [i \in 1..(2 * Len(words) - 1) |-> IF i % 2 = 1 THEN words[(i + 1) \div 2] ELSE "."]

\* String.replace with a global expression: occurrences from the left, without
\* overlap.
Replace(text, old, new) ==
  LET Here(i) == SubSeq(text, i, i + Len(old) - 1) = old
      rest[i \in 1..(Len(text) + Len(old))] ==
        IF i > Len(text) THEN <<>>
        ELSE IF i + Len(old) - 1 <= Len(text) /\ Here(i) THEN new \o rest[i + Len(old)]
        ELSE <<text[i]>> \o rest[i + 1]
  IN rest[1]

OneWord == "[^.]+"
Leading == "(?:.+\\.)?"
Trailing == "(?:\\..+)?"
Anything == "(?:.+)?"

\* The expression for a subscription.
Pattern(subscription) ==
  LET words == Replace(Text(subscription), <<"*">>, <<OneWord>>)
      multi == Replace(words, <<"#", ".", "#">>, <<"#">>)
      leading == Replace(multi, <<"#", ".">>, <<Leading>>)
      trailing == Replace(leading, <<".", "#">>, <<Trailing>>)
  IN Replace(trailing, <<"#">>, <<Anything>>)

\* Mutant: a single word may contain dots.
MutantWordHasDots(piece, text) ==
  CASE piece = OneWord -> text # <<>>
    [] piece = Leading -> text = <<>> \/ (Len(text) > 1 /\ Last(text) = ".")
    [] piece = Trailing -> text = <<>> \/ (Len(text) > 1 /\ Head(text) = ".")
    [] piece = Anything -> TRUE
    [] OTHER -> text = <<piece>>

\* The texts a piece of an expression stands for.
Takes(piece, text) ==
  CASE piece = OneWord -> Len(text) = 1 /\ text # <<".">>
    [] piece = Leading -> text = <<>> \/ (Len(text) > 1 /\ Last(text) = ".")
    [] piece = Trailing -> text = <<>> \/ (Len(text) > 1 /\ Head(text) = ".")
    [] piece = Anything -> TRUE
    [] OTHER -> text = <<piece>>

\* RegExp.test for an expression between ^ and $: where the pieces so far may end.
Test(pattern, text) ==
  LET Ends(from, piece) ==
        {j \in 0..Len(text) :
           \E i \in from : i <= j /\ Takes(piece, SubSeq(text, i + 1, j))}
  IN Len(text) \in FoldLeft(Ends, {0}, pattern)

Topical(subscription, topic) == Test(Pattern(subscription), Text(topic))

Literal(subscription, topic) == subscription = topic

-----------------------------------------------------------------------------
\* What the documentation says of the wild cards (channels/exchange.js:43-47):
\* "*" matches exactly one word and "#" zero or more words.  The topic can be
\* cut so that each word of the subscription gets its part.
DocumentedMatch(subscription, topic) ==
  \E cut \in [0..Len(subscription) -> 0..Len(topic)] :
    /\ cut[0] = 0 /\ cut[Len(subscription)] = Len(topic)
    /\ \A i \in 1..Len(subscription) :
         IF subscription[i] = "#" THEN cut[i] >= cut[i - 1]
         ELSE /\ cut[i] = cut[i - 1] + 1
              /\ subscription[i] \in {"*", topic[cut[i]]}
=============================================================================
