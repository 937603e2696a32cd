--------------------------- MODULE MCRouteJourney ----------------------------
(* A short way through repeater 3 and a long one through 4 and 5, the code's *)
(* own sizes, and texts that fill their last cipher block or do not.         *)
EXTENDS RouteJourney

\* Two ways there, one way back: links need not be symmetric. The contact hears the
\* long way's first repeater too, if it is in range at that moment.
Links == {<<1, 3>>, <<3, 2>>} \cup {<<1, 4>>, <<4, 5>>, <<5, 2>>, <<4, 2>>} \cup {<<2, 3>>, <<3, 1>>}

TextOf(n) == [i \in 1..n |-> 65 + i]
TwoTexts == {TextOf(7), TextOf(11)}
OneName == <<97, 98>>

NoneOrLong  == {NoRoute, [path |-> <<4, 5>>, raw |-> 2]}
NoneOrKnown == {NoRoute, [path |-> <<3>>, raw |-> 1]}

\* All route types, hop counts and sizes around the limits, and lengths around
\* those the path and the largest payload need.
Filler(n) == [i \in 1..n |-> 7]
Lengths(b) == {PathByteLen(b) + k : k \in {-1, 0, 1, 184, 185}} \cap Nat
PathBytes == {0, 1, 63, 64, 65, 96, 97, 128, 149, 150, 192}
Damaged ==
  {<<h>> \o Filler(n) : h \in 0..3, n \in 0..5} \cup
  UNION {{<<h>> \o (IF h \in TransportTypes THEN <<1, 2, 3, 4>> ELSE <<>>) \o <<b>> \o Filler(n)
            : h \in {0, 1, 2, 3, 37}, n \in Lengths(b)} : b \in PathBytes}
==============================================================================
