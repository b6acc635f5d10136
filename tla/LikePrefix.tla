---- MODULE LikePrefix ----
(***************************************************************************)
(* memory_list selects keys with LIKE: the prefix, its wildcards escaped,  *)
(* and a percent sign (server/memory_server.py:452).  Texts are sequences  *)
(* of characters; a letter stands for itself in either case.               *)
(***************************************************************************)
EXTENDS Integers, Sequences

Backslash == "\\"
Characters == {"a", "A", "b", "%", "_", Backslash}

\* Texts of at most n characters.
Texts(n) == UNION {[1..i -> Characters] : i \in 0..n}

\* Every occurrence of c gets a backslash.
Quote(character, c) == IF character = c THEN <<Backslash, c>> ELSE <<character>>
Escape(text, c) ==
  LET escaped[n \in 0..Len(text)] ==   \* the first n characters
        IF n = 0 THEN <<>> ELSE escaped[n - 1] \o Quote(text[n], c)
  IN  escaped[Len(text)]

\* Mutant of Escaped: the backslashes come last.
EscapedLast(prefix) == Escape(Escape(Escape(prefix, "%"), "_"), Backslash)

\* The three replacements, in their order.
Escaped(prefix) == Escape(Escape(Escape(prefix, Backslash), "%"), "_")

\* The 26 letters that SQLite's LIKE takes for their small ones.
LowerCase ==
  [A |-> "a", B |-> "b", C |-> "c", D |-> "d", E |-> "e", F |-> "f", G |-> "g",
   H |-> "h", I |-> "i", J |-> "j", K |-> "k", L |-> "l", M |-> "m", N |-> "n",
   O |-> "o", P |-> "p", Q |-> "q", R |-> "r", S |-> "s", T |-> "t", U |-> "u",
   V |-> "v", W |-> "w", X |-> "x", Y |-> "y", Z |-> "z"]
Fold(c) == IF c \in DOMAIN LowerCase THEN LowerCase[c] ELSE c

\* SQLite's LIKE with ESCAPE '\', which ignores the case of ASCII letters: the
\* places of the text from which on it matches the pattern from place j on, by
\* those of the places after j.
Places(text, pattern, places, j) ==
  LET Same(i, c) == Fold(text[i]) = Fold(c) IN
  IF j > Len(pattern) THEN {Len(text) + 1}
  ELSE CASE pattern[j] = "%" ->
              {i \in 1 .. Len(text) + 1 : \E k \in places[j + 1] : i <= k}
         [] pattern[j] = "_" ->
              {i \in 1..Len(text) : i + 1 \in places[j + 1]}
         [] pattern[j] = Backslash ->
              {i \in 1..Len(text) : /\ j < Len(pattern)
                                    /\ Same(i, pattern[j + 1])
                                    /\ i + 1 \in places[j + 2]}
         [] OTHER ->
              {i \in 1..Len(text) : Same(i, pattern[j]) /\ i + 1 \in places[j + 1]}

Like(text, pattern) ==
  LET places[j \in 1 .. Len(pattern) + 1] == Places(text, pattern, places, j)
  IN  1 \in places[1]

\* What memory_list finds.
Lists(prefix, key) == Like(key, Escaped(prefix) \o <<"%">>)

\* The key starts with the prefix, as same compares characters.
StartsWith(key, prefix, same(_, _)) ==
  /\ Len(prefix) <= Len(key)
  /\ \A i \in 1..Len(prefix) : same(key[i], prefix[i])

SameFolded(c, d) == Fold(c) = Fold(d)
SameExactly(c, d) == c = d

MatchesAs(same(_, _)) ==
  \A prefix \in Texts(2), key \in Texts(3) : Lists(prefix, key) <=> StartsWith(key, prefix, same)

\* memory_list finds the keys that start with the prefix, up to the case of
\* their letters, whatever wildcards and backslashes either holds: the three
\* replacements of line 458 leave nothing of the prefix to act as a pattern.
PrefixesMatch == MatchesAs(SameFolded)

\* memory_list finds the keys that start with the prefix as it is written,
\* as its docstring says (line 453).  False: LIKE ignores case.
PrefixesMatchExactly == MatchesAs(SameExactly)

====
