---------------------------- MODULE MCPureFunctions ----------------------------
(***************************************************************************)
(* The inputs of PureFunctions: tokens that meet every case of prefix.py,  *)
(* rows with aliases that use each other, bytes each codec treats apart,   *)
(* numbers with equal values of different spellings, and pull requests on  *)
(* two problems, of which one ruleset solves both.                         *)
(***************************************************************************)
EXTENDS PrefixInputs, TLC

MCLetter == {"a", "b", "A"}
MCVariants == "a" :> {"a", "A"} @@ "A" :> {"a", "A"} @@ "b" :> {"b"}
Class(negated, ranged, posix, runes) ==
    [negated |-> negated, ranged |-> ranged, posix |-> posix, runes |-> runes]
MCClassOf ==
    "[a]" :> Class(FALSE, FALSE, FALSE, <<"a">>)
    @@ "[ab]" :> Class(FALSE, FALSE, FALSE, <<"a", "b">>)
    @@ "[^a]" :> Class(TRUE, FALSE, FALSE, <<"a">>)
    @@ "[\\s\\S]" :> Class(FALSE, FALSE, TRUE, <<>>)
MCEscapeOf == "\\x61" :> "a"
MCSpelling ==
    "{2}" :> <<"{", "2", "}">> @@ "{1,2}" :> <<"{", "1", ",", "2", "}">>
    @@ "{0}" :> <<"{", "0", "}">> @@ "{1}" :> <<"{", "1", "}">>
    @@ "{2,}" :> <<"{", "2", ",", "}">> @@ "ab" :> <<"a", "b">>

AllTokens ==
    {"a", "b", "[a]", "[ab]", "\\x61", ".", "^", "$", "|", "(", "(?:", "(?m)", "(?i)",
     ")", "*", "+", "{2}", "{1,2}", "?"}

\* Groups, alternatives and repetitions of the same few letters, in longer patterns.
Grouping == {"a", "b", "|", "(", "(?P<n>", ")", "?", "{2}"}

Counting == {"a", "b", "|", "(", "(?:", ")", "{0}", "{1}", "{2,}", "?"}

Quoting == {"a", "b", "\\Q", "\\E", "{2}", "*"}

Anchoring == {"a", "^", "\\A", "$", "[\\s\\S]", "*", ")", "(?:", "(?mi)"}

MCPatternSet ==
    { [tokens |-> AllTokens, max |-> 4], [tokens |-> Grouping, max |-> 6],
      [tokens |-> Counting, max |-> 5],
      [tokens |-> Quoting, max |-> 5], [tokens |-> Anchoring, max |-> 5] }

QuotingSet == { [tokens |-> Quoting, max |-> 5] }

-----------------------------------------------------------------------------
MCAliasName == {"$A", "$B"}
MCCapture == "(?P<n>.)" :> "n"
MCArity == "eq" :> 2 @@ "num" :> 1
MCBadAlias == "<|A|>"
MCUnbalanced == {"("}
MCSyntaxError == {"?"}

MCLineUnit == {"a", "::", "=", "|", "!", "\\", " "}

Plain(text) == [name |-> "", text |-> text]
Define(name, text) == [name |-> name, text |-> <<name \o " <-">> \o text]

MCSourceRow ==
    { Define("$A", <<" ", "a">>),
      Define("$A", <<" ", "(?P<n>.)">>),
      Define("$A", <<"a", "::", "|", "a">>),
      Define("$A", <<"a", "::", "=", "a">>),
      Define("$B", <<" ", "$A", "$A", " ">>),
      Define("$B", <<"\\", "$A">>),
      Plain(<<"$B", "::", "=", " ", "$A", " ">>),
      Plain(<<" ", "a", "::", "|", "$A", "::", ">", "a", "::", "=">>),
      Plain(<<"(?P<n>.)", "::", "!", "num", " ", "n">>),
      Plain(<<"(?P<n>.)", "::", "!", "eq", " ", "n">>),
      Plain(<<"(", "::", "=">>),
      Plain(<<" ", "::", "-", "a">>),
      Plain(<<"a", "::", "|", "a">>),
      Plain(<<"a", "::", "?", "a">>),
      Plain(<<"<|A|>", "::", "=">>),
      Plain(<<"a", " ">>),
      Plain(<<" ">>),
      Plain(<<" ", "::", "=">>) }

-----------------------------------------------------------------------------
\* % 5 A \ n ", the two bytes of e acute, and the newline.
MCPayloadByte == {37, 50, 53, 65, 67, 92, 110, 34, 195, 169, 10}

Number(minus, of, up, down) == [minus |-> minus, kind |-> of, up |-> up, down |-> down]

MCOperand ==
    { Number(m, "integer", n, 0) : m \in BOOLEAN, n \in 0 .. 3 }
    \cup { Number(m, "decimal", n, d) : m \in BOOLEAN, n \in 0 .. 1, d \in {0, 2, 5} }
    \cup { Number(m, "fraction", n, d) : m \in BOOLEAN, n \in 0 .. 2, d \in 0 .. 4 }

MCKey == { <<"p", "direct">>, <<"p", "forth">>, <<"q", "forth">> }
=============================================================================
