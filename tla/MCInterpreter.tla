---------------------------- MODULE MCInterpreter ----------------------------
(***************************************************************************)
(* Small programs for the run loop.  Pairs: every list of two substitution *)
(* rules over five left-hand sides and three right-hand sides.  Features:  *)
(* one program or more per operator, "::|" step, filter and error path.    *)
(***************************************************************************)
EXTENDS Interpreter, TLC

CONSTANTS a, b, x, s, e, stdin, stdout, proc, nowhere

\* s is the backslash: alone it is no regexp source, and it is doubled.
MCSymbol == {a, b, x, s, e}
MCMeta == {x, s}
MCPctDecode == <<a>> :> <<b, b>>
MCDoubled == <<s>> :> <<s, s>> @@ <<s, s>> :> <<s, s, s, s>>

MCResource == {stdin, stdout, proc, nowhere}
MCReadable == {stdin, proc}
MCWritable == {stdout, proc}
MCFlaky == {proc}
MCScript == stdin :> << <<a>>, <<b, a>> >> @@ proc :> << <<a>> >>
MCPctEncode == <<a>> :> <<a>> @@ <<b, a>> :> <<e, b, b, a>>
MCBuiltinTable == <<a>> :> <<b>> @@ <<a, b>> :> <<a>>
MCErrorMarker == [n \in MCResource |-> <<e>>]

-----------------------------------------------------------------------------
Hole(i, post) == [pre |-> <<>>, ref |-> i, filtered |-> FALSE, post |-> post]
Filtered(i) == [pre |-> <<>>, ref |-> i, filtered |-> TRUE, post |-> <<>>]
Literal(w) == [pre |-> w, ref |-> 0, filtered |-> FALSE, post |-> <<>>]

MakeRule(op, lhs, prefix, mids, rhs, res, code) ==
    [op |-> op, lhs |-> lhs, literalPrefix |-> prefix, mids |-> mids, rhs |-> rhs,
     res |-> res, specOK |-> TRUE, code |-> code,
     lhsLen |-> 1, rhsLen |-> Len(rhs.pre) + Len(rhs.post)]

Sub(lhs, prefix, rhs) == MakeRule("Substitute", lhs, prefix, <<>>, rhs, stdin, 0)
SubMid(lhs, prefix, mid, rhs) == MakeRule("Substitute", lhs, prefix, <<mid>>, rhs, stdin, 0)
Do(op, w, res) == MakeRule(op, <<Literal(w)>>, w, <<>>, Hole(1, <<>>), res, 0)
Stop(w, code) == MakeRule("Exit", <<Literal(w)>>, w, <<>>, Literal(<<>>), stdin, code)

LeftSides ==
    { <<<<Literal(<<a>>)>>, <<a>>>>,
      <<<<Literal(<<a, b>>)>>, <<a, b>>>>,
      <<<<Literal(<<a>>), Literal(<<b>>)>>, <<>>>>,
      <<<<Literal(<<a, a>>), Literal(<<a>>)>>, <<a>>>>,
      <<<<Literal(<<>>)>>, <<>>>> }

RightSides == {Literal(<<>>), Literal(<<b>>), Hole(1, <<a>>)}

SubRules == { Sub(l[1], l[2], r) : l \in LeftSides, r \in RightSides }

Pairs == { <<r, q>> : r \in SubRules, q \in SubRules }

Features ==
    { \* a "::|" step that needs the captured word followed by b
      << SubMid(<<Literal(<<a>>), Literal(<<b>>)>>, <<>>, <<Hole(1, <<b>>)>>, Hole(2, <<>>)),
         Sub(<<Literal(<<a>>)>>, <<a>>, Literal(<<b>>)) >>,
      \* a captured value that is not regexp source, and its quoted form
      << SubMid(<<Literal(<<x>>)>>, <<x>>, <<Hole(1, <<>>)>>, Literal(<<>>)) >>,
      << SubMid(<<Literal(<<x>>)>>, <<x>>, <<Filtered(1)>>, Literal(<<a>>)),
         SubMid(<<Literal(<<a>>)>>, <<a>>, <<Filtered(3)>>, Literal(<<>>)),
         Sub(<<Literal(<<a>>)>>, <<a>>, Literal(<<b>>)) >>,
      \* two steps, the second over the captures of the first
      << MakeRule("Substitute", <<Literal(<<a>>)>>, <<a>>,
                  << <<Literal(<<b>>)>>, <<Hole(2, <<a>>)>> >>, Hole(3, <<>>), stdin, 0),
         Stop(<<b>>, 3) >>,
      \* a captured backslash, put back unfiltered
      << Sub(<<Literal(<<s>>)>>, <<s>>, Hole(1, <<>>)) >>,
      \* filters and builtins in a replacement, with their refusals
      << Sub(<<Literal(<<a>>), Literal(<<b>>)>>, <<>>, Filtered(1)) >>,
      << MakeRule("Builtin", <<Literal(<<a, b>>), Literal(<<a>>)>>, <<a>>, <<>>,
                  Hole(1, <<>>), stdin, 0),
         MakeRule("Builtin", <<Literal(<<b>>)>>, <<b>>, <<>>, Hole(2, <<>>), stdin, 0) >>,
      \* reads: a script to its end, a bad specification, streams and unknown names
      << Do("Read", <<a>>, stdin), Do("Write", <<e>>, stdout), Stop(<<b>>, NotInteger) >>,
      << Do("Read", <<b>>, stdin), Sub(<<Literal(<<a>>)>>, <<a>>, Literal(<<b>>)) >>,
      << [Do("Read", <<a>>, stdin) EXCEPT !.specOK = FALSE] >>,
      << Do("Read", <<b>>, stdout), Do("Read", <<a>>, nowhere) >>,
      << Do("Read", <<a>>, proc), Do("Write", <<b>>, proc), Stop(<<e>>, 7) >>,
      << Do("Write", <<b>>, nowhere), Do("Write", <<a>>, stdin) >>,
      << [Do("Write", <<a>>, stdout) EXCEPT !.rhs = Filtered(2)] >>,
      << Do("Write", <<a>>, stdout), Stop(<<>>, 0) >> }

AllPrograms == Features \cup Pairs

MCInitialStates == { <<a>>, <<a, b>>, <<x, a>>, <<s>>, <<b, a, b>> }

MCLimits ==
    { [steps |-> 0, evals |-> Unlimited, bytes |-> Unlimited],
      [steps |-> 1, evals |-> 4, bytes |-> 4],
      [steps |-> 3, evals |-> Unlimited, bytes |-> 2],
      [steps |-> Unlimited, evals |-> 9, bytes |-> 5] }
=============================================================================
