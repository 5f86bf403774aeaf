------------------------------ MODULE MCShell ------------------------------
(* Shell with commands of one letter and a disk for one file; the lines    *)
(* are all short ones over the letters a write needs and the space, and    *)
(* one for every other way through the commands.                           *)
EXTENDS Shell

MCNamed == [echo |-> <<"e">>, touch |-> <<"t">>, cat |-> <<"c">>,
            write |-> <<"w">>, rm |-> <<"r">>, mkfs |-> <<"m">>,
            print |-> <<"p">>]

Short == UNION {[1 .. n -> {"w", "x", Space}] : n \in 0 .. 5}

MCLine ==
  Short
    \cup {<<c>> : c \in {"e", "t", "c", "r", "m", "p"}}
    \cup {<<c, Space, f>> : c \in {"e", "t", "c", "r"}, f \in {"w", "x"}}
    \cup {<<"w", Space, "x", Space, "w", Space, "x", Space, "w">>,
          <<"w", Space, "x", Space, "w", "x">>,
          <<"w", Space, "x", Space, "w", Space>>,
          <<Space, "e", Space, Space, "x", "c", Space, "e", Space>>,
          <<"c", "c", Space, "x">>, <<"t", Space, "x", "x">>}
=============================================================================
