------------------------------ MODULE ConsoleMC -----------------------------
(* The small instance of Console: bytes of one bit, a uint of four bits. *)
EXTENDS Console

MCWord == ReservedWords \cup {"x", "y", "odd"}
MCValue == 0 .. 15
MCHexWord == [a |-> 10]
MCApi == [api |-> 9]

Assign(dest, src) == dest \o <<Equal>> \o src
Eax == <<Name("eax")>>
X == <<Name("x")>>
Where == <<At(1), Num(1)>>

MCOdd == Where :> "odd"

\* mov eax,7; ah=x; al++; x|=1+4; x=~(eax+api; ax=@2:15; @1:12=eax; @2:11=2; @1:1=1;
\* !cf=x; $pid=3; a=3; var x,a-3; vardel x
MCLine ==
  { Mov(Eax, <<Num(7)>>),
    Assign(<<Name("ah")>>, X),
    <<Name("al"), Op("+"), Op("+")>>,
    Assign(X \o <<Op("|")>>, <<Num(1), Op("+"), Num(4)>>),
    Assign(X, <<Op("~"), Op("("), Name("eax"), Op("+"), Name("api")>>),
    Assign(<<Name("ax")>>, <<At(2), Num(15)>>),
    Assign(<<At(1), Num(12)>>, Eax),
    Assign(<<At(2), Num(11)>>, <<Num(2)>>),
    Assign(Where, <<Num(1)>>),
    Assign(<<FlagName("cf")>>, X),
    Assign(<<Dollar("pid")>>, <<Num(3)>>),
    Assign(<<Name("a")>>, <<Num(3)>>),
    <<Command("var"), Name("x"), Comma, Name("a"), Op("-"), Num(3)>>,
    <<Command("vardel"), Name("x")>> }
=============================================================================
