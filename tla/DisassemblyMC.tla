--------------------------- MODULE DisassemblyMC ---------------------------
(* The small instance of Disassembly: one column, three lines and two pages. *)
EXTENDS Disassembly

MCPage == {"none", "code", "cut"}
\* In "code" the walks back soon fall into step; "cut" ends within an instruction.
MCCode == [p \in MCPage |->
             CASE p = "none" -> <<>>
               [] p = "code" -> <<2, 1, 1, 2, 1, 1, 2, 1>>
               [] p = "cut" -> <<1, 2, 1, 2>>]
\* On the lower edge of the header, which a drag takes for the first line, and on the last line.
MCInside == {<<0, 2>>, <<0, 6>>}
=============================================================================
