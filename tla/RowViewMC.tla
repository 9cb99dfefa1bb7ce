----------------------------- MODULE RowViewMC -----------------------------
(* The small instance of RowView: two columns in 12 pixels, three lines. *)
EXTENDS RowView

MCInside == {<<0, 1>>, <<5, 1>>, <<0, 3>>, <<5, 6>>}
MCOutside == {<<-1, 3>>, <<8, 1>>}
=============================================================================
