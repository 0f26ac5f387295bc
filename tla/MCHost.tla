------------------------------- MODULE MCHost -------------------------------
(***************************************************************************)
(* Host for TLC.  The files have every kind of record at the edges of      *)
(* memory, of the address space and of the line buffer, lines longer than  *)
(* the buffer, and each way a line can be broken; the running core has an  *)
(* instruction with an operand in program space that faults or traps, and  *)
(* the host sets A7 odd and takes its snapshots inside steps too.          *)
(***************************************************************************)
EXTENDS Host

NoHostBus == {}
BusSize == 16777216

Rec(type, count, addr, words, len) ==
    [mark |-> TRUE, len |-> len, type |-> type, count |-> count, hex |-> TRUE, sum |-> TRUE,
     addr |-> addr, words |-> words]
Srec(type, count, addr) == Rec(type, count, addr, <<0, 0>>, 4 + 2 * count)
Ihex(type, count, addr, words) == Rec(type, count, addr, words, 11 + 2 * count)

\* A line that fits, and one of a buffer-full or more with what is left of it.
Whole(few) == {<<l>> : l \in few}
Long(l, rest, buffer) == <<[l EXCEPT !.len = buffer - 1 + rest.len], rest>>

\* A record of 253 bytes is the longest that fits; those of 254 and 255 are cut.  Other
\* lines go on with a record of their own, and one does so twice.
FewSrecLines ==
    LET data == Srec(1, 5, 2)
        entry9 == Srec(9, 3, 8)
        none == [Srec(0, 0, 0) EXCEPT !.mark = FALSE]
    IN  Whole({data, Srec(1, 4, 3), Srec(2, 6, 1), Srec(3, 7, BusSize - 1), Srec(3, 8, BusSize + 2),
               Srec(0, 5, 0), Srec(5, 3, 1), Srec(6, 5, 0), Srec(1, 2, 0), Srec(2, 3, 0),
               Srec(7, 5, BusSize + 4), Srec(8, 4, 6), entry9, Srec(9, 2, 2),
               [data EXCEPT !.hex = FALSE], [data EXCEPT !.sum = FALSE],
               [data EXCEPT !.mark = FALSE], [data EXCEPT !.len = @ - 1],
               [data EXCEPT !.len = @ + 3], [data EXCEPT !.len = 3]})
        \cup {Long(Srec(9, 253, 65535), [none EXCEPT !.len = 0], L!SrecBuffer),
              Long(Srec(1, 254, 1), [none EXCEPT !.len = 1], L!SrecBuffer),
              Long(Srec(1, 255, 1), [none EXCEPT !.len = 3], L!SrecBuffer),
              Long(Srec(0, 5, 0), Srec(1, 4, 3), L!SrecBuffer),
              Long([data EXCEPT !.mark = FALSE], entry9, L!SrecBuffer),
              Long(entry9, data, L!SrecBuffer),
              <<[data EXCEPT !.len = 1032]>> \o Long(Srec(2, 6, 1), entry9, L!SrecBuffer)}

FewIhexLines ==
    LET data == Ihex(0, 2, 3, <<0, 0>>)
        end == Ihex(1, 0, 0, <<0, 0>>)
    IN  Whole({data, Ihex(0, 1, 0, <<0, 0>>), Ihex(0, 3, 65534, <<0, 0>>), Ihex(0, 9, 1, <<0, 0>>),
               Ihex(0, 0, 0, <<0, 0>>), end,
               Ihex(2, 2, 0, <<1, 0>>), Ihex(4, 2, 0, <<255, 0>>), Ihex(4, 2, 0, <<256, 0>>),
               Ihex(2, 1, 0, <<1, 0>>), Ihex(4, 4, 0, <<1, 0>>),
               Ihex(3, 4, 0, <<1, 4>>), Ihex(5, 4, 0, <<1, 6>>), Ihex(3, 2, 0, <<1, 4>>),
               Ihex(5, 3, 0, <<1, 6>>), Ihex(6, 0, 0, <<0, 0>>),
               [data EXCEPT !.hex = FALSE], [data EXCEPT !.sum = FALSE],
               [data EXCEPT !.mark = FALSE], [data EXCEPT !.len = @ - 1], [data EXCEPT !.len = 10]})
        \cup {Long(data, [data EXCEPT !.mark = FALSE], L!IhexBuffer),
              Long([data EXCEPT !.mark = FALSE], Ihex(0, 1, 0, <<0, 0>>), L!IhexBuffer),
              Long(Ihex(0, 9, 1, <<0, 0>>), Ihex(4, 2, 0, <<255, 0>>), L!IhexBuffer),
              Long([data EXCEPT !.sum = FALSE], end, L!IhexBuffer),
              Long(Ihex(2, 2, 0, <<1, 0>>), Ihex(3, 4, 0, <<1, 4>>), L!IhexBuffer)}
=============================================================================
