------------------------------- MODULE MCPacker -------------------------------
(* Runs of Packer on small shops.  A floor is a whole shop: what its jobs,   *)
(* nozzles and spools are, what is on the board, who acts, and with what.    *)
EXTENDS Packer, TLC
VARIABLE scene

Brass == [dia |-> 4, mat |-> 1]
Steel == [dia |-> 4, mat |-> 2]
Either == [dia |-> 4, mat |-> Unset]

Fdm(len, due, grams, fits) ==
  [bed |-> FALSE, resin |-> FALSE, len |-> len, due |-> due, grams |-> grams, fits |-> fits,
   multicolor |-> FALSE, slots |-> {[fits |-> fits, grams |-> grams]}, tank |-> None, fed |-> None, need |-> Either]
Needing(f, kind) == [f EXCEPT !.need = kind]
Plate(f) == [f EXCEPT !.bed = TRUE]
Coloured(f, fits) == [f EXCEPT !.slots = {[fits |-> fits, grams |-> f.grams]}]
Multicolor(f) == [f EXCEPT !.multicolor = TRUE, !.slots = {[fits |-> {s}, grams |-> 1] : s \in f.fits}]
Resin(len, due, tank) ==
  [Fdm(len, due, 0, {}) EXCEPT !.resin = TRUE, !.tank = tank]

Row(status, p, n, s, e, take) ==
  [status |-> status, printer |-> p, nozzle |-> n, s |-> s, e |-> e, take |-> take]
Took(s, g) == [NoTake EXCEPT ![s] = g]
Ready(p, n, take) == Row("ready", p, n, 0, 0, take)

Nozzle(kind, fitted, mounts) == [kind |-> kind, fitted |-> fitted, mounts |-> mounts, damaged |-> FALSE]
Spool(initial, left) == [initial |-> initial, left |-> left, child |-> FALSE]

\* Two brass nozzles and a steel one, all fitting both printers.
Rack == <<Nozzle(Brass, 1, {1, 2}), Nozzle(Brass, 2, {1, 2}), Nozzle(Steel, None, {1})>>
Shelf == <<Spool(8, 8), Spool(8, 6)>>

RoundTheClock == [start |-> 0, latest |-> 0]
DayShift   == [start |-> 1, latest |-> 3]
NightShift == [start |-> 3, latest |-> 1]

Plan(dry, policy, gap, hours) ==
  [dry |-> dry, policy |-> policy, gap |-> gap, hours |-> hours, items |-> <<>>, asRun |-> FALSE]
Both(policy, gap, hours) == {Plan(TRUE, policy, gap, hours), Plan(FALSE, policy, gap, hours)}

\* How often each pack and each operator may begin something.
UpTo(packs, hands) ==
  LET one(S) == CHOOSE x \in S : TRUE
  IN  [a \in Actors |-> IF a \in Packs THEN packs[IF a = one(Packs) THEN 1 ELSE 2]
                       ELSE hands[IF a = one(Hands) THEN 1 ELSE 2]]

Floor(acts, jobs, board, plans, moves, clears, limit) ==
  [acts |-> acts, job |-> jobs, nozzle |-> Rack, spool |-> Shelf, board |-> board,
   plans |-> plans, moves |-> moves, clears |-> clears,
   limit |-> limit]

\* Nobody else acts: one block somewhere on the board, a plate and two pieces
\* to place, every policy and shift, with and without turnaround.
Quiet ==
  {Floor({"pack"},
     <<Fdm(2, 9, 2, {1}), Needing(Fdm(lenB, due, 2, {2}), Steel), Plate(Fdm(1, 6, 2, {1, 2})), Fdm(2, 3, 2, {2})>>,
     <<Ready(1, 1, IF reserved THEN Took(1, 2) ELSE NoTake), Ready(1, 3, Took(2, 2)),
       Ready(2, 2, Took(1, 2)), Row("scheduled", 2, 1, s, s + 2, Took(2, 2))>>,
     Both(policy, gap, hours), {}, {}, UpTo(<<2, 0>>, <<0, 0>>)) :
     lenB \in {1, 3}, due \in {4, Never}, s \in {1, 4}, reserved \in BOOLEAN, gap \in {0, 1},
     policy \in {"earliest", "keep_assigned", "minimise_changes"},
     hours \in {RoundTheClock, DayShift, NightShift}}

\* Resin: a piece and a plate that pour from one tank, and one without.
Pouring ==
  {Floor({"pack"},
     <<Resin(2, 9, 8), Resin(1, 4, IF linked THEN 8 ELSE None), Plate([Resin(1, 6, 9) EXCEPT !.fed = 9]), Resin(2, 3, 9)>>,
     <<Ready(1, None, NoTake), Ready(1, None, NoTake), Ready(2, None, NoTake),
       Row("scheduled", 2, None, 1, 3, NoTake)>>,
     Both("earliest", 0, RoundTheClock), {}, {}, UpTo(<<2, 0>>, <<0, 0>>)) : linked \in BOOLEAN}

\* Colours: a piece that asks for one of two, and a piece of both.
Painted ==
  {Floor({"pack"},
     <<IF one THEN Coloured(Fdm(2, 9, 2, {1, 2}), {2}) ELSE Multicolor(Fdm(2, 9, 2, {1, 2})),
       Fdm(2, 8, 2, {1}), Plate(Fdm(1, 6, 2, {1})), Fdm(2, 3, 2, {2})>>,
     <<Ready(1, 1, IF chosen THEN Took(2, 2) ELSE NoTake), Ready(1, 2, Took(1, 2)), Ready(2, 2, Took(1, 2)),
       Row("scheduled", 2, 1, 1, 3, Took(2, 2))>>,
     Both("earliest", 0, RoundTheClock), {}, {}, UpTo(<<2, 0>>, <<0, 0>>)) : one, chosen \in BOOLEAN}

\* Two pieces and a plate; an operator books and moves while a pack runs.
Trio(acts, plans, moves, clears, limit) ==
  Floor(acts,
    <<Fdm(2, 9, 2, {1}), Fdm(2, 8, 2, {2}), Plate(Fdm(1, 6, 2, {1})), Fdm(1, 9, 2, {2})>>,
    <<Ready(1, 1, Took(1, 2)), Ready(2, 1, NoTake), Ready(2, 2, Took(1, 2)),
      Row("scheduled", 1, 2, 1, 2, Took(2, 2))>>,
    plans, moves, clears, limit)

Earliest0 == {Plan(FALSE, "earliest", 0, RoundTheClock)}
AsRun == {[Plan(FALSE, "minimise_changes", 1, RoundTheClock) EXCEPT !.asRun = TRUE]}
At(j, s) == [job |-> j, s |-> s]

Moves == {<<At(3, 1)>>, <<At(2, 1)>>, <<At(1, 2), At(4, 3)>>}

Busy == {
  Trio({"pack", "hand"}, Earliest0, Moves, {}, UpTo(<<1, 0>>, <<2, 0>>)),
  Trio({"pack", "hand"}, Earliest0, Moves, {}, UpTo(<<1, 0>>, <<1, 1>>)),
  Trio({"pack", "equip"}, Earliest0, {}, {}, UpTo(<<1, 0>>, <<1, 1>>)),
  Trio({"pack", "hand", "clear", "shop"}, Earliest0, Moves, {{3, 4}}, UpTo(<<1, 0>>, <<2, 0>>)),
  Trio({"pack"}, Earliest0, {}, {}, UpTo(<<1, 1>>, <<0, 0>>)),
  Trio({"pack", "ends", "tick"}, AsRun, {}, {}, UpTo(<<2, 0>>, <<0, 0>>)),
  Trio({"hand", "equip", "tick"}, {}, {<<At(4, 2), At(1, 1)>>, <<At(3, 1)>>}, {}, UpTo(<<0, 0>>, <<2, 2>>))}

MCFloors == Quiet \cup Pouring \cup Painted \cup Busy

MCInit == PackerInit /\ scene = floor.acts
MCNext ==
  /\ \/ "pack" \in scene /\ PackNext
     \/ "ends" \in scene /\ PackEnds
     \/ "hand" \in scene /\ HandNext
     \/ "equip" \in scene /\ EquipNext
     \/ "clear" \in scene /\ ClearNext
     \/ "shop" \in scene /\ ShopNext
     \/ "tick" \in scene /\ Tick
  /\ UNCHANGED scene
MCSpec == MCInit /\ [][MCNext]_<<packerVars, scene>>
=============================================================================
