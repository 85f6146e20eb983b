----------------------------- MODULE MCDataPath -----------------------------
(***************************************************************************)
(* Instances of the data path for TLC.                                     *)
(***************************************************************************)
EXTENDS DataPath

Vec(s) == [x \in 0 .. Len(s) - 1 |-> s[x + 1]]

Layer(in, out, weights, offsets, function) ==
    [in |-> in, out |-> out, weights |-> weights, bias |-> offsets, activation |-> function]

(* 5 -> 2, 2 -> 2 twice, 2 -> 3, 3 -> 1, and three that are wrong.         *)
MCLayers ==
    { Layer(5, 2, Vec(<<3, -2, 5, 1, 4, -6, 2, 1, -3, 7>>), Vec(<<1, -2>>), "relu"),
      Layer(2, 2, Vec(<<2, 5, -3, 4>>), Vec(<<-1, 3>>), "none"),
      Layer(2, 2, Vec(<<-2, 1, 6, -5>>), None, "relu"),
      Layer(2, 3, Vec(<<1, 2, -7, 3, 4, -1>>), Vec(<<0, 1, 2>>), "none"),
      Layer(3, 1, Vec(<<5, -6, 7>>), Vec(<<2>>), "none"),
      Layer(2, 2, None, None, "none"),
      Layer(2, 0, Vec(<< >>), None, "none"),
      Layer(2, 2, Vec(<<1, 1, 1, 1>>), None, "tanh") }

MCInputs == { Vec(<<5, -3, 2, 7, -1>>), Vec(<<-9, 4, 11, 0, 6>>) }

(* Matrices of up to nine columns                                          *)
MCShapes == {<<1, 1, 1>>, <<2, 3, 5>>, <<1, 4, 2>>, <<2, 6, 3>>, <<2, 9, 5>>, <<3, 4, 4>>}

MCPatterns == {<<3, -2, 5>>, <<7, -6, 1, 0, -4>>, <<-1, 2>>}
=============================================================================
