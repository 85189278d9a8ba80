------------------------------ MODULE MCClients ------------------------------
(***************************************************************************)
(* The parts of Clients on small instances.  A behaviour here is one of    *)
(* the part named by `part', the others stay in their initial states.      *)
(***************************************************************************)
EXTENDS Clients

\* Records with key and value lengths at the limits of their fields, and a tree that
\* does not fit them.
Kv(k, n, v, m) == [key |-> k, key_len |-> n, val |-> v, val_len |-> m]
TreesV == {<<Kv("a", 1, "x", 3), Kv("b", 1, "", 0), Kv("c", 255, "z", 65535)>>,
           <<Kv("a", 1, "y", 3), Kv("c", 256, "z", 4)>>,
           <<Kv("a", 1, "", 0), Kv("b", 1, "x", 3)>>}

\* Two tags and two versions, and what asks for any tag, for any version, for any file.
TagsV == {[tag |-> "s", ver |-> 1], [tag |-> "s", ver |-> 2], [tag |-> "u", ver |-> 1],
          [tag |-> "", ver |-> 1], [tag |-> "s", ver |-> 0], [tag |-> "", ver |-> 0]}

\* A command and the word that ends the program.
CommandsV == {<<"a">>}
QuitV == <<"q">>

\* -1, which is no descriptor.
NoFdV == -1

\* Frames: in every one both ends of the range and every residue of the samples occur.
\* For the full-size conversion they are 0..1023; for the other one words whose unused upper
\* bits may be set.
Sizes == {<<2, 2>>, <<2, 6>>, <<6, 4>>, <<18, 4>>, <<26, 6>>}
Seeds == 0..12
Mix(s, t, x, y) == s * 397 + 211 * x * x + 89 * y * t + 57 * x * y
Raw10(k) == CASE k % 11 = 0 -> 0 [] k % 11 = 1 -> 1021 + (k % 3) [] OTHER -> k % 1024
Word(k) ==
  CASE k % 7 = 0 -> 0 [] k % 7 = 1 -> 1023 [] k % 7 = 2 -> 65535 - (k % 5)
    [] k % 7 = 3 -> 64512 + (k % 1024) [] OTHER -> k % 1024
Samples(size, Of(_, _)) ==
  [p \in (0..(size[1] - 1)) \X (0..(size[2] - 1)) |-> Of(p[1], p[2])]
BayerFramesV ==
  {[size |-> z, raw |-> LET of(x, y) == Raw10(Mix(s, s + 1, x, y)) IN Samples(z, of)]
     : z \in Sizes, s \in Seeds}
Rg10FramesV ==
  {[size |-> z, gain |-> g,
    raw |-> LET of(x, y) == Word(Mix(s + 1, s + 3, x, y)) IN Samples(z, of)]
     : z \in {<<8, 8>>, <<40, 16>>, <<64, 8>>},
       g \in {<<4, 4, 4>>, <<6, 3, 4>>, <<64, 0, 5>>}, s \in 0..10}

VARIABLE part

allVars == <<part, eVars, dVars, lVars, cVars, rVars, gVars, vVars, sVars, kVars, yVars,
            qVars>>

Parts == {"ev", "dummy1", "cli", "ev3", "rfcomm", "gatt", "v4l2",
          "rtsp", "settings", "bayer", "rg10"}

PartsInit ==
  /\ part \in Parts
  /\ E!Init /\ D!Init /\ L!Init /\ C!Init /\ R!Init /\ G!Init
  /\ V!Init /\ S!Init /\ K!Init /\ Y!Init /\ Q!Init

\* Part p moves and no other.
Only(p) ==
  /\ part = p /\ UNCHANGED part
  /\ p # "ev" => UNCHANGED eVars
  /\ p # "dummy1" => UNCHANGED dVars
  /\ p # "cli" => UNCHANGED lVars
  /\ p # "ev3" => UNCHANGED cVars
  /\ p # "rfcomm" => UNCHANGED rVars
  /\ p # "gatt" => UNCHANGED gVars
  /\ p # "v4l2" => UNCHANGED vVars
  /\ p # "rtsp" => UNCHANGED sVars
  /\ p # "settings" => UNCHANGED kVars
  /\ p # "bayer" => UNCHANGED yVars
  /\ p # "rg10" => UNCHANGED qVars

PartsNext ==
  \/ Only("ev") /\ E!Next
  \/ Only("dummy1") /\ D!Next
  \/ Only("cli") /\ L!Next
  \/ Only("ev3") /\ C!Next
  \/ Only("rfcomm") /\ R!Next
  \/ Only("gatt") /\ G!Next
  \/ Only("v4l2") /\ V!Next
  \/ Only("rtsp") /\ S!Next
  \/ Only("settings") /\ K!Next
  \/ Only("bayer") /\ Y!Next
  \/ Only("rg10") /\ Q!Next

PartsSpec == PartsInit /\ [][PartsNext]_allVars
=============================================================================
