------------------------------ MODULE Descriptions ------------------------------
(***************************************************************************)
(* What an image says about itself: color encodings with their profiles and *)
(* other forms, the layout of a profile, and the headers of a codestream.   *)
(* A behaviour picks one and leaves the others in an idle state.  What is   *)
(* given to them is open, with the values for model checking at the end.    *)
(***************************************************************************)
EXTENDS Integers, Sequences

CONSTANTS
  Whites, PrimarySets, Gammas, TransferFunctions, Intents,   (* ColorEncoding    *)
  Profiles, Externals, Streams, Lines, MaxOps,
  TextLengths, CopyrightLength, CurveEntries,                (* IccProfile       *)
  Extents, Depths, Types, Orientations, Targets, MaxCalls    (* Headers          *)

VARIABLES
  which,                                                     (* what it is about *)
  enc, dirty, ops,
  gray, curve, text, header, tagtable, tags, offsets, tag_offset, tag_size, todo, icc,
  m, size, sized, previewed, alphaSet, calls

encodingVars == <<enc, dirty, ops>>
profileVars == <<gray, curve, text, header, tagtable, tags, offsets, tag_offset,
                 tag_size, todo, icc>>
headerVars == <<m, size, sized, previewed, alphaSet, calls>>

C == INSTANCE ColorEncoding
I == INSTANCE IccProfile
H == INSTANCE Headers

ASSUME DescriptionsAssumption ==
  C!DescriptionAssumptions /\ I!Assumptions /\ H!Assumptions

IdleProfile == I!Init /\ ~gray /\ curve = "Table" /\ text = CHOOSE n \in TextLengths : TRUE
Init ==
  /\ C!Init /\ H!Init
  /\ \/ which \in {"encoding", "headers"} /\ IdleProfile
     \/ which = "profile" /\ I!Init

Next ==
  /\ which' = which
  /\ \/ which = "encoding" /\ C!NextWithText /\ UNCHANGED <<profileVars, headerVars>>
     \/ which = "profile" /\ I!Next /\ UNCHANGED <<encodingVars, headerVars>>
     \/ which = "headers" /\ H!Next /\ UNCHANGED <<encodingVars, profileVars>>

Spec == Init /\ [][Next]_<<which, encodingVars, profileVars, headerVars>>

(* Named here for the configuration; stated and explained in the modules.  *)
ProfileDescribesFields ==
  /\ which = "encoding" => C!TypeOK /\ C!ProfileDescribesFields
  /\ which = "profile" => I!TagsLocated
EncodingReadsBack == which = "encoding" => C!EncodingReadsBack
HeaderReadsBack == which = "headers" => H!HeaderReadsBack

-----------------------------------------------------------------------------
(* Coordinates are in millionths, gammas in ten millionths.                 *)
Unity == 10000000
Word(s) == [kind |-> "word", word |-> s]
SRGBPrimaries == <<<<640000, 330000>>, <<300000, 600000>>, <<150000, 60000>>>>
NearP3 == <<<<680050, 320000>>, <<265000, 689950>>, <<150000, 60000>>>>
Wide == <<<<734700, 265300>>, <<1159600, 840400>>, <<36600, 100>>>>
Flat == <<<<640000, 330000>>, <<640000, 330000>>, <<150000, 60000>>>>
TooFar == <<<<640000, 330000>>, <<3000000, 600000>>, <<150000, 60000>>>>
NoBlue == <<<<640000, 330000>>, <<300000, 600000>>, <<0, 60000>>>>
File(space, white, rgb, tf, ri) ==
  [valid |-> TRUE, space |-> space, white |-> white, rgb |-> rgb, tf |-> tf, ri |-> ri]
ProfilesRead ==
  {File("RGB", <<312700, 329060>>, NearP3, "PQ", "Rel"),
   File("RGB", <<345704, 358540>>, Wide, "Table", "Per"),
   File("Gray", <<314000, 351000>>, SRGBPrimaries, "SRGB", "Abs"),
   File("CMYK", <<345704, 358540>>, Wide, "Table", "Rel"),
   File("Lab", <<345704, 358540>>, SRGBPrimaries, "Linear", "Rel"),
   File("RGB", <<312700, 329060>>, NoBlue, "SRGB", "Rel"),
   File("RGB", <<312700, 329060>>, NearP3, "SRGB", "bad"),
   [File("Gray", <<312700, 329060>>, NearP3, "SRGB", "Rel") EXCEPT !.valid = FALSE]}
External(cs, wp, white, pr, rgb, tf, gamma) ==
  [cs |-> cs, wp |-> wp, white |-> white, pr |-> pr, rgb |-> rgb, tf |-> tf,
   gamma |-> gamma, ri |-> "Per"]
ExternalsGiven ==
  {External("RGB", "D65", <<0, 0>>, "2100", SRGBPrimaries, "HLG", 0),
   External("XYB", "E", <<0, 0>>, "none", SRGBPrimaries, "Gamma", 3333333),
   External("Gray", "Custom", <<345704, 358540>>, "none", SRGBPrimaries, "Gamma", 3846200),
   External("RGB", "Custom", <<312700, 329060>>, "Custom", Wide, "Gamma", 1000),
   External("RGB", "Custom", <<314000, 351000>>, "Custom", TooFar, "SRGB", 0),
   External("Unknown", "DCI", <<0, 0>>, "Custom", NearP3, "Unknown", 0),
   External("RGB", "none", <<0, 0>>, "SRGB", NearP3, "SRGB", 0),
   External("RGB", "D65", <<0, 0>>, "none", NearP3, "SRGB", 0)}
Fields(cs, wp, rest) == <<<<"want_icc", FALSE>>, <<"cs", cs>>, <<"wp", wp>>>> \o rest
StreamsRead ==
  {<<>>,
   <<<<"want_icc", TRUE>>, <<"cs", "XYB">>>>,
   <<<<"want_icc", TRUE>>, <<"cs", "Gray">>>>,
   <<<<"want_icc", FALSE>>, <<"cs", "XYB">>, <<"have_gamma", FALSE>>, <<"tf", "SRGB">>, <<"ri", "Rel">>>>,
   Fields("Gray", "Custom", <<<<"white", <<0, 329000>>>>, <<"have_gamma", TRUE>>, <<"gamma", Unity>>, <<"ri", "Abs">>>>),
   Fields("RGB", "DCI", <<<<"pr", "Custom">>, <<"rgb", Flat>>, <<"have_gamma", FALSE>>, <<"tf", "SRGB">>, <<"ri", "Abs">>>>),
   Fields("RGB", "E", <<<<"pr", "Custom">>, <<"rgb", NearP3>>, <<"have_gamma", TRUE>>, <<"gamma", 9999999>>, <<"ri", "Sat">>>>),
   Fields("RGB", "E", <<<<"pr", "P3">>, <<"have_gamma", TRUE>>, <<"gamma", 1220>>, <<"ri", "Sat">>>>),
   Fields("RGB", "E", <<<<"invalid", "pr">>>>),
   Fields("Unknown", "E", <<<<"pr", "P3">>, <<"have_gamma", FALSE>>, <<"tf", "PQ">>, <<"ri", "Sat">>>>)}
LinesRead ==
  {<<Word("Gra"), Word("D65"), Word("Rel"), Word("Lin")>>,
   <<Word("Gra"), [kind |-> "numbers", numbers |-> <<2000000>>], Word("Per"), [kind |-> "gamma", gamma |-> 4545455]>>,
   <<Word("RGB"), Word("Cst"), Word("202"), Word("Rel"), Word("PeQ")>>,
   <<Word("RGB"), Word("DCI"), Word("DCI"), Word("Rel"), Word("DCI")>>,
   <<Word("RGB"), Word("D65"), Word("SRG"), Word("Rel")>>,
   <<Word("RGB"), Word("D65"), Word("Cst"), Word("Rel"), Word("SRG")>>,
   <<Word("XYB"), Word("Per")>>, <<Word("XYB"), Word("Per"), Word("SRG")>>,
   <<Word("RGB"), Word("D65"), [kind |-> "numbers", numbers |-> <<640000, 330000, 300000, 600000, 150000, 60000>>], Word("Rel"), Word("SRG")>>}

(* White points and primaries near those with names, on the edge of what a  *)
(* field holds and beyond.                                                  *)
WhitesSet == {<<312760, 328950>>, <<345704, 358540>>, <<0, 300000>>, <<3000000, 329000>>, <<1234567, 20000>>}
PrimariesSet == {SRGBPrimaries, NearP3, Wide, Flat, TooFar, NoBlue}

(* Sizes with and without a ratio, in and out of blocks, at limits.         *)
ExtentsSet ==
  {<<7, 7>>, <<8, 16>>, <<256, 256>>, <<264, 256>>, <<12, 8>>, <<5441, 4353>>,
   <<19, 10>>, <<4352, 8>>, <<300000, 3>>}
=============================================================================
