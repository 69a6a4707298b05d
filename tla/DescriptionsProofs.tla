---------------------------- MODULE DescriptionsProofs ----------------------------
(***************************************************************************)
(* The descriptions of colors, for every value of the constants.  The      *)
(* first half is about ColorEncoding: whatever calls are made on an        *)
(* encoding, its profile describes its fields, or it was marked as stale.  *)
(* The second is about IccProfile: the bytes of a profile are where its    *)
(* header and its table say they are.  A color encoding has 14 fields and  *)
(* a call changes a few, so the proofs speak of encodings that are alike   *)
(* but for some fields; a profile is laid out tag by tag, so the invariant *)
(* speaks of what the first d tags have left in the two buffers.           *)
(***************************************************************************)
EXTENDS Descriptions, SequenceTheorems, FiniteSetTheorems, WellFoundedInduction, TLAPS

Names == {"cs", "wp", "white", "pr", "rgb", "have_gamma", "gamma", "tf", "tfcs", "ri",
          "want_icc", "have_fields", "cmyk", "icc"}
Whole(c) == c = [f \in Names |-> c[f]]

(* Assigning one field of a color encoding leaves the others.               *)
LEMMA Updated ==
  ASSUME NEW c, Whole(c), NEW f \in Names, NEW v
  PROVE  /\ Whole([c EXCEPT ![f] = v])
         /\ [c EXCEPT ![f] = v][f] = v
         /\ \A g \in Names : g # f => [c EXCEPT ![f] = v][g] = c[g]
BY DEF Whole

(* Truth values as members of records, which the provers tell from formulas. *)
Yes == TRUE
No == FALSE

LEMMA NotNo == (~No) = Yes /\ Yes /\ ~No /\ Yes # No
BY Zenon DEF Yes, No

(* d is c but for some fields.                                             *)
Keeps(c, d, changed) == Whole(d) /\ \A g \in Names \ changed : d[g] = c[g]

(* What two changes leave alone, both together leave alone.                 *)
LEMMA KeepsOn ==
  ASSUME NEW c, NEW d, NEW e, NEW F, NEW G, Keeps(c, d, F), Keeps(d, e, G)
  PROVE  Keeps(c, e, F \cup G)
BY DEF Keeps

(* The names of the fields, one by one.                                     *)
LEMMA Names14 ==
  /\ "cs" \in Names /\ "wp" \in Names /\ "white" \in Names /\ "pr" \in Names
  /\ "rgb" \in Names /\ "have_gamma" \in Names /\ "gamma" \in Names /\ "tf" \in Names
  /\ "tfcs" \in Names /\ "ri" \in Names /\ "want_icc" \in Names
  /\ "have_fields" \in Names /\ "cmyk" \in Names /\ "icc" \in Names
BY DEF Names

With(c, f, v) == [c EXCEPT ![f] = v]

(* The two forms an assignment takes in the proofs: of one field, ...       *)
LEMMA WithIs ==
  ASSUME NEW c, Whole(c), NEW f \in Names, NEW v
  PROVE  Whole(With(c, f, v)) /\ Keeps(c, With(c, f, v), {f}) /\ With(c, f, v)[f] = v
BY Updated DEF Keeps, With

(* ... and of two, one after the other.                                     *)
LEMMA With2 ==
  ASSUME NEW c, Whole(c), NEW f \in Names, NEW v, NEW g \in Names, NEW w, f # g,
         NEW d, d = With(With(c, f, v), g, w)
  PROVE  Whole(d) /\ Keeps(c, d, {f, g}) /\ d[f] = v /\ d[g] = w
<1> DEFINE e == With(c, f, v)
<1>1. Whole(e) /\ Keeps(c, e, {f}) /\ e[f] = v
  BY WithIs
<1> HIDE DEF e
<1>2. Keeps(e, With(e, g, w), {g}) /\ With(e, g, w)[g] = w
  BY <1>1, WithIs
<1>3. d = With(e, g, w)
  BY DEF e
<1> QED
  BY <1>1, <1>2, <1>3 DEF Keeps

(* SetTransferFunction assigns the curve and drops the gamma.               *)
LEMMA SetTf ==
  ASSUME NEW c, Whole(c), NEW tf, NEW d, d = C!SetTransferFunction(c, tf)
  PROVE  Keeps(c, d, {"have_gamma", "tf"}) /\ d.have_gamma = No /\ d.tf = tf
<1>1. d = With(With(c, "have_gamma", No), "tf", tf)
  BY Zenon DEF C!SetTransferFunction, No, With
<1> QED
  BY <1>1, With2, Names14

(* SetColorSpace assigns the space the curve is for, too.                   *)
LEMMA SetCs ==
  ASSUME NEW c, Whole(c), NEW cs, NEW d, d = C!SetColorSpace(c, cs)
  PROVE  Keeps(c, d, {"cs", "tfcs"}) /\ d.cs = cs /\ d.tfcs = cs
<1>1. d = With(With(c, "cs", cs), "tfcs", cs)
  BY Zenon DEF C!SetColorSpace, With
<1> QED
  BY <1>1, With2, Names14

(* The two outcomes of a call that may fail.                                *)
LEMMA Results ==
  ASSUME NEW c
  PROVE  /\ C!Ok(c).ok = Yes /\ C!Ok(c).c = c
         /\ C!Failure(c).ok = No /\ C!Failure(c).c = c
BY DEF C!Ok, C!Failure, Yes, No

-------------------------------------------------------------------------------
Whites3 == {"D65", "E", "DCI"}
WpOf(xy) == IF C!NearWhites(xy) = {} THEN "Custom" ELSE CHOOSE wp \in C!NearWhites(xy) : TRUE
WhiteOk(xy) ==
  /\ xy[1] # 0 /\ xy[2] # 0
  /\ C!NearWhites(xy) = {} => C!Encodable(xy[1]) /\ C!Encodable(xy[2])

LEMMA WpOfIs == ASSUME NEW xy PROVE WpOf(xy) \in Whites3 \cup {"Custom"}
BY DEF WpOf, C!NearWhites, Whites3

(* A number that may be encoded is within the bounds.                       *)
LEMMA EncodableIs == ASSUME NEW n \in Int, C!Encodable(n) PROVE C!InBounds(n)
BY SMT DEF C!Encodable, C!InBounds

LEMMA CustomIs ==
  ASSUME NEW old \in C!Xy, NEW xy \in C!Xy, NEW set, set = C!CustomSet(old, xy)
  PROVE  /\ set.ok <=> (C!Encodable(xy[1]) /\ C!Encodable(xy[2]))
         /\ set.xy \in C!Xy /\ (set.ok => set.xy = xy)
<1>0. xy[1] \in Int /\ xy[2] \in Int /\ xy = <<xy[1], xy[2]>> /\ old[1] \in Int /\ old[2] \in Int
  BY DEF C!Xy
<1>1. C!Encodable(xy[1]) => C!InBounds(xy[1])
  BY <1>0, EncodableIs
<1>2. C!Encodable(xy[2]) => C!InBounds(xy[2])
  BY <1>0, EncodableIs
<1>3. set.ok <=> (C!Encodable(xy[1]) /\ C!Encodable(xy[2]))
  BY <1>1, <1>2 DEF C!CustomSet
<1>4. set.xy \in C!Xy /\ (C!Encodable(xy[1]) /\ C!Encodable(xy[2]) => set.xy = xy)
  BY <1>0, <1>1, <1>2 DEF C!CustomSet, C!Xy
<1> QED
  BY <1>3, <1>4

(* SetWhitePoint makes the numbers Custom, or an enumerated point near      *)
(* them.                                                                    *)
LEMMA SetWhite ==
  ASSUME NEW c, Whole(c), c.white \in C!Xy, NEW xy \in C!Xy,
         NEW r, r = C!SetWhitePoint(c, xy)
  PROVE  /\ r.ok <=> WhiteOk(xy)
         /\ Keeps(c, r.c, {"wp", "white"}) /\ r.c.white \in C!Xy
         /\ r.c.wp = c.wp \/ r.c.wp = WpOf(xy)
         /\ WhiteOk(xy) => /\ r.c.wp = WpOf(xy)
                           /\ r.c.white = IF WpOf(xy) = "Custom" THEN xy ELSE c.white
<1> DEFINE set == C!CustomSet(c.white, xy)
<1>3. set.ok <=> (C!Encodable(xy[1]) /\ C!Encodable(xy[2]))
  BY CustomIs
<1>4. set.xy \in C!Xy /\ (C!Encodable(xy[1]) /\ C!Encodable(xy[2]) => set.xy = xy)
  BY CustomIs
<1>5. CASE xy[1] = 0 \/ xy[2] = 0
  <2>1. r = C!Failure(c)
    BY <1>5, SMT DEF C!SetWhitePoint
  <2>2. ~WhiteOk(xy) /\ Keeps(c, c, {"wp", "white"})
    BY <1>5 DEF WhiteOk, Keeps
  <2> QED
    BY <2>1, <2>2, Results, NotNo
<1>6. CASE xy[1] # 0 /\ xy[2] # 0 /\ C!NearWhites(xy) # {}
  <2>1. r = C!Ok(With(c, "wp", WpOf(xy)))
    BY <1>6, Zenon DEF C!SetWhitePoint, WpOf, With
  <2>2. WhiteOk(xy) /\ WpOf(xy) # "Custom"
    BY <1>6 DEF WhiteOk, WpOf, C!NearWhites, Whites3
  <2>3. Keeps(c, With(c, "wp", WpOf(xy)), {"wp"}) /\ With(c, "wp", WpOf(xy)).wp = WpOf(xy)
    BY WithIs, Names14
  <2>4. r.ok /\ r.c = With(c, "wp", WpOf(xy))
    BY <2>1, Results, NotNo
  <2> QED
    BY <2>2, <2>3, <2>4, Names14 DEF Keeps
<1>7. CASE xy[1] # 0 /\ xy[2] # 0 /\ C!NearWhites(xy) = {}
  <2> HIDE DEF set
  <2> DEFINE d == With(With(c, "wp", "Custom"), "white", set.xy)
  <2>1. r = [ok |-> set.ok, c |-> d]
    BY <1>7, Zenon DEF C!SetWhitePoint, With, set
  <2>2. WpOf(xy) = "Custom" /\ (WhiteOk(xy) <=> set.ok)
    BY <1>3, <1>7 DEF WhiteOk, WpOf
  <2>3. Keeps(c, d, {"wp", "white"}) /\ d.wp = "Custom" /\ d.white = set.xy
    <3> DEFINE w == set.xy
    <3>1. d = With(With(c, "wp", "Custom"), "white", w)
      OBVIOUS
    <3> HIDE DEF d, w
    <3>2. Keeps(c, d, {"wp", "white"}) /\ d["wp"] = "Custom" /\ d["white"] = w
      BY <3>1, With2, Names14
    <3> QED
      BY <3>2 DEF w
  <2> HIDE DEF d
  <2>4. (r.ok <=> set.ok) /\ r.c = d
    BY <2>1
  <2> QED
    BY <2>2, <2>3, <2>4, <1>3, <1>4
<1> QED
  BY <1>5, <1>6, <1>7

PrOf(rgb) ==
  IF C!NearPrimaries(rgb) = {} THEN "Custom" ELSE CHOOSE pr \in C!NearPrimaries(rgb) : TRUE
PrimsOk(rgb) ==
  /\ \A k \in 1 .. 3 : rgb[k][1] # 0 /\ rgb[k][2] # 0
  /\ C!NearPrimaries(rgb) = {} =>
       \A k \in 1 .. 3 : C!Encodable(rgb[k][1]) /\ C!Encodable(rgb[k][2])

LEMMA PrOfIs == ASSUME NEW rgb PROVE PrOf(rgb) \in {"SRGB", "2100", "P3", "Custom"}
BY DEF PrOf, C!NearPrimaries

(* SetPrimaries does the same with the three primaries.                     *)
LEMMA SetPrims ==
  ASSUME NEW c, Whole(c), c.rgb \in C!Rgb, NEW rgb \in C!Rgb,
         NEW r, r = C!SetPrimaries(c, rgb)
  PROVE  /\ r.ok <=> PrimsOk(rgb)
         /\ Keeps(c, r.c, {"pr", "rgb"}) /\ r.c.rgb \in C!Rgb
         /\ r.c.pr = c.pr \/ r.c.pr = PrOf(rgb)
         /\ PrimsOk(rgb) => /\ r.c.pr = PrOf(rgb)
                            /\ r.c.rgb = IF PrOf(rgb) = "Custom" THEN rgb ELSE c.rgb
<1> DEFINE Set(k) == C!PrimarySet(c.rgb, rgb, k)
<1>1. \A k \in 1 .. 3 :
        /\ Set(k).ok <=> (C!Encodable(rgb[k][1]) /\ C!Encodable(rgb[k][2]))
        /\ Set(k).xy \in C!Xy /\ (Set(k).ok => Set(k).xy = rgb[k])
  <2> TAKE k \in 1 .. 3
  <2>1. c.rgb[k] \in C!Xy /\ rgb[k] \in C!Xy
    BY DEF C!Rgb
  <2> QED
    BY <2>1, CustomIs DEF C!PrimarySet
<1>2. CASE \E k \in 1 .. 3 : rgb[k][1] = 0 \/ rgb[k][2] = 0
  <2>1. r = C!Failure(c)
    BY <1>2, Zenon DEF C!SetPrimaries
  <2>2. ~PrimsOk(rgb) /\ Keeps(c, c, {"pr", "rgb"})
    BY <1>2 DEF PrimsOk, Keeps
  <2> QED
    BY <2>1, <2>2, Results, NotNo
<1>3. CASE /\ \A k \in 1 .. 3 : ~(rgb[k][1] = 0 \/ rgb[k][2] = 0)
           /\ C!NearPrimaries(rgb) # {}
  <2>1. r = C!Ok(With(c, "pr", PrOf(rgb)))
    BY <1>3, Zenon DEF C!SetPrimaries, PrOf, With
  <2>2. PrimsOk(rgb) /\ PrOf(rgb) # "Custom"
    BY <1>3 DEF PrimsOk, PrOf, C!NearPrimaries
  <2>3. Keeps(c, With(c, "pr", PrOf(rgb)), {"pr"}) /\ With(c, "pr", PrOf(rgb)).pr = PrOf(rgb)
    BY WithIs, Names14
  <2>4. r.ok /\ r.c = With(c, "pr", PrOf(rgb))
    BY <2>1, Results, NotNo
  <2> QED
    BY <2>2, <2>3, <2>4, Names14 DEF Keeps
<1>4. CASE /\ \A k \in 1 .. 3 : ~(rgb[k][1] = 0 \/ rgb[k][2] = 0)
           /\ C!NearPrimaries(rgb) = {}
  <2> DEFINE new == C!CustomPrimaries(c.rgb, rgb)
  <2> DEFINE all == C!Reached(c.rgb, rgb, 4)
  <2>1. new \in C!Rgb
    BY <1>1 DEF C!CustomPrimaries, C!Rgb
  <2>2. all <=> \A k \in 1 .. 3 : C!Encodable(rgb[k][1]) /\ C!Encodable(rgb[k][2])
    BY <1>1 DEF C!Reached
  <2>3. all => new = rgb
    <3> SUFFICES ASSUME all PROVE new = rgb
      OBVIOUS
    <3>1. \A k \in 1 .. 3 : Set(k).ok
      BY DEF C!Reached
    <3>2. \A k \in 1 .. 3 : C!Reached(c.rgb, rgb, k)
      BY <3>1 DEF C!Reached
    <3>3. \A k \in 1 .. 3 : new[k] = rgb[k]
      BY <1>1, <3>1, <3>2 DEF C!CustomPrimaries
    <3> QED
      BY <2>1, <3>3 DEF C!Rgb
  <2>4. r = [ok |-> all, c |-> With(With(c, "pr", "Custom"), "rgb", new)]
    BY <1>4, Zenon DEF C!SetPrimaries, With
  <2> HIDE DEF new, all
  <2> DEFINE d == With(With(c, "pr", "Custom"), "rgb", new)
  <2>5. d = With(With(c, "pr", "Custom"), "rgb", new)
    OBVIOUS
  <2> HIDE DEF d
  <2>6. Keeps(c, d, {"pr", "rgb"}) /\ d["pr"] = "Custom" /\ d["rgb"] = new
    BY <2>5, With2, Names14
  <2>7. (r.ok <=> all) /\ r.c = d
    BY <2>4, <2>5
  <2>8. PrOf(rgb) = "Custom" /\ (PrimsOk(rgb) <=> all)
    BY <1>4, <2>2 DEF PrOf, PrimsOk
  <2> QED
    BY <2>1, <2>3, <2>6, <2>7, <2>8
<1> QED
  BY <1>2, <1>3, <1>4

-------------------------------------------------------------------------------
TypeOf(f) ==
  IF f \in DOMAIN C!FieldValues THEN C!FieldValues[f]
  ELSE IF f = "tfcs" THEN C!Spaces ELSE BOOLEAN
Typed(c) == Whole(c) /\ \A f \in Names \ {"icc"} : c[f] \in TypeOf(f)

(* The types of the fields, by name.                                        *)
LEMMA TypesOfFields ==
  /\ TypeOf("cs") = C!Spaces /\ TypeOf("wp") = C!WhitePoints /\ TypeOf("white") = C!Xy
  /\ TypeOf("pr") = C!Primaries /\ TypeOf("rgb") = C!Rgb /\ TypeOf("have_gamma") = BOOLEAN
  /\ TypeOf("gamma") = Int /\ TypeOf("tf") = C!Curves /\ TypeOf("tfcs") = C!Spaces
  /\ TypeOf("ri") = C!RenderingIntents /\ TypeOf("want_icc") = BOOLEAN
  /\ TypeOf("have_fields") = BOOLEAN /\ TypeOf("cmyk") = BOOLEAN
BY DEF TypeOf, C!FieldValues

(* A well-typed encoding, field by field.                                   *)
LEMMA TypedFields ==
  ASSUME NEW c, Typed(c)
  PROVE  /\ Whole(c) /\ c.cs \in C!Spaces /\ c.wp \in C!WhitePoints /\ c.white \in C!Xy
         /\ c.pr \in C!Primaries /\ c.rgb \in C!Rgb /\ c.have_gamma \in BOOLEAN
         /\ c.gamma \in Int /\ c.tf \in C!Curves /\ c.tfcs \in C!Spaces
         /\ c.ri \in C!RenderingIntents /\ c.want_icc \in BOOLEAN
         /\ c.have_fields \in BOOLEAN /\ c.cmyk \in BOOLEAN
BY TypesOfFields, Names14 DEF Typed

(* Changed fields of the right type keep an encoding well-typed.            *)
LEMMA TypedKept ==
  ASSUME NEW c, Typed(c), NEW d, NEW F, Keeps(c, d, F),
         \A f \in F \ {"icc"} : d[f] \in TypeOf(f)
  PROVE  Typed(d)
BY DEF Typed, Keeps

LEMMA YesNo == Yes \in BOOLEAN /\ No \in BOOLEAN
BY DEF Yes, No

-------------------------------------------------------------------------------
(* What is taken from a profile.                                            *)
Files ==
  [valid : BOOLEAN, space : {"RGB", "CMYK", "Gray", "Lab"}, white : C!Xy, rgb : C!Rgb,
   tf : (C!Curves \ {"Unknown"}) \cup {"Table"}, ri : C!RenderingIntents \cup {"bad"}]

(* What is assumed of the constants.                                        *)
LEMMA DescriptionConstants ==
  /\ MaxOps \in Nat /\ Whites \subseteq C!Xy /\ PrimarySets \subseteq C!Rgb
  /\ Gammas \subseteq Int /\ TransferFunctions \subseteq C!Curves
  /\ Intents \subseteq C!RenderingIntents /\ Profiles \subseteq Files
BY DescriptionsAssumption DEF C!DescriptionAssumptions, C!EncodingAssumptions, Files

(* A profile, field by field.                                               *)
LEMMA FileFields ==
  ASSUME NEW file \in Files
  PROVE  /\ file.space \in {"RGB", "CMYK", "Gray", "Lab"} /\ file.white \in C!Xy
         /\ file.rgb \in C!Rgb /\ file.tf \in C!Curves \cup {"Table"} /\ file.tf # "Unknown"
         /\ file.ri \in C!RenderingIntents \cup {"bad"}
BY DEF Files, C!Curves

FileOk(file) ==
  /\ file.valid /\ file.ri # "bad" /\ (file.space # "CMYK" => WhiteOk(file.white))
  /\ (file.space = "RGB" => PrimsOk(file.rgb))
WhiteMeant(xy) == IF WpOf(xy) = "Custom" THEN xy ELSE C!StandardWhite(WpOf(xy))
RgbMeant(rgb) == IF PrOf(rgb) = "Custom" THEN rgb ELSE C!StandardPrimaries(PrOf(rgb))
DrawableAs(file) ==
  CASE file.space = "Gray" -> C!GrayFits(WhiteMeant(file.white))
    [] file.space = "RGB" -> C!InUnit(WhiteMeant(file.white)) /\ C!Area(RgbMeant(file.rgb)) # 0
    [] OTHER -> FALSE
TfMeant(file) == IF file.tf # "Table" /\ DrawableAs(file) THEN file.tf ELSE "Unknown"
Taken(c, d, file) ==
  /\ d.cs = C!SpaceOf(file) /\ d.have_gamma = No /\ d.ri = file.ri
  /\ d.tf = IF file.space = "CMYK" THEN "Unknown" ELSE TfMeant(file)
  /\ d.wp = IF file.space = "CMYK" THEN c.wp ELSE WpOf(file.white)
  /\ d.wp = "Custom" => d.white = IF file.space = "CMYK" THEN c.white ELSE file.white
  /\ C!HasPrimaries(d) => /\ d.pr = IF file.space = "RGB" THEN PrOf(file.rgb) ELSE c.pr
                          /\ d.pr = "Custom" =>
                               d.rgb = IF file.space = "RGB" THEN file.rgb ELSE c.rgb

(* ColorEncoding::SetFieldsFromICC forgets the fields first.                *)
LEMMA ForgottenIs ==
  ASSUME NEW c, Typed(c), NEW d, d = C!Forgotten(c)
  PROVE  /\ Typed(d) /\ Keeps(c, d, {"cs", "tfcs", "have_gamma", "tf"})
         /\ d.have_gamma = No /\ d.tf = "Unknown"
<1> DEFINE e == C!SetColorSpace(c, "Unknown")
<1>1. Keeps(c, e, {"cs", "tfcs"}) /\ e.cs = "Unknown" /\ e.tfcs = "Unknown"
  BY TypedFields, SetCs
<1>2. d = C!SetTransferFunction(e, "Unknown")
  BY DEF C!Forgotten
<1> HIDE DEF e
<1>3. Keeps(e, d, {"have_gamma", "tf"}) /\ d.have_gamma = No /\ d.tf = "Unknown"
  BY <1>1, <1>2, SetTf DEF Keeps
<1>4. Keeps(c, d, {"cs", "tfcs", "have_gamma", "tf"}) /\ d.cs = "Unknown" /\ d.tfcs = "Unknown"
  BY <1>1, <1>3, Names14 DEF Keeps
<1>5. \A f \in {"cs", "tfcs", "have_gamma", "tf"} : d[f] \in TypeOf(f)
  BY <1>3, <1>4, TypesOfFields, YesNo DEF C!Spaces, C!Curves
<1> QED
  BY <1>3, <1>4, <1>5, TypedKept

(* The file's intent and space, which leave nothing of the ones before.     *)
Opened(c, file) ==
  C!SetColorSpace([C!Forgotten(c) EXCEPT !.ri = file.ri], C!SpaceOf(file))

LEMMA OpenedIs ==
  ASSUME NEW c, Typed(c), NEW file \in Files, file.ri # "bad", NEW d, d = Opened(c, file)
  PROVE  /\ Typed(d) /\ Keeps(c, d, {"cs", "tfcs", "have_gamma", "tf", "ri"})
         /\ d.cs = C!SpaceOf(file) /\ d.have_gamma = No /\ d.tf = "Unknown"
         /\ d.ri = file.ri
<1> DEFINE f == C!Forgotten(c)
<1> DEFINE e == With(f, "ri", file.ri)
<1>1. Typed(f) /\ Keeps(c, f, {"cs", "tfcs", "have_gamma", "tf"}) /\ f.have_gamma = No /\ f.tf = "Unknown"
  BY ForgottenIs
<1> HIDE DEF f
<1>2. Keeps(f, e, {"ri"}) /\ e.ri = file.ri
  BY <1>1, TypedFields, WithIs, Names14
<1>3. d = C!SetColorSpace(e, C!SpaceOf(file))
  BY Zenon DEF Opened, With, f
<1> HIDE DEF e
<1>4. Keeps(e, d, {"cs", "tfcs"}) /\ d.cs = C!SpaceOf(file) /\ d.tfcs = C!SpaceOf(file)
  BY <1>2, <1>3, SetCs DEF Keeps
<1>5. /\ Keeps(f, d, {"cs", "tfcs", "ri"}) /\ d.ri = file.ri
      /\ d.have_gamma = No /\ d.tf = "Unknown"
  BY <1>1, <1>2, <1>4, Names14 DEF Keeps
<1>6. C!SpaceOf(file) \in C!Spaces
  BY FileFields DEF C!SpaceOf, C!Spaces
<1>7. \A g \in {"cs", "tfcs", "ri"} : d[g] \in TypeOf(g)
  BY <1>4, <1>5, <1>6, TypesOfFields, FileFields
<1>8. Typed(d)
  BY <1>1, <1>5, <1>7, TypedKept
<1> QED
  BY <1>1, <1>4, <1>5, <1>8 DEF Keeps

(* Whether the fields of a profile can be made into a profile again.        *)
LEMMA DrawableIs ==
  ASSUME NEW c, NEW file \in Files, c.cs = C!SpaceOf(file), file.space # "CMYK",
         C!GetWhitePoint(c) = WhiteMeant(file.white), file.tf # "Table",
         file.space = "RGB" => C!GetPrimaries(c) = RgbMeant(file.rgb),
         c.have_gamma = No, c.tf = file.tf
  PROVE  C!Creatable(c) <=> DrawableAs(file)
<1>1. ~C!IsUnknown(c)
  BY FileFields, NotNo DEF C!IsUnknown
<1>2. CASE file.space = "Lab"
  BY <1>2 DEF C!Creatable, DrawableAs, C!SpaceOf
<1>3. CASE file.space = "Gray"
  BY <1>1, <1>3 DEF C!Creatable, DrawableAs, C!SpaceOf, C!Drawable, C!IsGray
<1>4. CASE file.space = "RGB"
  BY <1>1, <1>4 DEF C!Creatable, DrawableAs, C!SpaceOf, C!Drawable, C!IsGray
<1> QED
  BY <1>2, <1>3, <1>4, FileFields

(* The curve that DetectTransferFunction finds.                             *)
LEMMA CurveTaken ==
  ASSUME NEW c, Typed(c), NEW file \in Files, file.space # "CMYK", c.cs = C!SpaceOf(file),
         C!GetWhitePoint(c) = WhiteMeant(file.white), c.have_gamma = No,
         file.space = "RGB" => C!GetPrimaries(c) = RgbMeant(file.rgb),
         NEW d, d = C!DetectTransferFunction(c, file)
  PROVE  /\ Typed(d) /\ Keeps(c, d, {"have_gamma", "tf"})
         /\ d.have_gamma = No /\ d.tf = TfMeant(file)
<1> DEFINE e == C!SetTransferFunction(c, file.tf)
<1>1. Keeps(c, e, {"have_gamma", "tf"}) /\ e.have_gamma = No /\ e.tf = file.tf
  BY SetTf, TypedFields
<1>2. d = IF file.tf # "Table" /\ C!Creatable(e) THEN e ELSE C!SetTransferFunction(c, "Unknown")
  BY DEF C!DetectTransferFunction
<1> HIDE DEF e
<1>3. file.tf # "Table" => (C!Creatable(e) <=> DrawableAs(file))
  <2>1. e.cs = C!SpaceOf(file) /\ C!GetWhitePoint(e) = C!GetWhitePoint(c)
    BY <1>1, Names14 DEF Keeps, C!GetWhitePoint
  <2>2. C!GetPrimaries(e) = C!GetPrimaries(c)
    BY <1>1, Names14 DEF Keeps, C!GetPrimaries
  <2> QED
    BY <1>1, <2>1, <2>2, DrawableIs
<1>4. d = C!SetTransferFunction(c, TfMeant(file))
  BY <1>2, <1>3 DEF TfMeant, e
<1>5. Keeps(c, d, {"have_gamma", "tf"}) /\ d.have_gamma = No /\ d.tf = TfMeant(file)
  BY <1>4, SetTf, TypedFields
<1>6. \A f \in {"have_gamma", "tf"} : d[f] \in TypeOf(f)
  BY <1>5, TypesOfFields, YesNo, FileFields DEF TfMeant, C!Curves
<1> QED
  BY <1>5, <1>6, TypedKept

(* SetFieldsFromICC: the fields are those of the profile.                   *)
LEMMA TakenIs ==
  ASSUME NEW c, Typed(c), NEW file \in Files, NEW r, r = C!SetFieldsFromICC(c, file)
  PROVE  /\ Typed(r.c) /\ r.c.icc = c.icc /\ r.c.have_fields = c.have_fields
         /\ r.c.want_icc = c.want_icc
         /\ r.ok <=> FileOk(file)
         /\ FileOk(file) => Taken(c, r.c, file)
<1>1. CASE ~file.valid \/ file.ri = "bad"
  <2>1. r = C!Failure(C!Forgotten(c)) /\ ~FileOk(file)
    BY <1>1 DEF C!SetFieldsFromICC, FileOk
  <2>2. Typed(r.c) /\ Keeps(c, r.c, {"cs", "tfcs", "have_gamma", "tf"}) /\ ~r.ok
    <3>1. r.c = C!Forgotten(c) /\ ~r.ok
      BY <2>1, Results, NotNo
    <3> QED
      BY <3>1, ForgottenIs
  <2> QED
    BY <2>1, <2>2, Names14 DEF Keeps
<1>2. CASE file.valid /\ file.ri # "bad"
  <2> DEFINE o == Opened(c, file)
  <2>1. r = C!FieldsFrom(o, file)
    BY <1>2, Zenon DEF C!SetFieldsFromICC, Opened
  <2>2. /\ Typed(o) /\ Keeps(c, o, {"cs", "tfcs", "have_gamma", "tf", "ri"})
        /\ o.cs = C!SpaceOf(file) /\ o.have_gamma = No /\ o.tf = "Unknown" /\ o.ri = file.ri
    BY <1>2, OpenedIs
  <2> HIDE DEF o
  <2>3. CASE file.space = "CMYK"
    <3> DEFINE d == With(o, "cmyk", Yes)
    <3>1. r = C!Ok(d) /\ FileOk(file)
      BY <1>2, <2>1, <2>3, Zenon DEF C!FieldsFrom, With, Yes, FileOk
    <3>2. Keeps(o, d, {"cmyk"}) /\ d.cmyk = Yes
      BY <2>2, WithIs, Names14, TypedFields
    <3> HIDE DEF d
    <3>3. Typed(d)
      BY <2>2, <3>2, TypedKept, TypesOfFields, YesNo
    <3>4. r.ok /\ r.c = d
      BY <3>1, Results, NotNo
    <3>5. Keeps(c, d, {"cs", "tfcs", "have_gamma", "tf", "ri", "cmyk"})
      BY <2>2, <3>2 DEF Keeps
    <3>6. d.cs = C!SpaceOf(file) /\ d.have_gamma = No /\ d.tf = "Unknown" /\ d.ri = file.ri
      BY <2>2, <3>2, Names14 DEF Keeps
    <3>7. /\ d.icc = c.icc /\ d.have_fields = c.have_fields /\ d.want_icc = c.want_icc
          /\ d.wp = c.wp /\ d.white = c.white /\ d.pr = c.pr /\ d.rgb = c.rgb
      BY <3>5, Names14 DEF Keeps
    <3> QED
      BY <2>3, <3>1, <3>3, <3>4, <3>6, <3>7 DEF Taken
  <2>4. CASE file.space # "CMYK"
    <3> DEFINE w == C!SetWhitePoint(o, file.white)
    <3>1. r = C!ColorsAfter(w, file)
      BY <2>1, <2>4 DEF C!FieldsFrom
    <3>2. /\ w.ok <=> WhiteOk(file.white)
          /\ Keeps(o, w.c, {"wp", "white"}) /\ w.c.white \in C!Xy
          /\ w.c.wp = o.wp \/ w.c.wp = WpOf(file.white)
          /\ WhiteOk(file.white) =>
               /\ w.c.wp = WpOf(file.white)
               /\ w.c.white = IF WpOf(file.white) = "Custom" THEN file.white ELSE o.white
      BY <2>2, SetWhite, TypedFields, FileFields
    <3>3. Typed(w.c)
      <4>1. w.c.wp \in C!WhitePoints
        BY <2>2, <3>2, TypedFields, WpOfIs DEF C!WhitePoints, Whites3
      <4> QED
        BY <2>2, <3>2, <4>1, TypedKept, TypesOfFields
    <3> HIDE DEF w
    <3>4. Keeps(c, w.c, {"cs", "tfcs", "have_gamma", "tf", "ri", "wp", "white"})
      BY <2>2, <3>2 DEF Keeps
    <3>5. CASE ~WhiteOk(file.white)
      <4>1. r = w /\ ~r.ok /\ ~FileOk(file)
        BY <2>4, <3>1, <3>2, <3>5 DEF C!ColorsAfter, FileOk
      <4> QED
        BY <3>3, <3>4, <4>1, Names14 DEF Keeps
    <3>6. CASE WhiteOk(file.white)
      <4> DEFINE p == C!IdentifyPrimaries(w.c, file)
      <4>1. r = C!CurveAfter(p, file)
        BY <3>1, <3>2, <3>6 DEF C!ColorsAfter
      <4>2. /\ w.c.cs = C!SpaceOf(file) /\ w.c.have_gamma = No /\ w.c.ri = file.ri
            /\ w.c.wp = WpOf(file.white)
            /\ w.c.wp = "Custom" => w.c.white = file.white
        BY <2>2, <3>2, <3>6, Names14 DEF Keeps
      <4>3. /\ p.ok <=> (file.space = "RGB" => PrimsOk(file.rgb))
            /\ Keeps(w.c, p.c, {"pr", "rgb"}) /\ Typed(p.c)
            /\ file.space = "RGB" /\ p.ok =>
                 /\ p.c.pr = PrOf(file.rgb)
                 /\ p.c.pr = "Custom" => p.c.rgb = file.rgb
            /\ file.space # "RGB" => p.c = w.c
        <5>1. CASE file.space = "RGB"
          <6>1. p = C!SetPrimaries(w.c, file.rgb)
            BY <4>2, <5>1 DEF C!IdentifyPrimaries, C!HasPrimaries, C!SpaceOf
          <6> HIDE DEF p
          <6>2. /\ p.ok <=> PrimsOk(file.rgb)
                /\ Keeps(w.c, p.c, {"pr", "rgb"}) /\ p.c.rgb \in C!Rgb
                /\ p.c.pr = w.c.pr \/ p.c.pr = PrOf(file.rgb)
                /\ PrimsOk(file.rgb) =>
                     /\ p.c.pr = PrOf(file.rgb)
                     /\ p.c.rgb = IF PrOf(file.rgb) = "Custom" THEN file.rgb ELSE w.c.rgb
            BY <3>3, <6>1, SetPrims, TypedFields, FileFields
          <6>3. p.c.pr \in C!Primaries
            BY <3>3, <6>2, TypedFields, PrOfIs DEF C!Primaries
          <6>4. Typed(p.c)
            BY <3>3, <6>2, <6>3, TypedKept, TypesOfFields
          <6> QED
            BY <5>1, <6>2, <6>4
        <5>2. CASE file.space # "RGB"
          <6>1. p = C!Ok(w.c)
            BY <2>4, <4>2, <5>2, FileFields DEF C!IdentifyPrimaries, C!HasPrimaries, C!SpaceOf
          <6> HIDE DEF p
          <6>2. p.ok /\ p.c = w.c /\ Keeps(w.c, w.c, {"pr", "rgb"})
            BY <3>3, <6>1, Results, NotNo, TypedFields DEF Keeps
          <6> QED
            BY <3>3, <5>2, <6>2
        <5> QED
          BY <5>1, <5>2
      <4> HIDE DEF p
      <4>4. Keeps(c, p.c, {"cs", "tfcs", "have_gamma", "tf", "ri", "wp", "white", "pr", "rgb"})
        BY <3>4, <4>3 DEF Keeps
      <4>5. CASE ~p.ok
        <5>1. r = p /\ ~r.ok /\ ~FileOk(file)
          BY <4>1, <4>3, <4>5 DEF C!CurveAfter, FileOk
        <5> QED
          BY <4>3, <4>4, <5>1, Names14 DEF Keeps
      <4>6. CASE p.ok
        <5> DEFINE d == C!DetectTransferFunction(p.c, file)
        <5>1. r = C!Ok(d) /\ FileOk(file)
          BY <1>2, <3>6, <4>1, <4>3, <4>6 DEF C!CurveAfter, FileOk
        <5>2. /\ p.c.cs = C!SpaceOf(file) /\ p.c.have_gamma = No /\ p.c.ri = file.ri
              /\ p.c.wp = WpOf(file.white)
              /\ p.c.wp = "Custom" => p.c.white = file.white
          BY <4>2, <4>3, Names14 DEF Keeps
        <5>3. C!GetWhitePoint(p.c) = WhiteMeant(file.white)
          BY <5>2 DEF C!GetWhitePoint, WhiteMeant
        <5>4. file.space = "RGB" => C!GetPrimaries(p.c) = RgbMeant(file.rgb)
          BY <4>3, <4>6 DEF C!GetPrimaries, RgbMeant
        <5>5. /\ Typed(d) /\ Keeps(p.c, d, {"have_gamma", "tf"})
              /\ d.have_gamma = No /\ d.tf = TfMeant(file)
          BY <2>4, <4>3, <5>2, <5>3, <5>4, CurveTaken
        <5> HIDE DEF d
        <5>6. r.ok /\ r.c = d
          BY <5>1, Results, NotNo
        <5>7. Keeps(c, d, {"cs", "tfcs", "have_gamma", "tf", "ri", "wp", "white", "pr", "rgb"})
          BY <4>4, <5>5 DEF Keeps
        <5>8. d.icc = c.icc /\ d.have_fields = c.have_fields /\ d.want_icc = c.want_icc
          BY <5>7, Names14 DEF Keeps
        <5>9. /\ d.cs = C!SpaceOf(file) /\ d.ri = file.ri /\ d.wp = WpOf(file.white)
              /\ d.wp = "Custom" => d.white = file.white
              /\ d.pr = p.c.pr /\ d.rgb = p.c.rgb
          BY <5>2, <5>5, Names14 DEF Keeps
        <5>10. file.space # "RGB" => d.pr = c.pr /\ d.rgb = c.rgb
          BY <3>4, <4>3, <5>9, Names14 DEF Keeps
        <5> QED
          BY <2>4, <4>3, <4>6, <5>1, <5>5, <5>6, <5>8, <5>9, <5>10 DEF Taken
      <4> QED
        BY <4>5, <4>6
    <3> QED
      BY <3>5, <3>6
  <2> QED
    BY <2>3, <2>4
<1> QED
  BY <1>1, <1>2

(* What the fields then say does not change when they are taken once more.  *)
LEMMA TakenAgain ==
  ASSUME NEW b, NEW c, NEW d, NEW q, Typed(b), Typed(c), Typed(d), Typed(q), NEW file \in Files,
         Taken(b, c, file), Keeps(c, d, {"icc", "want_icc"}), Taken(d, q, file)
  PROVE  C!SameColorEncoding(q, d) /\ q.ri = d.ri
<1>1. /\ d.cs = c.cs /\ d.have_gamma = c.have_gamma /\ d.ri = c.ri /\ d.tf = c.tf /\ d.wp = c.wp
      /\ d.white = c.white /\ d.pr = c.pr /\ d.rgb = c.rgb
  BY Names14 DEF Keeps
<1>2. q.cs = d.cs /\ q.ri = d.ri /\ ~q.have_gamma /\ ~d.have_gamma /\ q.tf = d.tf
  BY <1>1, NotNo DEF Taken
<1>3. q.wp = d.wp /\ (q.wp = "Custom" => q.white = d.white)
  BY <1>1 DEF Taken
<1>4. C!HasPrimaries(q) => q.pr = d.pr /\ (q.pr = "Custom" => q.rgb = d.rgb)
  BY <1>1 DEF Taken, C!HasPrimaries
<1>5. C!SameTf(q, d) /\ C!SameColorSpace(q, d)
  <2>1. C!SameTf(q, d)
    BY <1>2, TypedFields DEF C!SameTf
  <2>2. C!SameColorSpace(q, d)
    BY <1>2, <1>3, <1>4 DEF C!SameColorSpace
  <2> QED
    BY <2>1, <2>2
<1> QED
  BY <1>2, <1>5 DEF C!SameColorEncoding

IccOk(c) ==
  /\ c.icc.kind \in {"none", "made", "file"}
  /\ c.icc.kind = "file" => c.icc.of \in Profiles
Good(c) == Typed(c) /\ IccOk(c)
FileAgrees(c, file) ==
  LET r == C!SetFieldsFromICC(c, file)
  IN  r.ok /\ C!SameColorEncoding(r.c, c) /\ r.c.ri = c.ri
Describes(c) ==
  /\ c.icc.kind = "made" => c.icc.of = C!Signature(c)
  /\ c.icc.kind = "file" /\ c.have_fields => FileAgrees(c, c.icc.of)

(* The fields taken from a profile agree with it, whatever happens to the   *)
(* profile.                                                                 *)
LEMMA Agrees ==
  ASSUME NEW b, NEW c, NEW d, Typed(b), Typed(c), Typed(d), NEW file \in Profiles,
         FileOk(file), Taken(b, c, file), Keeps(c, d, {"icc", "want_icc"})
  PROVE  FileAgrees(d, file)
<1> DEFINE q == C!SetFieldsFromICC(d, file)
<1>1. file \in Files
  BY DescriptionConstants
<1>2. Typed(q.c) /\ q.ok /\ Taken(d, q.c, file)
  BY <1>1, TakenIs
<1>3. C!SameColorEncoding(q.c, d) /\ q.c.ri = d.ri
  <2> HIDE DEF q
  <2> QED
    BY <1>1, <1>2, TakenAgain
<1> QED
  BY <1>2, <1>3 DEF FileAgrees

(* What a made profile says depends on the fields alone.                    *)
LEMMA SignatureIs ==
  ASSUME NEW c, NEW d, Keeps(c, d, {"icc", "want_icc"})
  PROVE  C!Signature(d) = C!Signature(c)
<1>1. /\ d.cs = c.cs /\ d.have_gamma = c.have_gamma /\ d.ri = c.ri /\ d.tf = c.tf /\ d.wp = c.wp
      /\ d.white = c.white /\ d.pr = c.pr /\ d.rgb = c.rgb /\ d.gamma = c.gamma
  BY Names14 DEF Keeps
<1>2. C!GetWhitePoint(d) = C!GetWhitePoint(c) /\ C!GetPrimaries(d) = C!GetPrimaries(c)
  BY <1>1 DEF C!GetWhitePoint, C!GetPrimaries
<1>3. C!HasPrimaries(d) <=> C!HasPrimaries(c)
  BY <1>1 DEF C!HasPrimaries
<1> QED
  BY <1>1, <1>2, <1>3, Zenon DEF C!Signature

(* An encoding whose profile was just made, or could not be, is described   *)
(* by it.                                                                   *)
LEMMA Profiled ==
  ASSUME NEW c, Typed(c), NEW d,
         d = With(c, "icc", C!MaybeCreateProfile(c)) \/ d = With(c, "icc", C!NoProfile)
  PROVE  Good(d) /\ Describes(d) /\ Keeps(c, d, {"icc"})
<1> DEFINE made == C!MaybeCreateProfile(c)
<1> DEFINE none == C!NoProfile
<1>1. made.kind = "made" /\ made.of = C!Signature(c) /\ none.kind = "none"
  BY DEF C!MaybeCreateProfile, C!NoProfile
<1> HIDE DEF made, none
<1>2. Keeps(c, d, {"icc"}) /\ (d.icc = made \/ d.icc = none)
  BY TypedFields, WithIs, Names14 DEF made, none
<1>3. Typed(d) /\ C!Signature(d) = C!Signature(c)
  <2>1. Keeps(c, d, {"icc", "want_icc"})
    BY <1>2 DEF Keeps
  <2> QED
    BY <1>2, <2>1, TypedKept, SignatureIs
<1> QED
  BY <1>1, <1>2, <1>3 DEF Good, IccOk, Describes

(* CreateICC leaves a profile that describes the fields.                    *)
LEMMA CreatedICC ==
  ASSUME NEW c, Typed(c), NEW r, r = C!CreateICC(c)
  PROVE  /\ Good(r.c) /\ Describes(r.c) /\ Keeps(c, r.c, {"icc"})
         /\ r.ok <=> C!Creatable(c)
         /\ r.c.icc = IF C!Creatable(c) THEN C!MaybeCreateProfile(c) ELSE C!NoProfile
<1> DEFINE new == IF C!Creatable(c) THEN C!MaybeCreateProfile(c) ELSE C!NoProfile
<1>1. /\ C!Creatable(c) => r = C!Ok(With(c, "icc", C!MaybeCreateProfile(c)))
      /\ ~C!Creatable(c) => r = C!Failure(With(c, "icc", C!NoProfile))
  BY Zenon DEF C!CreateICC, With
<1>2. (r.ok <=> C!Creatable(c)) /\ r.c = With(c, "icc", new)
  BY <1>1, Results, NotNo
<1>3. Good(r.c) /\ Describes(r.c) /\ Keeps(c, r.c, {"icc"})
  BY <1>2, Profiled
<1>4. r.c.icc = new
  <2> HIDE DEF new
  <2>1. Whole(c)
    BY TypedFields
  <2>2. "icc" \in Names
    BY Names14
  <2>3. With(c, "icc", new)["icc"] = new
    BY ONLY <2>1, <2>2, WithIs
  <2> QED
    BY <1>2, <2>3
<1> QED
  BY <1>2, <1>3, <1>4

(* SetSRGB builds a well-typed encoding, and its profile after that.        *)
LEMMA SRGBIs ==
  ASSUME NEW c, Typed(c), NEW cs \in C!Spaces, NEW ri \in C!RenderingIntents,
         NEW r, r = C!SetSRGB(c, cs, ri)
  PROVE  Good(r.c) /\ Describes(r.c)
<1> DEFINE t == C!SetTransferFunction(c, "SRGB")
<1> DEFINE u == With(With(t, "cs", cs), "wp", "D65")
<1> DEFINE v == With(With(u, "pr", "SRGB"), "ri", ri)
<1>1. r = C!CreateICC(v)
  BY Zenon DEF C!SetSRGB, With
<1>2. Keeps(c, t, {"have_gamma", "tf"}) /\ t.have_gamma = No /\ t.tf = "SRGB"
  BY TypedFields, SetTf
<1>3. u = With(With(t, "cs", cs), "wp", "D65") /\ v = With(With(u, "pr", "SRGB"), "ri", ri)
  OBVIOUS
<1> HIDE DEF t, u, v
<1>4. Typed(t)
  BY <1>2, TypedKept, TypesOfFields, YesNo DEF C!Curves
<1>5. Keeps(t, u, {"cs", "wp"}) /\ u["cs"] = cs /\ u["wp"] = "D65"
  <2>1. Whole(t)
    BY <1>4, TypedFields
  <2>2. "cs" \in Names /\ "wp" \in Names /\ "cs" # "wp" /\ u = With(With(t, "cs", cs), "wp", "D65")
    BY <1>3, Names14
  <2> QED
    BY ONLY <2>1, <2>2, With2
<1>6. Typed(u)
  BY <1>4, <1>5, TypedKept, TypesOfFields DEF C!WhitePoints
<1>7. Keeps(u, v, {"pr", "ri"}) /\ v["pr"] = "SRGB" /\ v["ri"] = ri
  BY <1>3, <1>6, TypedFields, With2, Names14
<1>8. Typed(v)
  BY <1>6, <1>7, TypedKept, TypesOfFields DEF C!Primaries
<1> QED
  BY <1>1, <1>8, CreatedICC

(* SetICC: the profile agrees with the fields, or the call fails.           *)
LEMMA TakesFile ==
  ASSUME NEW c, Good(c), NEW file \in Profiles, NEW r, r = C!SetICC(c, file)
  PROVE  Good(r.c) /\ Describes(r.c)
<1> DEFINE s == C!SetFieldsFromICC(c, file)
<1> DEFINE profile == [kind |-> "file", of |-> file]
<1>0. file \in Files
  BY DescriptionConstants
<1>1. Typed(s.c) /\ (s.ok <=> FileOk(file)) /\ (FileOk(file) => Taken(c, s.c, file))
  BY <1>0, TakenIs DEF Good
<1>2. r = C!WithFile(s, file)
  BY DEF C!SetICC
<1> HIDE DEF s
<1>3. profile.kind = "file" /\ profile.of = file
  OBVIOUS
<1>4. CASE ~s.ok
  <2>1. r = C!Failure(With(s.c, "icc", C!NoProfile))
    BY <1>2, <1>4, Zenon DEF C!WithFile, With
  <2>2. ~r.ok /\ r.c = With(s.c, "icc", C!NoProfile)
    BY <2>1, Results, NotNo
  <2> QED
    BY <1>1, <2>2, Profiled
<1>5. CASE s.ok
  <2> DEFINE d == With(With(s.c, "icc", profile), "want_icc", Yes)
  <2>1. r = C!Ok(d)
    BY <1>2, <1>5, Zenon DEF C!WithFile, With, Yes
  <2>2. d = With(With(s.c, "icc", profile), "want_icc", Yes)
    OBVIOUS
  <2> HIDE DEF d, profile
  <2>3. Keeps(s.c, d, {"icc", "want_icc"}) /\ d["icc"] = profile /\ d["want_icc"] = Yes
    BY <1>1, <2>2, TypedFields, With2, Names14
  <2>4. Typed(d)
    BY <1>1, <2>3, TypedKept, TypesOfFields, YesNo
  <2>5. IccOk(d)
    BY <1>3, <2>3 DEF IccOk
  <2>6. FileAgrees(d, file)
    BY <1>1, <1>5, <2>3, <2>4, Agrees DEF Good
  <2>7. Describes(d)
    BY <1>3, <2>3, <2>6 DEF Describes
  <2>8. r.ok /\ r.c = d
    BY <2>1, Results, NotNo
  <2> QED
    BY <2>4, <2>5, <2>7, <2>8 DEF Good
<1> QED
  BY <1>4, <1>5

(* SetICCRaw keeps a profile and has no fields to agree with it.            *)
LEMMA TakesRaw ==
  ASSUME NEW c, Good(c), NEW file \in Profiles, NEW r, r = C!SetICCRaw(c, file)
  PROVE  Good(r.c) /\ Describes(r.c)
<1> DEFINE profile == [kind |-> "file", of |-> file]
<1> DEFINE e == With(With(c, "icc", profile), "want_icc", Yes)
<1> DEFINE d == With(e, "have_fields", No)
<1>1. r = C!Ok(d)
  BY Zenon DEF C!SetICCRaw, With, Yes, No
<1>2. profile.kind = "file" /\ profile.of = file /\ Typed(c)
  BY DEF Good
<1>3. e = With(With(c, "icc", profile), "want_icc", Yes) /\ d = With(e, "have_fields", No)
  OBVIOUS
<1> HIDE DEF d, e, profile
<1>4. Keeps(c, e, {"icc", "want_icc"}) /\ e["icc"] = profile /\ e["want_icc"] = Yes
  <2>1. Whole(c)
    BY <1>2, TypedFields
  <2>2. /\ "icc" \in Names /\ "want_icc" \in Names /\ "icc" # "want_icc"
        /\ e = With(With(c, "icc", profile), "want_icc", Yes)
    BY <1>3, Names14
  <2> QED
    BY ONLY <2>1, <2>2, With2
<1>5. Typed(e)
  BY <1>2, <1>4, TypedKept, TypesOfFields, YesNo
<1>6. Keeps(e, d, {"have_fields"}) /\ d["have_fields"] = No
  BY <1>3, <1>5, TypedFields, WithIs, Names14
<1>7. Typed(d) /\ d.icc = profile
  BY <1>4, <1>5, <1>6, TypedKept, TypesOfFields, YesNo, Names14 DEF Keeps
<1>8. ~d.have_fields
  BY <1>6, NotNo
<1>9. r.c = d
  BY <1>1, Results
<1> QED
  BY <1>2, <1>7, <1>8, <1>9 DEF Good, IccOk, Describes

(* DecideIfWantICC drops a profile only when the fields can make it again.  *)
LEMMA Decided ==
  ASSUME NEW c, Good(c), Describes(c), NEW d, d = C!DecideIfWantICC(c)
  PROVE  Good(d) /\ Describes(d)
<1>1. CASE ~C!Decides(c)
  BY <1>1 DEF C!DecideIfWantICC
<1>2. CASE C!Decides(c)
  <2>1. d = With(c, "want_icc", No)
    BY <1>2, Zenon DEF C!DecideIfWantICC, With, No
  <2>2. Keeps(c, d, {"want_icc"}) /\ d.want_icc = No
    BY <2>1, TypedFields, WithIs, Names14 DEF Good
  <2>3. Typed(d)
    BY <2>2, TypedKept, TypesOfFields, YesNo DEF Good
  <2>4. d.icc = c.icc /\ d.have_fields = c.have_fields
    BY <2>2, Names14 DEF Keeps
  <2>5. C!Signature(d) = C!Signature(c)
    <3>1. Keeps(c, d, {"icc", "want_icc"})
      BY <2>2 DEF Keeps
    <3> QED
      BY <3>1, SignatureIs
  <2>6. ASSUME c.icc.kind = "file", c.have_fields PROVE FileAgrees(d, c.icc.of)
    <3> DEFINE file == c.icc.of
    <3> DEFINE r == C!SetFieldsFromICC(c, file)
    <3> DEFINE q == C!SetFieldsFromICC(d, file)
    <3>1. file \in Profiles /\ file \in Files
      BY <2>6, DescriptionConstants DEF Good, IccOk
    <3>2. FileAgrees(c, file)
      BY <2>6 DEF Describes
    <3>3. r.ok /\ C!SameColorEncoding(r.c, c) /\ r.c.ri = c.ri
      BY <3>2 DEF FileAgrees
    <3> HIDE DEF file
    <3>4. Typed(r.c) /\ FileOk(file) /\ Taken(c, r.c, file)
      BY <3>1, <3>3, TakenIs DEF Good
    <3>5. Typed(q.c) /\ q.ok /\ Taken(d, q.c, file)
      BY <2>3, <3>1, <3>4, TakenIs
    <3> HIDE DEF r, q
    <3>6. /\ d.cs = c.cs /\ d.have_gamma = c.have_gamma /\ d.ri = c.ri /\ d.tf = c.tf /\ d.wp = c.wp
          /\ d.white = c.white /\ d.pr = c.pr /\ d.rgb = c.rgb /\ d.gamma = c.gamma
      BY <2>2, Names14 DEF Keeps
    <3>7. C!SameColorEncoding(q.c, d) /\ q.c.ri = d.ri
      <4>1. q.c.cs = r.c.cs /\ q.c.ri = r.c.ri /\ q.c.have_gamma = r.c.have_gamma /\ q.c.tf = r.c.tf
        BY <3>4, <3>5 DEF Taken
      <4>2. q.c.wp = r.c.wp /\ (r.c.wp = "Custom" => q.c.white = r.c.white)
        BY <3>4, <3>5, <3>6 DEF Taken
      <4>3. C!HasPrimaries(r.c) => q.c.pr = r.c.pr /\ (r.c.pr = "Custom" => q.c.rgb = r.c.rgb)
        BY <3>4, <3>5, <3>6, <4>1 DEF Taken, C!HasPrimaries
      <4>4. C!SameTf(q.c, d)
        <5>1. ~q.c.have_gamma /\ ~r.c.have_gamma
          BY <3>4, <3>5, NotNo DEF Taken
        <5>2. C!SameTf(r.c, c)
          BY <3>3 DEF C!SameColorEncoding
        <5> QED
          BY <3>6, <4>1, <5>1, <5>2, TypedFields DEF C!SameTf, Good
      <4>5. C!SameColorSpace(q.c, d)
        <5>1. C!SameColorSpace(r.c, c)
          BY <3>3 DEF C!SameColorEncoding
        <5> QED
          BY <3>6, <4>1, <4>2, <4>3, <5>1 DEF C!SameColorSpace, C!HasPrimaries
      <4> QED
        BY <3>3, <3>6, <4>1, <4>4, <4>5 DEF C!SameColorEncoding
    <3> QED
      BY <3>5, <3>7 DEF FileAgrees, q, file
  <2> QED
    BY <2>3, <2>4, <2>5, <2>6 DEF Good, IccOk, Describes
<1> QED
  BY <1>1, <1>2

-------------------------------------------------------------------------------
(* What is taken from the struct of the C API.                              *)
Structs ==
  [cs : C!Spaces, wp : C!WhitePoints \cup {"none"}, white : C!Xy,
   pr : C!Primaries \cup {"none"}, rgb : C!Rgb, tf : C!Curves \cup {"Gamma", "none"},
   gamma : Int, ri : C!RenderingIntents]

(* The external struct, field by field.                                     *)
LEMMA StructFields ==
  ASSUME NEW e \in Structs
  PROVE  /\ e.cs \in C!Spaces /\ e.wp \in C!WhitePoints \cup {"none"} /\ e.white \in C!Xy
         /\ e.pr \in C!Primaries \cup {"none"} /\ e.rgb \in C!Rgb
         /\ e.tf \in C!Curves \cup {"Gamma", "none"} /\ e.gamma \in Int
         /\ e.ri \in C!RenderingIntents
BY DEF Structs

(* ConvertExternalToInternalColorEncoding: the white point, ...             *)
LEMMA ImportsWhite ==
  ASSUME NEW c, Typed(c), NEW e \in Structs, NEW r, r = C!ImportWhite(c, e)
  PROVE  /\ Typed(r.c) /\ Keeps(c, r.c, {"wp", "white"})
         /\ r.ok <=> e.wp # "none" /\ (e.wp = "Custom" => WhiteOk(e.white))
         /\ r.ok => /\ r.c.wp = IF e.wp = "Custom" THEN WpOf(e.white) ELSE e.wp
                    /\ r.c.wp = "Custom" => r.c.white = e.white
<1> DEFINE d == With(c, "wp", e.wp)
<1>1. e.wp \in C!WhitePoints => Typed(d) /\ Keeps(c, d, {"wp"}) /\ d.wp = e.wp
  <2> SUFFICES ASSUME e.wp \in C!WhitePoints PROVE Typed(d) /\ Keeps(c, d, {"wp"}) /\ d.wp = e.wp
    OBVIOUS
  <2>1. Keeps(c, d, {"wp"}) /\ d.wp = e.wp
    BY TypedFields, WithIs, Names14
  <2> HIDE DEF d
  <2> QED
    BY <2>1, TypedKept, TypesOfFields
<1> HIDE DEF d
<1>2. CASE e.wp = "none"
  <2>1. r = C!Failure(c)
    BY <1>2, SMT DEF C!ImportWhite
  <2> QED
    BY <1>2, <2>1, Results, NotNo, TypedFields, ZenonT(40) DEF Keeps
<1>3. CASE e.wp = "Custom"
  <2>1. r = C!SetWhitePoint(d, e.white)
    BY <1>3, SMT DEF C!ImportWhite, d, With
  <2>2. Typed(d) /\ Keeps(c, d, {"wp"}) /\ d.wp = "Custom"
    BY <1>1, <1>3 DEF C!WhitePoints
  <2>3. /\ r.ok <=> WhiteOk(e.white)
        /\ Keeps(d, r.c, {"wp", "white"}) /\ r.c.white \in C!Xy
        /\ r.c.wp = d.wp \/ r.c.wp = WpOf(e.white)
        /\ WhiteOk(e.white) => /\ r.c.wp = WpOf(e.white)
                               /\ r.c.white = IF WpOf(e.white) = "Custom" THEN e.white ELSE d.white
    BY <2>1, <2>2, SetWhite, TypedFields, StructFields
  <2>4. r.c.wp \in C!WhitePoints
    BY <2>2, <2>3, WpOfIs DEF C!WhitePoints, Whites3
  <2>5. Typed(r.c)
    BY <2>2, <2>3, <2>4, TypedKept, TypesOfFields
  <2>6. Keeps(c, r.c, {"wp", "white"})
    BY <2>2, <2>3 DEF Keeps
  <2> QED
    BY <1>3, <2>3, <2>5, <2>6
<1>4. CASE e.wp \notin {"none", "Custom"}
  <2>1. r = C!Ok(d)
    BY <1>4, SMT DEF C!ImportWhite, d, With
  <2>2. Typed(d) /\ Keeps(c, d, {"wp"}) /\ d.wp = e.wp
    BY <1>1, <1>4, StructFields
  <2>3. r.ok /\ r.c = d
    BY <2>1, Results, NotNo
  <2> QED
    BY <1>4, <2>2, <2>3 DEF Keeps
<1> QED
  BY <1>2, <1>3, <1>4

(* ... the primaries, ...                                                   *)
LEMMA ImportsPrimaries ==
  ASSUME NEW c, Typed(c), NEW e \in Structs, NEW r, r = C!ImportPrimaries(c, e)
  PROVE  /\ Typed(r.c) /\ Keeps(c, r.c, {"pr", "rgb"})
         /\ r.ok <=> \/ e.cs \in {"Gray", "XYB"}
                     \/ e.pr # "none" /\ (e.pr = "Custom" => PrimsOk(e.rgb))
         /\ r.ok /\ e.cs \notin {"Gray", "XYB"} =>
              /\ r.c.pr = IF e.pr = "Custom" THEN PrOf(e.rgb) ELSE e.pr
              /\ r.c.pr = "Custom" => r.c.rgb = e.rgb
<1> DEFINE d == With(c, "pr", e.pr)
<1>1. e.pr \in C!Primaries => Typed(d) /\ Keeps(c, d, {"pr"}) /\ d.pr = e.pr
  <2> SUFFICES ASSUME e.pr \in C!Primaries PROVE Typed(d) /\ Keeps(c, d, {"pr"}) /\ d.pr = e.pr
    OBVIOUS
  <2>1. Keeps(c, d, {"pr"}) /\ d.pr = e.pr
    BY TypedFields, WithIs, Names14
  <2> HIDE DEF d
  <2> QED
    BY <2>1, TypedKept, TypesOfFields
<1> HIDE DEF d
<1>2. CASE e.cs \in {"Gray", "XYB"}
  <2>1. r = C!Ok(c)
    BY <1>2, SMT DEF C!ImportPrimaries
  <2> QED
    BY <1>2, <2>1, Results, NotNo, TypedFields DEF Keeps
<1>3. CASE e.cs \notin {"Gray", "XYB"} /\ e.pr = "none"
  <2>1. r = C!Failure(c)
    BY <1>3, SMT DEF C!ImportPrimaries
  <2> QED
    BY <1>3, <2>1, Results, NotNo, TypedFields, ZenonT(40) DEF Keeps
<1>4. CASE e.cs \notin {"Gray", "XYB"} /\ e.pr = "Custom"
  <2>1. r = C!SetPrimaries(d, e.rgb)
    BY <1>4, SMT DEF C!ImportPrimaries, d, With
  <2>2. Typed(d) /\ Keeps(c, d, {"pr"}) /\ d.pr = "Custom"
    BY <1>1, <1>4 DEF C!Primaries
  <2>3. /\ r.ok <=> PrimsOk(e.rgb)
        /\ Keeps(d, r.c, {"pr", "rgb"}) /\ r.c.rgb \in C!Rgb
        /\ r.c.pr = d.pr \/ r.c.pr = PrOf(e.rgb)
        /\ PrimsOk(e.rgb) => /\ r.c.pr = PrOf(e.rgb)
                             /\ r.c.rgb = IF PrOf(e.rgb) = "Custom" THEN e.rgb ELSE d.rgb
    BY <2>1, <2>2, SetPrims, TypedFields, StructFields
  <2>4. r.c.pr \in C!Primaries
    BY <2>2, <2>3, PrOfIs DEF C!Primaries
  <2>5. Typed(r.c)
    BY <2>2, <2>3, <2>4, TypedKept, TypesOfFields
  <2>6. Keeps(c, r.c, {"pr", "rgb"})
    BY <2>2, <2>3 DEF Keeps
  <2> QED
    BY <1>4, <2>3, <2>5, <2>6
<1>5. CASE e.cs \notin {"Gray", "XYB"} /\ e.pr \notin {"none", "Custom"}
  <2>1. r = C!Ok(d)
    BY <1>5, SMT DEF C!ImportPrimaries, d, With
  <2>2. Typed(d) /\ Keeps(c, d, {"pr"}) /\ d.pr = e.pr
    BY <1>1, <1>5, StructFields
  <2>3. r.ok /\ r.c = d
    BY <2>1, Results, NotNo
  <2> QED
    BY <1>5, <2>2, <2>3 DEF Keeps
<1> QED
  BY <1>2, <1>3, <1>4, <1>5

(* ... the gamma, which SetGamma may round to a named curve, ...            *)
LEMMA SetsGamma ==
  ASSUME NEW c, Typed(c), NEW gamma \in Int, NEW r, r = C!SetGamma(c, gamma)
  PROVE  /\ Typed(r.c) /\ Keeps(c, r.c, {"have_gamma", "gamma", "tf"})
         /\ r.ok <=> C!ValidGamma(gamma)
         /\ r.ok => \/ r.c.have_gamma = No /\ r.c.tf \in {"Linear", "DCI"}
                    \/ r.c.have_gamma = Yes /\ r.c.gamma = gamma /\ r.c.tf = "Unknown"
<1>1. CASE ~C!ValidGamma(gamma)
  <2>1. r = C!Failure(c)
    BY <1>1, SMT DEF C!SetGamma
  <2> QED
    BY <1>1, <2>1, Results, NotNo, TypedFields DEF Keeps
<1>2. ASSUME NEW tf \in {"Linear", "DCI"}, C!ValidGamma(gamma),
             r = C!Ok(C!SetTransferFunction(c, tf))
      PROVE  r.ok /\ Typed(r.c) /\ Keeps(c, r.c, {"have_gamma", "gamma", "tf"})
             /\ r.c.have_gamma = No /\ r.c.tf = tf
  <2>1. r.ok /\ r.c = C!SetTransferFunction(c, tf)
    BY <1>2, Results, NotNo
  <2>2. Keeps(c, r.c, {"have_gamma", "tf"}) /\ r.c.have_gamma = No /\ r.c.tf = tf
    BY <2>1, SetTf, TypedFields
  <2>3. Typed(r.c)
    BY <2>2, TypedKept, TypesOfFields, YesNo DEF C!Curves
  <2> QED
    BY <2>1, <2>2, <2>3 DEF Keeps
<1>3. ASSUME C!ValidGamma(gamma),
             r = C!Ok([c EXCEPT !.have_gamma = TRUE, !.gamma = gamma, !.tf = "Unknown"])
      PROVE  r.ok /\ Typed(r.c) /\ Keeps(c, r.c, {"have_gamma", "gamma", "tf"})
             /\ r.c.have_gamma = Yes /\ r.c.gamma = gamma /\ r.c.tf = "Unknown"
  <2> DEFINE d == With(With(c, "have_gamma", Yes), "gamma", gamma)
  <2> DEFINE e == With(d, "tf", "Unknown")
  <2>1. r = C!Ok(e)
    BY <1>3, Zenon DEF With, Yes
  <2>2. d = With(With(c, "have_gamma", Yes), "gamma", gamma) /\ e = With(d, "tf", "Unknown")
    OBVIOUS
  <2> HIDE DEF d, e
  <2>3. Keeps(c, d, {"have_gamma", "gamma"}) /\ d["have_gamma"] = Yes /\ d["gamma"] = gamma
    BY <2>2, With2, Names14, TypedFields
  <2>4. Keeps(d, e, {"tf"}) /\ e["tf"] = "Unknown"
    BY <2>2, <2>3, WithIs, Names14 DEF Keeps
  <2>5. /\ Keeps(c, e, {"have_gamma", "gamma", "tf"})
        /\ e.have_gamma = Yes /\ e.gamma = gamma /\ e.tf = "Unknown"
    BY <2>3, <2>4, Names14 DEF Keeps
  <2>6. Typed(e)
    BY <2>5, TypedKept, TypesOfFields, YesNo DEF C!Curves
  <2>7. r.ok /\ r.c = e
    BY <2>1, Results, NotNo
  <2> QED
    BY <2>5, <2>6, <2>7
<1>4. CASE C!ValidGamma(gamma)
  <2> DEFINE linear == C!NearLinear(gamma)
  <2> DEFINE dci == C!NearDCI(gamma)
  <2>1. /\ linear => r = C!Ok(C!SetTransferFunction(c, "Linear"))
        /\ ~linear /\ dci => r = C!Ok(C!SetTransferFunction(c, "DCI"))
        /\ ~linear /\ ~dci =>
             r = C!Ok([c EXCEPT !.have_gamma = TRUE, !.gamma = gamma, !.tf = "Unknown"])
    BY <1>4, Zenon DEF C!SetGamma
  <2> HIDE DEF linear, dci
  <2>2. CASE linear
    BY <1>2, <1>4, <2>1, <2>2
  <2>3. CASE ~linear /\ dci
    BY <1>2, <1>4, <2>1, <2>3
  <2>4. CASE ~linear /\ ~dci
    BY <1>3, <1>4, <2>1, <2>4
  <2> QED
    BY <2>2, <2>3, <2>4
<1> QED
  BY <1>1, <1>4

TfMeans(d, e) ==
  IF e.tf = "Gamma"
  THEN \/ d.have_gamma = No /\ d.tf \in {"Linear", "DCI"}
       \/ d.have_gamma = Yes /\ d.gamma = e.gamma /\ d.tf = "Unknown"
  ELSE d.have_gamma = No /\ d.tf = e.tf
TfOk(e) == e.tf # "none" /\ (e.tf = "Gamma" => C!ValidGamma(e.gamma))

(* ... the transfer function, ...                                           *)
LEMMA ImportsTf ==
  ASSUME NEW c, Typed(c), NEW e \in Structs, NEW r, r = C!ImportTf(c, e)
  PROVE  /\ Typed(r.c) /\ Keeps(c, r.c, {"have_gamma", "gamma", "tf", "tfcs"})
         /\ r.ok <=> TfOk(e)
         /\ r.ok => TfMeans(r.c, e) /\ r.c.tfcs = "RGB"
<1> DEFINE a == With(With(c, "have_gamma", No), "gamma", C!Unity)
<1> DEFINE b == With(With(a, "tf", "SRGB"), "tfcs", "RGB")
<1>1. b = [c EXCEPT !.have_gamma = FALSE, !.gamma = C!Unity, !.tf = "SRGB", !.tfcs = "RGB"]
  BY Zenon DEF With, No
<1>2. /\ a = With(With(c, "have_gamma", No), "gamma", C!Unity)
      /\ b = With(With(a, "tf", "SRGB"), "tfcs", "RGB")
  OBVIOUS
<1> HIDE DEF a, b
<1>3. Keeps(c, a, {"have_gamma", "gamma"}) /\ a["have_gamma"] = No /\ a["gamma"] = C!Unity
  BY SMTT(40), <1>2, With2, Names14, TypedFields
<1>4. C!Unity \in Int
  BY SMT DEF C!Unity
<1>5. Typed(a)
  BY <1>3, <1>4, TypedKept, TypesOfFields, YesNo
<1>6. Keeps(a, b, {"tf", "tfcs"}) /\ b["tf"] = "SRGB" /\ b["tfcs"] = "RGB"
  <2>1. Whole(a)
    BY <1>5, TypedFields
  <2>2. /\ "tf" \in Names /\ "tfcs" \in Names /\ "tf" # "tfcs"
        /\ b = With(With(a, "tf", "SRGB"), "tfcs", "RGB")
    BY <1>2, Names14
  <2> QED
    BY ONLY <2>1, <2>2, With2
<1>7. Typed(b) /\ Keeps(c, b, {"have_gamma", "gamma", "tf", "tfcs"}) /\ b.tfcs = "RGB"
  <2>1. Typed(b)
    BY <1>5, <1>6, TypedKept, TypesOfFields DEF C!Curves, C!Spaces
  <2> QED
    BY <1>3, <1>6, <2>1 DEF Keeps
<1>8. CASE e.tf = "none"
  <2>1. r = C!Failure(c)
    BY <1>8, SMT DEF C!ImportTf
  <2> QED
    BY <1>8, <2>1, Results, NotNo, TypedFields DEF Keeps, TfOk
<1>9. CASE e.tf = "Gamma"
  <2> DEFINE g == C!SetGamma(b, e.gamma)
  <2>1. r = IF g.ok THEN g ELSE C!Failure(c)
    BY <1>1, <1>9, SMT DEF C!ImportTf
  <2>2. /\ Typed(g.c) /\ Keeps(b, g.c, {"have_gamma", "gamma", "tf"})
        /\ g.ok <=> C!ValidGamma(e.gamma)
        /\ g.ok => \/ g.c.have_gamma = No /\ g.c.tf \in {"Linear", "DCI"}
                   \/ g.c.have_gamma = Yes /\ g.c.gamma = e.gamma /\ g.c.tf = "Unknown"
    BY <1>7, SetsGamma, StructFields
  <2> HIDE DEF g
  <2>3. CASE g.ok
    <3>1. r = g /\ TfOk(e) /\ TfMeans(g.c, e)
      BY <1>9, <2>1, <2>2, <2>3 DEF TfOk, TfMeans
    <3>2. Keeps(c, g.c, {"have_gamma", "gamma", "tf", "tfcs"}) /\ g.c.tfcs = "RGB"
      BY <1>7, <2>2, Names14 DEF Keeps
    <3> QED
      BY <2>2, <2>3, <3>1, <3>2
  <2>4. CASE ~g.ok
    <3>1. r = C!Failure(c) /\ ~TfOk(e)
      BY <1>9, <2>1, <2>2, <2>4 DEF TfOk
    <3> QED
      BY <3>1, Results, NotNo, TypedFields DEF Keeps
  <2> QED
    BY <2>3, <2>4
<1>10. CASE e.tf \notin {"none", "Gamma"}
  <2> DEFINE d == C!SetTransferFunction(b, e.tf)
  <2>1. r = C!Ok(d)
    BY <1>1, <1>10, SMT DEF C!ImportTf
  <2>2. Keeps(b, d, {"have_gamma", "tf"}) /\ d.have_gamma = No /\ d.tf = e.tf
    BY <1>7, SetTf, TypedFields
  <2> HIDE DEF d
  <2>3. e.tf \in C!Curves
    BY <1>10, StructFields
  <2>4. Typed(d)
    BY <1>7, <2>2, <2>3, TypedKept, TypesOfFields, YesNo
  <2>5. Keeps(c, d, {"have_gamma", "gamma", "tf", "tfcs"}) /\ d.tfcs = "RGB"
    BY <1>7, <2>2, Names14 DEF Keeps
  <2>6. r.ok /\ r.c = d
    BY <2>1, Results, NotNo
  <2> QED
    BY <1>10, <2>2, <2>4, <2>5, <2>6 DEF TfOk, TfMeans
<1> QED
  BY <1>8, <1>9, <1>10

ImportOk(e) ==
  /\ e.wp # "none" /\ (e.wp = "Custom" => WhiteOk(e.white))
  /\ \/ e.cs \in {"Gray", "XYB"}
     \/ e.pr # "none" /\ (e.pr = "Custom" => PrimsOk(e.rgb))
  /\ TfOk(e)
ImportedAs(d, e) ==
  /\ d.cs = e.cs /\ d.ri = e.ri /\ TfMeans(d, e)
  /\ d.wp = IF e.wp = "Custom" THEN WpOf(e.white) ELSE e.wp
  /\ d.wp = "Custom" => d.white = e.white
  /\ e.cs \notin {"Gray", "XYB"} =>
       /\ d.pr = IF e.pr = "Custom" THEN PrOf(e.rgb) ELSE e.pr
       /\ d.pr = "Custom" => d.rgb = e.rgb

(* ... and the whole struct: what was imported is well-typed.               *)
LEMMA Imports ==
  ASSUME NEW c, Good(c), NEW e \in Structs, NEW r, r = C!FromExternal(c, e)
  PROVE  /\ Good(r.c) /\ r.c.want_icc = c.want_icc /\ r.c.have_fields = c.have_fields
         /\ r.ok <=> ImportOk(e)
         /\ ImportOk(e) => Describes(r.c) /\ ImportedAs(r.c, e)
<1> DEFINE b == C!SetColorSpace(c, e.cs)
<1> DEFINE w == C!ImportWhite(b, e)
<1>1. r = C!PrimariesAfter(w, e)
  BY DEF C!FromExternal
<1>2. Typed(b) /\ Keeps(c, b, {"cs", "tfcs"}) /\ b.cs = e.cs
  <2>1. Keeps(c, b, {"cs", "tfcs"}) /\ b.cs = e.cs /\ b.tfcs = e.cs
    BY SetCs, TypedFields DEF Good
  <2> HIDE DEF b
  <2> QED
    BY <2>1, TypedKept, TypesOfFields, StructFields DEF Good
<1> HIDE DEF b
<1>3. /\ Typed(w.c) /\ Keeps(b, w.c, {"wp", "white"})
      /\ w.ok <=> e.wp # "none" /\ (e.wp = "Custom" => WhiteOk(e.white))
      /\ w.ok => /\ w.c.wp = IF e.wp = "Custom" THEN WpOf(e.white) ELSE e.wp
                 /\ w.c.wp = "Custom" => w.c.white = e.white
  BY <1>2, ImportsWhite
<1> HIDE DEF w
<1>4. Keeps(c, w.c, {"cs", "tfcs", "wp", "white"}) /\ w.c.cs = e.cs
  BY <1>2, <1>3, Names14 DEF Keeps
<1>5. CASE ~w.ok
  <2>1. r = w /\ ~ImportOk(e)
    BY <1>1, <1>3, <1>5 DEF C!PrimariesAfter, ImportOk
  <2>2. w.c.icc = c.icc /\ w.c.want_icc = c.want_icc /\ w.c.have_fields = c.have_fields
    BY <1>4, Names14 DEF Keeps
  <2> QED
    BY <1>3, <1>5, <2>1, <2>2 DEF Good, IccOk
<1>6. CASE w.ok
  <2> DEFINE p == C!ImportPrimaries(w.c, e)
  <2>1. r = C!TfAfter(p, e)
    BY <1>1, <1>6 DEF C!PrimariesAfter
  <2>2. /\ Typed(p.c) /\ Keeps(w.c, p.c, {"pr", "rgb"})
        /\ p.ok <=> \/ e.cs \in {"Gray", "XYB"}
                    \/ e.pr # "none" /\ (e.pr = "Custom" => PrimsOk(e.rgb))
        /\ p.ok /\ e.cs \notin {"Gray", "XYB"} =>
             /\ p.c.pr = IF e.pr = "Custom" THEN PrOf(e.rgb) ELSE e.pr
             /\ p.c.pr = "Custom" => p.c.rgb = e.rgb
    BY <1>3, ImportsPrimaries
  <2> HIDE DEF p
  <2>3. Keeps(c, p.c, {"cs", "tfcs", "wp", "white", "pr", "rgb"})
    BY <1>4, <2>2 DEF Keeps
  <2>4. p.c.cs = e.cs /\ p.c.wp = w.c.wp /\ p.c.white = w.c.white
    BY <1>4, <2>2, Names14 DEF Keeps
  <2>5. CASE ~p.ok
    <3>1. r = p /\ ~ImportOk(e)
      BY <2>1, <2>2, <2>5 DEF C!TfAfter, ImportOk
    <3>2. p.c.icc = c.icc /\ p.c.want_icc = c.want_icc /\ p.c.have_fields = c.have_fields
      BY <2>3, Names14 DEF Keeps
    <3> QED
      BY <2>2, <2>5, <3>1, <3>2 DEF Good, IccOk
  <2>6. CASE p.ok
    <3> DEFINE t == C!ImportTf(p.c, e)
    <3>1. r = C!Imported(t, e)
      BY <2>1, <2>6 DEF C!TfAfter
    <3>2. /\ Typed(t.c) /\ Keeps(p.c, t.c, {"have_gamma", "gamma", "tf", "tfcs"})
          /\ t.ok <=> TfOk(e)
          /\ t.ok => TfMeans(t.c, e)
      BY <2>2, ImportsTf
    <3> HIDE DEF t
    <3>3. Keeps(c, t.c, {"cs", "tfcs", "wp", "white", "pr", "rgb", "have_gamma", "gamma", "tf"})
      BY <2>3, <3>2 DEF Keeps
    <3>4. CASE ~t.ok
      <4>1. r = t /\ ~ImportOk(e)
        BY <3>1, <3>2, <3>4 DEF C!Imported, ImportOk
      <4>2. t.c.icc = c.icc /\ t.c.want_icc = c.want_icc /\ t.c.have_fields = c.have_fields
        BY <3>3, Names14 DEF Keeps
      <4> QED
        BY <3>2, <3>4, <4>1, <4>2 DEF Good, IccOk
    <3>5. CASE t.ok
      <4> DEFINE i == With(t.c, "ri", e.ri)
      <4> DEFINE q == C!CreateICC(i)
      <4>1. r = C!Ok(q.c) /\ ImportOk(e)
        BY <1>3, <1>6, <2>2, <2>6, <3>1, <3>2, <3>5, Zenon DEF C!Imported, ImportOk, With
      <4>2. Keeps(t.c, i, {"ri"}) /\ i["ri"] = e.ri
        BY <3>2, TypedFields, WithIs, Names14
      <4> HIDE DEF i
      <4>3. Typed(i)
        BY <3>2, <4>2, TypedKept, TypesOfFields, StructFields
      <4>4. Good(q.c) /\ Describes(q.c) /\ Keeps(i, q.c, {"icc"})
        BY <4>3, CreatedICC
      <4> HIDE DEF q
      <4>5. r.ok /\ r.c = q.c
        BY <4>1, Results, NotNo
      <4>6. /\ q.c.cs = e.cs /\ q.c.ri = e.ri /\ q.c.wp = w.c.wp /\ q.c.white = w.c.white
            /\ q.c.pr = p.c.pr /\ q.c.rgb = p.c.rgb /\ q.c.have_gamma = t.c.have_gamma
            /\ q.c.gamma = t.c.gamma /\ q.c.tf = t.c.tf
        BY <2>4, <3>2, <4>2, <4>4, Names14 DEF Keeps
      <4>7. q.c.want_icc = c.want_icc /\ q.c.have_fields = c.have_fields
        BY <3>3, <4>2, <4>4, Names14 DEF Keeps
      <4>8. TfMeans(q.c, e)
        BY <3>2, <3>5, <4>6 DEF TfMeans
      <4>9. ImportedAs(q.c, e)
        BY <1>3, <1>6, <2>2, <2>6, <4>6, <4>8 DEF ImportedAs
      <4> QED
        BY <4>1, <4>4, <4>5, <4>7, <4>9
    <3> QED
      BY <3>4, <3>5
  <2> QED
    BY <2>5, <2>6
<1> QED
  BY <1>5, <1>6

-------------------------------------------------------------------------------
(* A line of text.                                                          *)
LEMMA XybGammaIs == C!XybGamma \in Int /\ C!ValidGamma(C!XybGamma)
BY SMT DEF C!XybGamma, C!ValidGamma, C!Unity

(* A token of a line is one of its tokens.                                  *)
LEMMA TokenIs ==
  ASSUME NEW S, NEW s \in Seq(S), s # <<>>, NEW i \in Nat \ {0}
  PROVE  C!Token(s, i) \in S
<1>1. Len(s) \in Nat \ {0} /\ \A k \in 1 .. Len(s) : s[k] \in S
  BY EmptySeq, LenProperties, ElementOfSeq
<1>2. ((i - 1) % Len(s)) + 1 \in 1 .. Len(s)
  BY <1>1
<1> QED
  BY <1>1, <1>2 DEF C!Token

(* Tokens, by kind.                                                         *)
LEMMA TokenFields ==
  ASSUME NEW token \in C!Tokens
  PROVE  /\ token.kind = "numbers" => token.numbers \in Seq(Int) /\ token.numbers # <<>>
         /\ token.kind = "gamma" => token.gamma \in Int
BY DEF C!Tokens

(* A token with a meaning means one of the names.                           *)
LEMMA MeaningIs ==
  ASSUME NEW token, NEW names, C!Means(token, names)
  PROVE  C!Meaning(token, names) \in DOMAIN names /\ token.kind = "word"
BY DEF C!Means, C!Meaning

(* Every enumerated value has a name.                                       *)
LEMMA NamesMean ==
  /\ DOMAIN C!SpaceName = C!Spaces /\ DOMAIN C!WhiteName = C!WhitePoints
  /\ DOMAIN C!PrimariesName = C!Primaries /\ DOMAIN C!TfName = C!Curves
  /\ DOMAIN C!IntentName = C!RenderingIntents
BY DEF C!SpaceName, C!Spaces, C!WhiteName, C!WhitePoints, C!PrimariesName, C!Primaries,
       C!TfName, C!Curves, C!IntentName, C!RenderingIntents

Parsings(line) == [ok : BOOLEAN, e : Structs, line : {line}, next : Nat \ {0}]

(* Fields of the struct may be assigned one by one.                         *)
LEMMA StructChanged ==
  ASSUME NEW e \in Structs
  PROVE  /\ \A v \in C!Spaces : [e EXCEPT !.cs = v] \in Structs
         /\ \A v \in C!WhitePoints : [e EXCEPT !.wp = v] \in Structs
         /\ \A v \in C!Xy : [e EXCEPT !.white = v] \in Structs
         /\ \A v \in C!Primaries : [e EXCEPT !.pr = v] \in Structs
         /\ \A v \in C!Rgb : [e EXCEPT !.rgb = v] \in Structs
         /\ \A v \in C!Curves \cup {"Gamma"} : [e EXCEPT !.tf = v] \in Structs
         /\ \A v \in Int : [e EXCEPT !.gamma = v] \in Structs
         /\ \A v \in C!RenderingIntents : [e EXCEPT !.ri = v] \in Structs
BY DEF Structs

(* What a step of the parser changes.                                       *)
LEMMA ParsingChanged ==
  ASSUME NEW line, NEW p \in Parsings(line)
  PROVE  /\ p.e \in Structs
         /\ [p EXCEPT !.ok = FALSE] \in Parsings(line)
         /\ \A e \in Structs : [p EXCEPT !.e = e] \in Parsings(line)
         /\ [p EXCEPT !.next = @ + 1] \in Parsings(line)
<1>1. p.e \in Structs
  BY DEF Parsings
<1>2. \A b \in BOOLEAN : [p EXCEPT !.ok = b] \in Parsings(line)
  BY DEF Parsings
<1>3. [p EXCEPT !.ok = FALSE] \in Parsings(line)
  BY <1>2, Zenon
<1>4. \A e \in Structs : [p EXCEPT !.e = e] \in Parsings(line)
  BY DEF Parsings
<1>5. [p EXCEPT !.next = @ + 1] \in Parsings(line)
  <2>1. p.next + 1 \in Nat \ {0}
    BY DEF Parsings
  <2>2. \A n \in Nat \ {0} : [p EXCEPT !.next = n] \in Parsings(line)
    BY DEF Parsings
  <2> QED
    BY <2>1, <2>2
<1> QED
  BY <1>1, <1>3, <1>4, <1>5

(* What the parts of a line say.                                             *)
StructNames == {"cs", "wp", "white", "pr", "rgb", "tf", "gamma", "ri"}
Alike(d, e, changed) == \A f \in StructNames \ changed : d[f] = e[f]

(* Assigning a field of the struct leaves the others.                       *)
LEMMA StructAssigned ==
  ASSUME NEW e \in Structs, NEW v
  PROVE  /\ [e EXCEPT !.cs = v].cs = v /\ Alike([e EXCEPT !.cs = v], e, {"cs"})
         /\ [e EXCEPT !.wp = v].wp = v /\ Alike([e EXCEPT !.wp = v], e, {"wp"})
         /\ [e EXCEPT !.white = v].white = v /\ Alike([e EXCEPT !.white = v], e, {"white"})
         /\ [e EXCEPT !.pr = v].pr = v /\ Alike([e EXCEPT !.pr = v], e, {"pr"})
         /\ [e EXCEPT !.tf = v].tf = v /\ Alike([e EXCEPT !.tf = v], e, {"tf"})
         /\ [e EXCEPT !.gamma = v].gamma = v /\ Alike([e EXCEPT !.gamma = v], e, {"gamma"})
         /\ [e EXCEPT !.ri = v].ri = v /\ Alike([e EXCEPT !.ri = v], e, {"ri"})
BY DEF Structs, Alike, StructNames

(* ... which are these.                                                     *)
LEMMA AlikeFields ==
  ASSUME NEW d, NEW e
  PROVE  /\ Alike(d, e, {"cs"}) => d.ri = e.ri
         /\ Alike(d, e, {"wp"}) => d.cs = e.cs
         /\ Alike(d, e, {"wp", "white"}) => d.cs = e.cs
         /\ Alike(d, e, {"pr"}) => d.cs = e.cs /\ d.wp = e.wp /\ d.white = e.white
         /\ Alike(d, e, {"ri"}) =>
              d.cs = e.cs /\ d.wp = e.wp /\ d.white = e.white /\ d.pr = e.pr
         /\ Alike(d, e, {"tf"}) =>
              d.cs = e.cs /\ d.wp = e.wp /\ d.white = e.white /\ d.pr = e.pr /\ d.ri = e.ri
         /\ Alike(d, e, {"tf", "gamma"}) =>
              d.cs = e.cs /\ d.wp = e.wp /\ d.white = e.white /\ d.pr = e.pr /\ d.ri = e.ri
BY DEF Alike, StructNames

(* A step of the parser that changes the struct, on the same token or on    *)
(* the next.                                                                *)
Here(p, e) == [p EXCEPT !.e = e]
On(p, e) == [Here(p, e) EXCEPT !.next = @ + 1]
MovedTo(q, p, e, line, n) ==
  q \in Parsings(line) /\ (q.ok <=> p.ok) /\ q.e = e /\ q.next = n

(* ... and what is left alone.                                              *)
LEMMA MovedHere ==
  ASSUME NEW line, NEW p \in Parsings(line), NEW e \in Structs
  PROVE  MovedTo(Here(p, e), p, e, line, p.next)
<1>1. Here(p, e) \in Parsings(line)
  BY ParsingChanged DEF Here
<1>2. Here(p, e).ok = p.ok /\ Here(p, e).e = e /\ Here(p, e).next = p.next
  BY DEF Parsings, Here
<1> QED
  BY <1>1, <1>2 DEF MovedTo

(* ... and what is left alone.                                              *)
LEMMA MovedOn ==
  ASSUME NEW line, NEW p \in Parsings(line), NEW e \in Structs
  PROVE  MovedTo(On(p, e), p, e, line, p.next + 1)
<1>1. PICK d : d = Here(p, e)
  OBVIOUS
<1>2. d \in Parsings(line) /\ (d.ok <=> p.ok) /\ d.e = e /\ d.next = p.next
  BY <1>1, MovedHere DEF MovedTo
<1>3. On(p, e) = [d EXCEPT !.next = @ + 1]
  BY <1>1 DEF On
<1>4. On(p, e) \in Parsings(line)
  BY <1>2, <1>3, ParsingChanged
<1>5. On(p, e).ok = d.ok /\ On(p, e).e = d.e /\ On(p, e).next = d.next + 1
  BY <1>2, <1>3 DEF Parsings
<1> QED
  BY <1>2, <1>4, <1>5 DEF MovedTo

(* A token that is refused.                                                 *)
LEMMA Refused ==
  ASSUME NEW line, NEW p \in Parsings(line), NEW q, q = [p EXCEPT !.ok = FALSE]
  PROVE  ~q.ok /\ q \in Parsings(line)
BY ParsingChanged DEF Parsings

(* ParseColorSpace.                                                         *)
LEMMA SaysSpace ==
  ASSUME NEW line, NEW p \in Parsings(line), NEW token,
         NEW q, q = C!ParseColorSpace(p, token)
  PROVE  /\ q \in Parsings(line) /\ (q.ok => C!Means(token, C!SpaceName))
         /\ C!Means(token, C!SpaceName) =>
              /\ (q.ok <=> p.ok) /\ q.next = p.next + 1
              /\ q.e.cs = C!Meaning(token, C!SpaceName) /\ Alike(q.e, p.e, {"cs"})
<1>0. p.e \in Structs
  BY ParsingChanged
<1>1. CASE C!Means(token, C!SpaceName)
  <2>0. PICK v : v = C!Meaning(token, C!SpaceName)
    OBVIOUS
  <2>9. PICK e : e = [p.e EXCEPT !.cs = v]
    OBVIOUS
  <2>1. v \in C!Spaces
    BY <1>1, <2>0, MeaningIs, NamesMean
  <2>2. q = On(p, e)
    BY <1>1, <2>0, <2>9 DEF C!ParseColorSpace, Parsings, On, Here
  <2>3. e \in Structs /\ e.cs = v /\ Alike(e, p.e, {"cs"})
    BY <1>0, <2>1, <2>9, StructChanged, StructAssigned
  <2>4. MovedTo(q, p, e, line, p.next + 1)
    BY <2>2, <2>3, MovedOn
  <2> QED
    BY <1>1, <2>0, <2>3, <2>4 DEF MovedTo
<1>2. CASE ~C!Means(token, C!SpaceName)
  BY <1>2, Refused DEF C!ParseColorSpace
<1> QED
  BY <1>1, <1>2

(* ParseRenderingIntent.                                                    *)
LEMMA SaysIntent ==
  ASSUME NEW line, NEW p \in Parsings(line), NEW token,
         NEW q, q = C!ParseRenderingIntent(p, token)
  PROVE  /\ q \in Parsings(line) /\ (q.ok => C!Means(token, C!IntentName))
         /\ C!Means(token, C!IntentName) =>
              /\ (q.ok <=> p.ok) /\ q.next = p.next + 1
              /\ q.e.ri = C!Meaning(token, C!IntentName) /\ Alike(q.e, p.e, {"ri"})
<1>0. p.e \in Structs
  BY ParsingChanged
<1>1. CASE C!Means(token, C!IntentName)
  <2>0. PICK v : v = C!Meaning(token, C!IntentName)
    OBVIOUS
  <2>9. PICK e : e = [p.e EXCEPT !.ri = v]
    OBVIOUS
  <2>1. v \in C!RenderingIntents
    BY <1>1, <2>0, MeaningIs, NamesMean
  <2>2. q = On(p, e)
    BY <1>1, <2>0, <2>9 DEF C!ParseRenderingIntent, Parsings, On, Here
  <2>3. e \in Structs /\ e.ri = v /\ Alike(e, p.e, {"ri"})
    BY <1>0, <2>1, <2>9, StructChanged, StructAssigned
  <2>4. MovedTo(q, p, e, line, p.next + 1)
    BY <2>2, <2>3, MovedOn
  <2> QED
    BY <1>1, <2>0, <2>3, <2>4 DEF MovedTo
<1>2. CASE ~C!Means(token, C!IntentName)
  BY <1>2, Refused DEF C!ParseRenderingIntent
<1> QED
  BY <1>1, <1>2

(* What the parser needs of a token.                                        *)
TokenOk(token) ==
  /\ token.kind = "numbers" => token.numbers \in Seq(Int) /\ token.numbers # <<>>
  /\ token.kind = "gamma" => token.gamma \in Int

(* Two fields assigned in turn.                                             *)
LEMMA AlikeTwice ==
  ASSUME NEW c, NEW d, NEW e
  PROVE  /\ Alike(d, e, {"wp"}) => Alike(d, e, {"wp", "white"})
         /\ Alike(d, e, {"wp"}) /\ Alike(c, d, {"white"}) => Alike(c, e, {"wp", "white"})
         /\ Alike(d, e, {"tf"}) => Alike(d, e, {"tf", "gamma"})
         /\ Alike(d, e, {"tf"}) /\ Alike(c, d, {"gamma"}) => Alike(c, e, {"tf", "gamma"})
BY DEF Alike, StructNames

(* ParseWhitePoint: what a token says of the white point.                   *)
WhiteSaid(q, p, token, line) ==
  /\ q \in Parsings(line)
  /\ q.ok => q.e.wp # "none" /\ p.ok /\ Alike(q.e, p.e, {"wp", "white"})
  /\ p.e.cs = "XYB" => /\ (q.ok <=> p.ok) /\ q.next = p.next /\ q.e.wp = "D65"
  /\ p.e.cs # "XYB" /\ C!Means(token, C!WhiteName) =>
       (q.ok <=> p.ok) /\ q.next = p.next + 1 /\ q.e.wp = C!Meaning(token, C!WhiteName)
  /\ p.e.cs # "XYB" /\ token.kind = "numbers" =>
       /\ (q.ok <=> p.ok) /\ q.next = p.next + 1 /\ q.e.wp = "Custom"
       /\ q.e.white = <<C!Token(token.numbers, 1), C!Token(token.numbers, 2)>>

(* ... is what the code takes from it.                                      *)
LEMMA SaysWhite ==
  ASSUME NEW line, NEW p \in Parsings(line), NEW token, TokenOk(token),
         NEW q, q = C!ParseWhitePoint(p, token)
  PROVE  WhiteSaid(q, p, token, line)
<1>0. p.e \in Structs
  BY ParsingChanged
<1>1. "D65" \in C!WhitePoints /\ "Custom" \in C!WhitePoints
  BY DEF C!WhitePoints
<1>2. CASE p.e.cs = "XYB"
  <2>1. PICK e : e = [p.e EXCEPT !.wp = "D65"]
    OBVIOUS
  <2>2. q = Here(p, e)
    BY <1>2, <2>1 DEF C!ParseWhitePoint, Parsings, Here
  <2>3. e \in Structs /\ e.wp = "D65" /\ Alike(e, p.e, {"wp"})
    BY <1>0, <1>1, <2>1, StructChanged, StructAssigned
  <2>4. MovedTo(q, p, e, line, p.next)
    BY <2>2, <2>3, MovedHere
  <2>5. Alike(e, p.e, {"wp", "white"})
    BY <2>3, AlikeTwice
  <2> QED
    BY <1>2, <2>3, <2>4, <2>5 DEF MovedTo, WhiteSaid
<1>3. CASE p.e.cs # "XYB" /\ C!Means(token, C!WhiteName)
  <2>1. PICK wp : wp = C!Meaning(token, C!WhiteName)
    OBVIOUS
  <2>2. PICK e : e = [p.e EXCEPT !.wp = wp]
    OBVIOUS
  <2>3. wp \in C!WhitePoints /\ token.kind # "numbers"
    BY <1>3, <2>1, MeaningIs, NamesMean
  <2>4. q = [p EXCEPT !.e.wp = wp, !.next = @ + 1]
    BY <1>3, <2>1, MeaningIs DEF C!ParseWhitePoint
  <2>5. q = On(p, e)
    BY <2>2, <2>4 DEF Parsings, On, Here
  <2>6. e \in Structs /\ e.wp = wp /\ Alike(e, p.e, {"wp"})
    BY <1>0, <2>2, <2>3, StructChanged, StructAssigned
  <2>7. MovedTo(q, p, e, line, p.next + 1)
    BY <2>5, <2>6, MovedOn
  <2>8. Alike(e, p.e, {"wp", "white"}) /\ wp # "none"
    BY <2>3, <2>6, AlikeTwice DEF C!WhitePoints
  <2> QED
    BY <1>3, <2>1, <2>3, <2>6, <2>7, <2>8 DEF MovedTo, WhiteSaid
<1>4. CASE p.e.cs # "XYB" /\ ~C!Means(token, C!WhiteName) /\ token.kind = "numbers"
  <2>1. PICK white : white = <<C!Token(token.numbers, 1), C!Token(token.numbers, 2)>>
    OBVIOUS
  <2>2. PICK d, e : d = [p.e EXCEPT !.wp = "Custom"] /\ e = [d EXCEPT !.white = white]
    OBVIOUS
  <2>3. C!Token(token.numbers, 1) \in Int /\ C!Token(token.numbers, 2) \in Int
    BY <1>4, TokenIs DEF TokenOk
  <2>4. white \in C!Xy
    BY <2>1, <2>3 DEF C!Xy
  <2>5. d \in Structs /\ d.wp = "Custom" /\ Alike(d, p.e, {"wp"})
    BY <1>0, <1>1, <2>2, StructChanged, StructAssigned
  <2>6. e \in Structs /\ e.white = white /\ Alike(e, d, {"white"})
    BY <2>2, <2>4, <2>5, StructChanged, StructAssigned
  <2>7. e.wp = "Custom" /\ Alike(e, p.e, {"wp", "white"})
    BY <2>5, <2>6, AlikeTwice DEF Alike, StructNames
  <2>8. q = On(p, e)
    BY <1>4, <2>1, <2>2 DEF C!ParseWhitePoint, Parsings, Structs, On, Here
  <2>9. MovedTo(q, p, e, line, p.next + 1)
    BY <2>6, <2>8, MovedOn
  <2> QED
    BY <1>4, <2>1, <2>6, <2>7, <2>9 DEF MovedTo, WhiteSaid
<1>5. CASE p.e.cs # "XYB" /\ ~C!Means(token, C!WhiteName) /\ token.kind # "numbers"
  <2>1. PICK e : e = [p.e EXCEPT !.wp = "Custom"]
    OBVIOUS
  <2>2. q = [Here(p, e) EXCEPT !.ok = FALSE]
    BY <1>5, <2>1 DEF C!ParseWhitePoint, Parsings, Here
  <2>3. Here(p, e) \in Parsings(line)
    BY <1>0, <1>1, <2>1, StructChanged, MovedHere DEF MovedTo
  <2>4. ~q.ok /\ q \in Parsings(line)
    BY <2>2, <2>3, Refused
  <2> QED
    BY <1>5, <2>4 DEF WhiteSaid
<1> QED
  BY <1>2, <1>3, <1>4, <1>5

(* ParsePrimaries, which refuses six numbers.                               *)
PrimariesSaid(q, p, token, line) ==
  /\ q \in Parsings(line)
  /\ q.ok => p.ok /\ Alike(q.e, p.e, {"pr"})
  /\ p.e.cs \in {"Gray", "XYB"} => q = p
  /\ p.e.cs \notin {"Gray", "XYB"} /\ q.ok => q.e.pr # "none"
  /\ p.e.cs \notin {"Gray", "XYB"} /\ C!Means(token, C!PrimariesName) =>
       (q.ok <=> p.ok) /\ q.next = p.next + 1 /\ q.e.pr = C!Meaning(token, C!PrimariesName)

(* ... is what the code takes from a token.                                 *)
LEMMA SaysPrimaries ==
  ASSUME NEW line, NEW p \in Parsings(line), NEW token, TokenOk(token),
         NEW q, q = C!ParsePrimaries(p, token)
  PROVE  PrimariesSaid(q, p, token, line)
<1>0. p.e \in Structs
  BY ParsingChanged
<1>2. CASE p.e.cs \in {"Gray", "XYB"}
  <2>1. q = p
    BY <1>2 DEF C!ParsePrimaries
  <2> QED
    BY <1>2, <2>1 DEF PrimariesSaid, Alike
<1>3. CASE p.e.cs \notin {"Gray", "XYB"} /\ C!Means(token, C!PrimariesName)
  <2>1. PICK pr : pr = C!Meaning(token, C!PrimariesName)
    OBVIOUS
  <2>2. PICK e : e = [p.e EXCEPT !.pr = pr]
    OBVIOUS
  <2>3. pr \in C!Primaries /\ token.kind # "numbers"
    BY <1>3, <2>1, MeaningIs, NamesMean
  <2>4. q = [p EXCEPT !.e.pr = pr, !.next = @ + 1]
    BY <1>3, <2>1, MeaningIs DEF C!ParsePrimaries
  <2>5. q = On(p, e)
    BY <2>2, <2>4 DEF Parsings, On, Here
  <2>6. e \in Structs /\ e.pr = pr /\ Alike(e, p.e, {"pr"})
    BY <1>0, <2>2, <2>3, StructChanged, StructAssigned
  <2>7. MovedTo(q, p, e, line, p.next + 1)
    BY <2>5, <2>6, MovedOn
  <2>8. pr # "none"
    BY <2>3 DEF C!Primaries
  <2> QED
    BY <1>3, <2>1, <2>6, <2>7, <2>8 DEF MovedTo, PrimariesSaid
<1>4. CASE p.e.cs \notin {"Gray", "XYB"} /\ ~C!Means(token, C!PrimariesName)
           /\ token.kind = "numbers"
  <2>1. PICK rgb : rgb = [k \in 1 .. 3 |-> <<C!Token(token.numbers, (2 * k) - 1),
                                             C!Token(token.numbers, 2 * k)>>]
    OBVIOUS
  <2>2. PICK e : e = [[p.e EXCEPT !.pr = "Custom"] EXCEPT !.rgb = rgb]
    OBVIOUS
  <2>3. \A i \in Nat \ {0} : C!Token(token.numbers, i) \in Int
    BY <1>4, TokenIs DEF TokenOk
  <2>4. \A k \in 1 .. 3 : (2 * k) - 1 \in Nat \ {0} /\ 2 * k \in Nat \ {0}
    OBVIOUS
  <2>5. rgb \in C!Rgb
    BY <2>1, <2>3, <2>4 DEF C!Rgb, C!Xy
  <2>6. "Custom" \in C!Primaries
    BY DEF C!Primaries
  <2>7. e \in Structs
    BY <1>0, <2>2, <2>5, <2>6, StructChanged
  <2>8. q = [Here(p, e) EXCEPT !.ok = FALSE]
    BY <1>4, <2>1, <2>2 DEF C!ParsePrimaries, Parsings, Structs, Here
  <2>9. Here(p, e) \in Parsings(line)
    BY <2>7, MovedHere DEF MovedTo
  <2>10. ~q.ok /\ q \in Parsings(line)
    BY <2>8, <2>9, Refused
  <2> QED
    BY <1>4, <2>10 DEF PrimariesSaid
<1>5. CASE p.e.cs \notin {"Gray", "XYB"} /\ ~C!Means(token, C!PrimariesName)
           /\ token.kind # "numbers"
  <2>1. q = [p EXCEPT !.ok = FALSE]
    BY <1>5 DEF C!ParsePrimaries
  <2>2. ~q.ok /\ q \in Parsings(line)
    BY <2>1, Refused
  <2> QED
    BY <1>5, <2>2 DEF PrimariesSaid
<1> QED
  BY <1>2, <1>3, <1>4, <1>5

(* ParseTransferFunction: what a token says of the curve.                   *)
CurveSaid(q, p, token, line) ==
  /\ q \in Parsings(line)
  /\ q.ok => q.e.tf # "none" /\ p.ok /\ Alike(q.e, p.e, {"tf", "gamma"})
  /\ p.e.cs = "XYB" => (q.ok <=> p.ok) /\ q.e.tf = "Gamma" /\ q.e.gamma = C!XybGamma
  /\ p.e.cs # "XYB" /\ C!Means(token, C!TfName) =>
       (q.ok <=> p.ok) /\ q.e.tf = C!Meaning(token, C!TfName)
  /\ p.e.cs # "XYB" /\ token.kind = "gamma" =>
       (q.ok <=> p.ok) /\ q.e.tf = "Gamma" /\ q.e.gamma = token.gamma

(* ... is what the code takes from it.                                      *)
LEMMA SaysCurve ==
  ASSUME NEW line, NEW p \in Parsings(line), NEW token, TokenOk(token),
         NEW q, q = C!ParseTransferFunction(p, token)
  PROVE  CurveSaid(q, p, token, line)
<1>0. p.e \in Structs
  BY ParsingChanged
<1>2. CASE p.e.cs = "XYB"
  <2>0. PICK gamma : gamma = C!XybGamma
    OBVIOUS
  <2>1. PICK d, e : d = [p.e EXCEPT !.tf = "Gamma"] /\ e = [d EXCEPT !.gamma = gamma]
    OBVIOUS
  <2>2. q = Here(p, e)
    BY <1>2, <2>0, <2>1 DEF C!ParseTransferFunction, Parsings, Structs, Here
  <2>3. d \in Structs /\ d.tf = "Gamma" /\ Alike(d, p.e, {"tf"})
    BY <1>0, <2>1, StructChanged, StructAssigned
  <2>4. e \in Structs /\ e.gamma = gamma /\ Alike(e, d, {"gamma"})
    BY <2>0, <2>1, <2>3, XybGammaIs, StructChanged, StructAssigned, ZenonT(40)
  <2>5. e.tf = "Gamma" /\ Alike(e, p.e, {"tf", "gamma"})
    BY <2>3, <2>4, AlikeTwice DEF Alike, StructNames
  <2>6. MovedTo(q, p, e, line, p.next)
    BY <2>2, <2>4, MovedHere
  <2> QED
    BY <1>2, <2>0, <2>4, <2>5, <2>6 DEF MovedTo, CurveSaid
<1>3. CASE p.e.cs # "XYB" /\ C!Means(token, C!TfName)
  <2>1. PICK tf : tf = C!Meaning(token, C!TfName)
    OBVIOUS
  <2>2. PICK e : e = [p.e EXCEPT !.tf = tf]
    OBVIOUS
  <2>3. tf \in C!Curves /\ token.kind # "gamma"
    BY <1>3, <2>1, MeaningIs, NamesMean
  <2>4. q = [p EXCEPT !.e.tf = tf, !.next = @ + 1]
    BY <1>3, <2>1, MeaningIs DEF C!ParseTransferFunction
  <2>5. q = On(p, e)
    BY <2>2, <2>4 DEF Parsings, On, Here
  <2>6. e \in Structs /\ e.tf = tf /\ Alike(e, p.e, {"tf"})
    BY <1>0, <2>2, <2>3, StructChanged, StructAssigned
  <2>7. MovedTo(q, p, e, line, p.next + 1)
    BY <2>5, <2>6, MovedOn
  <2>8. Alike(e, p.e, {"tf", "gamma"}) /\ tf # "none"
    BY <2>3, <2>6, AlikeTwice DEF C!Curves
  <2> QED
    BY <1>3, <2>1, <2>3, <2>6, <2>7, <2>8 DEF MovedTo, CurveSaid
<1>4. CASE p.e.cs # "XYB" /\ ~C!Means(token, C!TfName) /\ token.kind = "gamma"
  <2>0. PICK gamma : gamma = token.gamma
    OBVIOUS
  <2>1. PICK d, e : d = [p.e EXCEPT !.tf = "Gamma"] /\ e = [d EXCEPT !.gamma = gamma]
    OBVIOUS
  <2>2. q = On(p, e)
    BY <1>4, <2>0, <2>1 DEF C!ParseTransferFunction, Parsings, Structs, On, Here
  <2>3. d \in Structs /\ d.tf = "Gamma" /\ Alike(d, p.e, {"tf"})
    BY <1>0, <2>1, StructChanged, StructAssigned
  <2>7. gamma \in Int
    BY <1>4, <2>0 DEF TokenOk
  <2>4. e \in Structs /\ e.gamma = gamma /\ Alike(e, d, {"gamma"})
    BY <2>1, <2>3, <2>7, StructChanged, StructAssigned
  <2>5. e.tf = "Gamma" /\ Alike(e, p.e, {"tf", "gamma"})
    BY <2>3, <2>4, AlikeTwice DEF Alike, StructNames
  <2>6. MovedTo(q, p, e, line, p.next + 1)
    BY <2>2, <2>4, MovedOn
  <2> QED
    BY <1>4, <2>0, <2>4, <2>5, <2>6 DEF MovedTo, CurveSaid
<1>5. CASE p.e.cs # "XYB" /\ ~C!Means(token, C!TfName) /\ token.kind # "gamma"
  <2>1. q = [p EXCEPT !.ok = FALSE]
    BY <1>5 DEF C!ParseTransferFunction
  <2>2. ~q.ok /\ q \in Parsings(line)
    BY <2>1, Refused
  <2> QED
    BY <1>5, <2>2 DEF CurveSaid
<1> QED
  BY <1>2, <1>3, <1>4, <1>5

(* The five parts of ParseDescription, in their order.                      *)
LineSaid(line, p) ==
  /\ p \in Parsings(line)
  /\ p.ok => /\ p.e.wp # "none" /\ p.e.tf # "none"
             /\ p.e.cs \in {"Gray", "XYB"} \/ p.e.pr # "none"

(* Tokens have what the parser needs.                                       *)
LEMMA TokensOk == ASSUME NEW token \in C!Tokens PROVE TokenOk(token)
BY TokenFields DEF TokenOk

(* Nothing has been parsed.                                                 *)
LEMMA FirstParsing == ASSUME NEW line PROVE C!Parsing(line) \in Parsings(line)
<1>1. C!NoEncoding \in Structs
  BY DEF C!NoEncoding, Structs, C!Spaces, C!Xy, C!Rgb, C!RenderingIntents
<1> QED
  BY <1>1 DEF C!Parsing, Parsings

(* ParseDescription: a line gives a struct with a white point, a curve and, *)
(* where its space has them, primaries; or it fails.                        *)
LEMMA LineMeans ==
  ASSUME NEW line \in Seq(C!Tokens), line # <<>>
  PROVE  LineSaid(line, C!ParseDescription(line))
<1> DEFINE TokenAt(p) == C!Token(p.line, p.next)
<1>1. \A p \in Parsings(line) : TokenOk(TokenAt(p))
  BY TokenIs, TokensOk DEF Parsings
<1> DEFINE p0 == C!Parsing(line)
<1> DEFINE p1 == IF p0.ok THEN C!ParseColorSpace(p0, TokenAt(p0)) ELSE p0
<1> DEFINE p2 == IF p1.ok THEN C!ParseWhitePoint(p1, TokenAt(p1)) ELSE p1
<1> DEFINE p3 == IF p2.ok THEN C!ParsePrimaries(p2, TokenAt(p2)) ELSE p2
<1> DEFINE p4 == IF p3.ok THEN C!ParseRenderingIntent(p3, TokenAt(p3)) ELSE p3
<1> DEFINE p5 == IF p4.ok THEN C!ParseTransferFunction(p4, TokenAt(p4)) ELSE p4
<1>2. C!ParseDescription(line) = p5
  BY Zenon DEF C!ParseDescription
<1> HIDE DEF TokenAt
<1>3. p0 \in Parsings(line)
  BY FirstParsing
<1> HIDE DEF p0
<1>4. p1 \in Parsings(line)
  BY <1>3, SaysSpace
<1> HIDE DEF p1
<1>5. p2 \in Parsings(line) /\ (p2.ok => p2.e.wp # "none")
  <2>1. CASE ~p1.ok
    BY <1>4, <2>1
  <2>2. CASE p1.ok
    BY <1>1, <1>4, <2>2, SaysWhite DEF WhiteSaid
  <2> QED
    BY <2>1, <2>2
<1> HIDE DEF p2
<1>6. /\ p3 \in Parsings(line)
      /\ p3.ok => p3.e.wp # "none" /\ (p3.e.cs \in {"Gray", "XYB"} \/ p3.e.pr # "none")
  <2>1. CASE ~p2.ok
    BY <1>5, <2>1
  <2>2. CASE p2.ok
    <3>1. PrimariesSaid(p3, p2, TokenAt(p2), line)
      BY <1>1, <1>5, <2>2, SaysPrimaries
    <3>2. p3.ok => p3.e.cs = p2.e.cs /\ p3.e.wp = p2.e.wp
      BY <3>1, AlikeFields DEF PrimariesSaid
    <3> QED
      BY <1>5, <2>2, <3>1, <3>2 DEF PrimariesSaid
  <2> QED
    BY <2>1, <2>2
<1> HIDE DEF p3
<1>7. /\ p4 \in Parsings(line)
      /\ p4.ok => p4.e.wp # "none" /\ (p4.e.cs \in {"Gray", "XYB"} \/ p4.e.pr # "none")
  <2>1. CASE ~p3.ok
    BY <1>6, <2>1
  <2>2. CASE p3.ok
    <3>1. /\ p4 \in Parsings(line) /\ (p4.ok => Alike(p4.e, p3.e, {"ri"}))
      BY <1>6, <2>2, SaysIntent
    <3>2. p4.ok => p4.e.cs = p3.e.cs /\ p4.e.wp = p3.e.wp /\ p4.e.pr = p3.e.pr
      BY <3>1, AlikeFields
    <3> QED
      BY <1>6, <2>2, <3>1, <3>2
  <2> QED
    BY <2>1, <2>2
<1> HIDE DEF p4
<1>8. LineSaid(line, p5)
  <2>1. CASE ~p4.ok
    BY <1>7, <2>1 DEF LineSaid
  <2>2. CASE p4.ok
    <3>1. CurveSaid(p5, p4, TokenAt(p4), line)
      BY <1>1, <1>7, <2>2, SaysCurve
    <3>2. p5.ok => p5.e.cs = p4.e.cs /\ p5.e.wp = p4.e.wp /\ p5.e.pr = p4.e.pr
      BY <3>1, AlikeFields DEF CurveSaid
    <3> QED
      BY <1>7, <2>2, <3>1, <3>2 DEF CurveSaid, LineSaid
  <2> QED
    BY <2>1, <2>2
<1> QED
  BY <1>2, <1>8

-------------------------------------------------------------------------------
(* Reading a header.                                                        *)
LEMMA LeastNatural ==
  ASSUME NEW N, N \subseteq Nat, N # {}
  PROVE  \E j \in N : \A k \in N : j <= k
<1>1. PICK j \in N : \A k \in N : ~ (<<k, j>> \in OpToRel(<, Nat))
  BY NatLessThanWellFounded, WFMin
<1>2. \A k \in N : ~ (k < j)
  BY <1>1 DEF OpToRel
<1>3. \A k \in N : k \in Nat
  OBVIOUS
<1> QED
  BY <1>2, <1>3

Reads(f, c, s, n) ==
  f = [k \in 0 .. n |-> IF k = 0 THEN [ok |-> TRUE, c |-> c, rest |-> s]
                        ELSE C!ReadField(f[k - 1], C!FieldOrder[k])]

(* The function that ReadFields chooses exists, ...                         *)
LEMMA ReadsExist ==
  ASSUME NEW c, NEW s, NEW n \in Nat
  PROVE  \E f : Reads(f, c, s, n)
<1> DEFINE Bad == {k \in Nat : ~ \E f : Reads(f, c, s, k)}
<1>1. SUFFICES ASSUME Bad # {} PROVE FALSE
  BY <1>1
<1>2. PICK j \in Bad : \A k \in Bad : j <= k
  BY <1>1, LeastNatural
<1>3. j # 0
  <2>1. Reads([k \in 0 .. 0 |-> [ok |-> TRUE, c |-> c, rest |-> s]], c, s, 0)
    BY DEF Reads
  <2> QED
    BY <1>2, <2>1
<1>4. j - 1 \in Nat /\ j - 1 \notin Bad
  BY <1>2, <1>3
<1>5. PICK f : Reads(f, c, s, j - 1)
  BY <1>4
<1> DEFINE g == [k \in 0 .. j |-> IF k = j THEN C!ReadField(f[k - 1], C!FieldOrder[k]) ELSE f[k]]
<1>6. Reads(g, c, s, j)
  <2>1. j \in Nat \ {0}
    BY <1>2, <1>3
  <2>2. \A k \in 0 .. j - 1 : g[k] = f[k]
    BY <2>1
  <2>3. \A k \in 0 .. j : g[k] = IF k = 0 THEN [ok |-> TRUE, c |-> c, rest |-> s]
                                 ELSE C!ReadField(g[k - 1], C!FieldOrder[k])
    <3> SUFFICES ASSUME NEW k \in 0 .. j
                 PROVE  g[k] = IF k = 0 THEN [ok |-> TRUE, c |-> c, rest |-> s]
                               ELSE C!ReadField(g[k - 1], C!FieldOrder[k])
      OBVIOUS
    <3>1. CASE k = j
      <4>1. g[k - 1] = f[k - 1] /\ k # 0
        BY <2>1, <2>2, <3>1
      <4> QED
        BY <3>1, <4>1
    <3>2. CASE k # j /\ k # 0
      <4>1. k \in 0 .. j - 1 /\ k - 1 \in 0 .. j - 1
        BY <2>1, <3>2
      <4>2. f[k] = C!ReadField(f[k - 1], C!FieldOrder[k])
        BY <1>5, <3>2, <4>1 DEF Reads
      <4>3. g[k] = f[k] /\ g[k - 1] = f[k - 1]
        BY <2>2, <4>1
      <4> QED
        BY <3>2, <4>2, <4>3
    <3>3. CASE k # j /\ k = 0
      <4>1. 0 \in 0 .. j - 1
        BY <2>1
      <4>2. f[0] = [ok |-> TRUE, c |-> c, rest |-> s]
        BY <1>5, <4>1 DEF Reads
      <4> QED
        BY <2>2, <3>3, <4>1, <4>2
    <3> QED
      BY <3>1, <3>2, <3>3
  <2>4. g = [k \in 0 .. j |-> g[k]]
    OBVIOUS
  <2> HIDE DEF g
  <2> QED
    BY <2>3, <2>4 DEF Reads
<1> QED
  BY <1>2, <1>6

(* The order in which the fields are visited.                               *)
LEMMA OrderIs ==
  /\ Len(C!FieldOrder) = 10 /\ \A k \in 1 .. 10 : C!FieldOrder[k] \in DOMAIN C!FieldValues
  /\ DOMAIN C!FieldValues =
       {"want_icc", "cs", "wp", "white", "pr", "rgb", "have_gamma", "gamma", "tf", "ri"}
<1>1. DOMAIN C!FieldValues =
        {"want_icc", "cs", "wp", "white", "pr", "rgb", "have_gamma", "gamma", "tf", "ri"}
  BY DEF C!FieldValues
<1>2. Len(C!FieldOrder) = 10
  BY DEF C!FieldOrder
<1>3. \A k \in 1 .. 10 : C!FieldOrder[k] \in DOMAIN C!FieldValues
  BY <1>1 DEF C!FieldOrder
<1> QED
  BY <1>1, <1>2, <1>3

(* ... and its last value is what was read.                                 *)
LEMMA ReadFieldsAre ==
  ASSUME NEW c, NEW s
  PROVE  \E f : Reads(f, c, s, 10) /\ C!ReadFields(c, s) = f[10]
<1> DEFINE read == CHOOSE f : Reads(f, c, s, 10)
<1>1. Reads(read, c, s, 10)
  BY ReadsExist
<1>2. C!ReadFields(c, s) = read[10]
  BY OrderIs DEF C!ReadFields, Reads
<1> QED
  BY <1>1, <1>2

(* What the reader has got of a stream with entries from E.                 *)
Entries(E) ==
  \A e \in E : e[1] \in DOMAIN C!FieldValues => e[2] \in C!FieldValues[e[1]]
Reading(r, c, E) ==
  /\ r = [ok |-> r.ok, c |-> r.c, rest |-> r.rest]
  /\ Typed(r.c) /\ Keeps(c, r.c, DOMAIN C!FieldValues) /\ r.rest \in Seq(E)

(* Reading one field, present or skipped.                                   *)
LEMMA FieldRead ==
  ASSUME NEW c, NEW E, Entries(E), NEW r, Reading(r, c, E),
         NEW field \in DOMAIN C!FieldValues
  PROVE  Reading(C!ReadField(r, field), c, E)
<1> DEFINE q == C!ReadField(r, field)
<1>1. CASE ~r.ok \/ ~C!Visits(r.c, field)
  BY <1>1 DEF C!ReadField
<1>2. CASE /\ ~(~r.ok \/ ~C!Visits(r.c, field))
           /\ r.rest = <<>> \/ Head(r.rest)[1] # field
  <2>1. q = [r EXCEPT !.ok = FALSE]
    BY <1>2 DEF C!ReadField
  <2>2. q.c = r.c /\ q.rest = r.rest /\ q = [ok |-> q.ok, c |-> q.c, rest |-> q.rest]
    BY <2>1 DEF Reading
  <2> QED
    BY <2>2 DEF Reading
<1>3. CASE /\ ~(~r.ok \/ ~C!Visits(r.c, field))
           /\ ~(r.rest = <<>> \/ Head(r.rest)[1] # field)
  <2> DEFINE v == Head(r.rest)[2]
  <2>1. q = [c |-> With(r.c, field, v), rest |-> Tail(r.rest),
             ok |-> field = "gamma" => C!ValidGamma(v)]
    BY <1>3, Zenon DEF C!ReadField, With
  <2>2. Head(r.rest) \in E /\ Tail(r.rest) \in Seq(E)
    BY <1>3, HeadTailProperties DEF Reading
  <2>3. v \in C!FieldValues[field]
    BY <1>3, <2>2 DEF Entries
  <2> HIDE DEF v, q
  <2>4. field \in Names
    BY OrderIs, Names14
  <2>5. Keeps(r.c, With(r.c, field, v), {field}) /\ With(r.c, field, v)[field] = v
    BY <2>4, WithIs, TypedFields DEF Reading
  <2>6. Typed(With(r.c, field, v))
    <3>1. v \in TypeOf(field)
      BY <2>3 DEF TypeOf
    <3> QED
      BY <2>5, <3>1, TypedKept DEF Reading
  <2>7. Keeps(c, With(r.c, field, v), DOMAIN C!FieldValues)
    BY <2>5 DEF Reading, Keeps
  <2>8. q.c = With(r.c, field, v) /\ q.rest = Tail(r.rest) /\ q = [ok |-> q.ok, c |-> q.c, rest |-> q.rest]
    BY <2>1
  <2> QED
    BY <2>2, <2>6, <2>7, <2>8 DEF Reading, q
<1> QED
  BY <1>1, <1>2, <1>3

(* Reading all of them.                                                     *)
LEMMA FieldsRead ==
  ASSUME NEW c, Typed(c), NEW E, Entries(E), NEW s \in Seq(E)
  PROVE  Reading(C!ReadFields(c, s), c, E)
<1>1. PICK f : Reads(f, c, s, 10) /\ C!ReadFields(c, s) = f[10]
  BY ReadFieldsAre
<1> DEFINE Bad == {k \in 0 .. 10 : ~Reading(f[k], c, E)}
<1>2. SUFFICES ASSUME Bad # {} PROVE FALSE
  BY <1>1, <1>2
<1>3. PICK j \in Bad : \A k \in Bad : j <= k
  <2>1. Bad \subseteq Nat
    OBVIOUS
  <2> HIDE DEF Bad
  <2> QED
    BY <1>2, <2>1, LeastNatural
<1>4. CASE j = 0
  <2>1. f[0] = [ok |-> TRUE, c |-> c, rest |-> s]
    BY <1>1 DEF Reads
  <2>2. Reading(f[0], c, E)
    BY <2>1, TypedFields DEF Reading, Keeps
  <2> QED
    BY <1>3, <1>4, <2>2
<1>5. CASE j # 0
  <2>1. j \in 1 .. 10 /\ j - 1 \in 0 .. 10 /\ j - 1 \notin Bad
    BY <1>3, <1>5
  <2>2. f[j] = C!ReadField(f[j - 1], C!FieldOrder[j])
    <3>1. j \in 0 .. 10 /\ j # 0
      BY <2>1
    <3>2. f = [k \in 0 .. 10 |-> IF k = 0 THEN [ok |-> TRUE, c |-> c, rest |-> s]
                               ELSE C!ReadField(f[k - 1], C!FieldOrder[k])]
      BY <1>1 DEF Reads
    <3>3. \A k \in 0 .. 10 : k # 0 => f[k] = C!ReadField(f[k - 1], C!FieldOrder[k])
      BY ONLY <3>2
    <3> QED
      BY <3>1, <3>3
  <2>3. Reading(f[j - 1], c, E) /\ C!FieldOrder[j] \in DOMAIN C!FieldValues
    BY <2>1, OrderIs
  <2>4. Reading(f[j], c, E)
    BY <2>2, <2>3, FieldRead
  <2> QED
    BY <1>3, <2>4
<1> QED
  BY <1>4, <1>5

(* The encoding that a constructor fills in is well-typed.                  *)
LEMMA BlankIs == Typed(C!Blank)
<1> DEFINE b == C!Blank
<1>0. PICK unity \in Int : unity = C!Unity
  BY SMT DEF C!Unity
<1>1. b = [cs |-> "RGB", wp |-> "D65", white |-> <<0, 0>>, pr |-> "SRGB",
           rgb |-> <<<<0, 0>>, <<0, 0>>, <<0, 0>>>>, have_gamma |-> No,
           gamma |-> unity, tf |-> "SRGB", tfcs |-> "RGB", ri |-> "Rel",
           want_icc |-> No, have_fields |-> Yes, cmyk |-> No,
           icc |-> C!NoProfile]
  BY <1>0, Zenon DEF C!Blank, Yes, No
<1> HIDE DEF b
<1>2. Whole(b)
  BY <1>1 DEF Whole, Names
<1>3. /\ b.cs \in C!Spaces /\ b.wp \in C!WhitePoints /\ b.white \in C!Xy /\ b.pr \in C!Primaries
      /\ b.gamma \in Int /\ b.tf \in C!Curves /\ b.tfcs \in C!Spaces
      /\ b.ri \in C!RenderingIntents
  BY <1>1 DEF C!Spaces, C!WhitePoints, C!Xy, C!Primaries, C!Curves, C!RenderingIntents
<1>4. b.rgb \in C!Rgb
  BY <1>1 DEF C!Rgb, C!Xy
<1>5. /\ b.have_gamma \in BOOLEAN /\ b.want_icc \in BOOLEAN /\ b.have_fields \in BOOLEAN
      /\ b.cmyk \in BOOLEAN
  <2>1. b.have_gamma = No /\ b.want_icc = No /\ b.have_fields = Yes /\ b.cmyk = No
    BY <1>1
  <2> QED
    BY <2>1, YesNo
<1>6. \A f \in Names \ {"icc"} : b[f] \in TypeOf(f)
  BY <1>3, <1>4, <1>5, TypesOfFields DEF Names
<1> QED
  BY <1>2, <1>6 DEF Typed, b

(* Bundle::SetDefault gives an encoding the profile of the default fields.  *)
LEMMA DefaultMade ==
  ASSUME NEW c, Typed(c), NEW d, d = C!SetDefault(c)
  PROVE  \E v : /\ Typed(v) /\ Keeps(C!Blank, v, {"tfcs", "have_fields", "cmyk"})
                /\ v.tfcs = c.tfcs /\ d = C!CreateICC(v).c /\ v.want_icc = No
<1> DEFINE b == C!Blank
<1> DEFINE u == With(With(b, "tfcs", c.tfcs), "have_fields", c.have_fields)
<1> DEFINE v == With(u, "cmyk", c.cmyk)
<1>1. d = C!CreateICC(v).c
  BY Zenon DEF C!SetDefault, With
<1>2. /\ u = With(With(b, "tfcs", c.tfcs), "have_fields", c.have_fields)
      /\ v = With(u, "cmyk", c.cmyk)
  OBVIOUS
<1>3. Typed(b) /\ b.want_icc = No
  <2>1. b.want_icc = No
    BY Zenon DEF C!Blank, No
  <2> QED
    BY <2>1, BlankIs
<1>0. b = C!Blank
  OBVIOUS
<1> HIDE DEF b, u, v
<1>4. Keeps(b, u, {"tfcs", "have_fields"}) /\ u["tfcs"] = c.tfcs /\ u["have_fields"] = c.have_fields
  <2>1. Whole(b)
    BY <1>3, TypedFields
  <2>2. /\ "tfcs" \in Names /\ "have_fields" \in Names /\ "tfcs" # "have_fields"
        /\ u = With(With(b, "tfcs", c.tfcs), "have_fields", c.have_fields)
    BY <1>2, Names14
  <2> QED
    BY ONLY <2>1, <2>2, With2
<1>5. Typed(u)
  BY <1>3, <1>4, TypedKept, TypedFields, TypesOfFields
<1>6. Keeps(u, v, {"cmyk"}) /\ v["cmyk"] = c.cmyk
  BY <1>2, <1>5, TypedFields, WithIs, Names14
<1>7. Typed(v) /\ v.want_icc = No /\ v.tfcs = c.tfcs
  <2>1. v["cmyk"] \in TypeOf("cmyk")
    BY <1>6, TypedFields, TypesOfFields
  <2>2. Typed(v)
    BY <1>5, <1>6, <2>1, TypedKept
  <2> QED
    BY <1>3, <1>4, <1>6, <2>2, Names14 DEF Keeps
<1>8. Keeps(b, v, {"tfcs", "have_fields", "cmyk"})
  BY <1>4, <1>6 DEF Keeps
<1> QED
  BY <1>0, <1>1, <1>7, <1>8

(* ... which describes it.                                                  *)
LEMMA DefaultSet ==
  ASSUME NEW c, Typed(c), NEW d, d = C!SetDefault(c)
  PROVE  Good(d) /\ Describes(d) /\ d.want_icc = No
<1>1. PICK v : Typed(v) /\ d = C!CreateICC(v).c /\ v.want_icc = No
  BY DefaultMade
<1>2. Good(d) /\ Describes(d) /\ Keeps(v, d, {"icc"})
  BY <1>1, CreatedICC
<1> QED
  BY <1>1, <1>2, Names14 DEF Keeps

(* A new ColorEncoding is described by its profile.                         *)
LEMMA FreshIs == Good(C!Fresh) /\ Describes(C!Fresh)
<1> DEFINE r == C!CreateICC(C!Blank)
<1>1. Good(r.c) /\ Describes(r.c)
  BY BlankIs, CreatedICC
<1> QED
  BY <1>1 DEF C!Fresh

(* A new object is the blank one with its profile.                          *)
LEMMA FreshMade == Typed(C!Fresh) /\ C!Fresh.tfcs = "RGB"
<1>1. Keeps(C!Blank, C!Fresh, {"icc"}) /\ Typed(C!Fresh)
  BY BlankIs, CreatedICC DEF C!Fresh, Good
<1>2. C!Blank.tfcs = "RGB"
  BY Zenon DEF C!Blank
<1> QED
  BY <1>1, <1>2, Names14 DEF Keeps

(* What the color space implies: SetImplicit for XYB and no one else.       *)
LEMMA ImplicitIs ==
  ASSUME NEW c, Typed(c), NEW d, d = C!SetImplicit(C!ImplicitWhitePoint(c))
  PROVE  /\ Typed(d) /\ Keeps(c, d, {"wp", "have_gamma", "gamma", "tf"})
         /\ d.wp = IF c.cs = "XYB" THEN "D65" ELSE c.wp
         /\ c.tfcs # "XYB" => /\ d.have_gamma = c.have_gamma /\ d.gamma = c.gamma
                              /\ d.tf = c.tf
         /\ c.tfcs = "XYB" => d.have_gamma = Yes /\ d.gamma = C!XybGamma /\ d.tf = "Unknown"
<1> DEFINE b == C!ImplicitWhitePoint(c)
<1>1. Typed(b) /\ Keeps(c, b, {"wp"}) /\ b.wp = IF c.cs = "XYB" THEN "D65" ELSE c.wp
  <2>1. CASE c.cs = "XYB"
    <3>1. b = With(c, "wp", "D65")
      BY <2>1 DEF C!ImplicitWhitePoint, With
    <3>2. Keeps(c, b, {"wp"}) /\ b.wp = "D65"
      BY <3>1, WithIs, Names14, TypedFields
    <3> HIDE DEF b
    <3>3. Typed(b)
      BY <3>2, TypedKept, TypesOfFields DEF C!WhitePoints
    <3> QED
      BY <2>1, <3>2, <3>3
  <2>2. CASE c.cs # "XYB"
    BY <2>2, TypedFields DEF C!ImplicitWhitePoint, Keeps
  <2> QED
    BY <2>1, <2>2
<1>2. d = C!SetImplicit(b)
  OBVIOUS
<1> HIDE DEF b
<1>3. /\ b.tfcs = c.tfcs /\ b.have_gamma = c.have_gamma /\ b.gamma = c.gamma /\ b.tf = c.tf
  BY <1>1, Names14 DEF Keeps
<1>4. CASE c.tfcs # "XYB"
  <2>1. d = b
    BY <1>2, <1>3, <1>4, Zenon DEF C!SetImplicit
  <2> QED
    BY <1>1, <1>3, <1>4, <2>1 DEF Keeps
<1>5. CASE c.tfcs = "XYB"
  <2> DEFINE n == C!XybGamma
  <2>0. n \in Int
    BY XybGammaIs
  <2> DEFINE u == With(With(b, "have_gamma", Yes), "gamma", n)
  <2>1. d = [b EXCEPT !.have_gamma = TRUE, !.gamma = n, !.tf = "Unknown"]
    BY <1>2, <1>3, <1>5, Zenon DEF C!SetImplicit
  <2>2. d = With(u, "tf", "Unknown")
    BY <2>1, Zenon DEF With, Yes
  <2>3. u = With(With(b, "have_gamma", Yes), "gamma", n)
    OBVIOUS
  <2> HIDE DEF u, n
  <2>4. Keeps(b, u, {"have_gamma", "gamma"}) /\ u["have_gamma"] = Yes /\ u["gamma"] = n
    <3>1. Whole(b)
      BY <1>1, TypedFields
    <3>2. /\ "have_gamma" \in Names /\ "gamma" \in Names /\ "have_gamma" # "gamma"
          /\ u = With(With(b, "have_gamma", Yes), "gamma", n)
      BY <2>3, Names14
    <3> QED
      BY ONLY <3>1, <3>2, With2
  <2>5. Keeps(u, d, {"tf"}) /\ d["tf"] = "Unknown"
    BY <2>2, <2>4, WithIs, Names14 DEF Keeps
  <2>6. /\ Keeps(b, d, {"have_gamma", "gamma", "tf"})
        /\ d.have_gamma = Yes /\ d.gamma = n /\ d.tf = "Unknown"
    BY <2>4, <2>5, Names14 DEF Keeps
  <2>7. Typed(d)
    BY <1>1, <2>0, <2>6, TypedKept, TypesOfFields, YesNo DEF C!Curves
  <2>8. Keeps(c, d, {"wp", "have_gamma", "gamma", "tf"}) /\ d.wp = b.wp
    BY <1>1, <2>6, Names14 DEF Keeps
  <2> QED
    BY <1>1, <1>5, <2>6, <2>7, <2>8 DEF n
<1> QED
  BY <1>4, <1>5

(* VisitFields: what the fields leave to be said, the profile does, or      *)
(* reading fails.                                                           *)
LEMMA Visits1 ==
  ASSUME NEW c, Good(c), NEW r, r = C!VisitFields(c)
  PROVE  /\ Good(r.c) /\ r.c.want_icc = c.want_icc
         /\ c.want_icc => r.ok /\ r.c = c
         /\ ~c.want_icc /\ r.ok => Describes(r.c)
<1> DEFINE v == C!Visited(c)
<1>1. r = C!AfterVisit(v)
  BY DEF C!VisitFields
<1>2. CASE c.want_icc
  <2>1. v = c
    BY <1>2 DEF C!Visited
  <2>2. r = C!Ok(c)
    <3> HIDE DEF v
    <3> QED
      BY <1>1, <1>2, <2>1, SMT DEF C!AfterVisit
  <2> QED
    BY <1>2, <2>2, Results, NotNo
<1>3. CASE ~c.want_icc
  <2>1. v = C!SetImplicit(C!ImplicitWhitePoint(c))
    BY <1>3 DEF C!Visited
  <2> HIDE DEF v
  <2>2. Typed(v) /\ Keeps(c, v, {"wp", "have_gamma", "gamma", "tf"})
    BY <2>1, ImplicitIs DEF Good
  <2>3. Good(v) /\ v.want_icc = c.want_icc
    BY <2>2, Names14 DEF Good, IccOk, Keeps
  <2> DEFINE bad == v.cs = "Unknown" \/ C!IsUnknown(v) \/ C!BadGamma(v)
  <2>4. CASE bad
    <3>1. r = C!Failure(v)
      BY <1>1, <1>3, <2>3, <2>4, SMT DEF C!AfterVisit
    <3> QED
      BY <1>3, <2>3, <3>1, Results, NotNo
  <2>5. CASE ~bad
    <3>1. r = C!CreateICC(v)
      BY <1>1, <1>3, <2>3, <2>5, SMT DEF C!AfterVisit
    <3>2. Good(r.c) /\ Describes(r.c) /\ Keeps(v, r.c, {"icc"})
      BY <2>2, <3>1, CreatedICC
    <3> QED
      BY <1>3, <2>3, <3>2, Names14 DEF Keeps
  <2> QED
    BY <2>4, <2>5
<1> QED
  BY <1>2, <1>3

(* The entries of a stream are of their fields' types.                      *)
LEMMA StreamIs ==
  ASSUME NEW s \in Streams
  PROVE  s \in Seq(C!ToSet(s)) /\ Entries(C!ToSet(s))
BY DescriptionsAssumption DEF C!DescriptionAssumptions, C!EncodingAssumptions, Entries

(* Reading a header, all default or not.                                    *)
LEMMA ReadIs ==
  ASSUME NEW c, Good(c), NEW s, NEW E, s \in Seq(E), Entries(E), NEW r, r = C!Read(c, s)
  PROVE  /\ Good(r.c) /\ (r.ok /\ ~r.c.want_icc => Describes(r.c))
<1>1. CASE s = <<>>
  <2> DEFINE d == C!SetDefault(c)
  <2>1. r = C!Ok(d)
    BY <1>1 DEF C!Read
  <2>2. Good(d) /\ Describes(d)
    BY DefaultSet DEF Good
  <2> QED
    BY <2>1, <2>2, Results
<1>2. CASE s # <<>>
  <2> DEFINE q == C!ReadFields(c, s)
  <2>1. r = C!ReadEnded(q)
    BY <1>2 DEF C!Read
  <2>2. Reading(q, c, E)
    BY FieldsRead DEF Good
  <2> HIDE DEF q
  <2>3. Good(q.c)
    <3>1. q.c.icc = c.icc
      BY <2>2, OrderIs, Names14 DEF Reading, Keeps
    <3> QED
      BY <2>2, <3>1 DEF Reading, Good, IccOk
  <2>4. CASE ~q.ok
    <3>1. r = C!Failure(q.c)
      BY <2>1, <2>4, SMT DEF C!ReadEnded
    <3> QED
      BY <2>3, <3>1, Results, NotNo
  <2>5. CASE q.ok /\ q.c.want_icc
    <3>1. r = C!Ok(q.c)
      BY <2>1, <2>5, SMT DEF C!ReadEnded
    <3> QED
      BY <2>3, <2>5, <3>1, Results
  <2>6. CASE q.ok /\ ~q.c.want_icc
    <3>1. r = C!VisitFields(q.c)
      BY <2>1, <2>6, SMT DEF C!ReadEnded
    <3> QED
      BY <2>3, <2>6, <3>1, Visits1
  <2> QED
    BY <2>4, <2>5, <2>6
<1> QED
  BY <1>1, <1>2

-------------------------------------------------------------------------------
(* The calls on an encoding.                                                *)
EncodingInv ==
  /\ Good(enc) /\ dirty \in BOOLEAN /\ ops \in 0 .. MaxOps
  /\ ~dirty => Describes(enc)

(* A call that leaves a described encoding, or marks it, keeps the          *)
(* invariant.                                                               *)
LEMMA Becomes ==
  ASSUME EncodingInv, NEW c, Good(c), NEW stale \in BOOLEAN, ~stale => Describes(c),
         C!Become(c, stale)
  PROVE  EncodingInv'
<1>1. enc' = c /\ dirty' = stale /\ ops' = ops + 1 /\ ops < MaxOps
  BY DEF C!Become
<1>2. ops' \in 0 .. MaxOps
  BY <1>1, DescriptionConstants DEF EncodingInv
<1>3. Good(enc)' /\ (~dirty' => Describes(enc)')
  BY <1>1 DEF Good, Typed, IccOk, Whole, Describes, FileAgrees, C!SetFieldsFromICC
<1> QED
  BY <1>1, <1>2, <1>3 DEF EncodingInv

(* So does an assignment: one that changes anything marks the profile.      *)
LEMMA Assigns ==
  ASSUME EncodingInv, NEW d, Typed(d), d.icc = enc.icc, C!Assign(d)
  PROVE  EncodingInv'
<1>1. Good(d)
  BY DEF EncodingInv, Good, IccOk
<1>2. C!Become(d, C!Stale(d))
  BY Zenon DEF C!Assign
<1>3. C!Stale(d) \in BOOLEAN
  BY Zenon DEF C!Stale
<1>4. ~C!Stale(d) => Describes(d)
  BY DEF C!Stale, EncodingInv
<1> QED
  BY <1>1, <1>2, <1>3, <1>4, Becomes

(* The steps one by one.                                                    *)
LEMMA AssignSpaceStep == EncodingInv /\ C!AssignSpace => EncodingInv'
<1> SUFFICES ASSUME EncodingInv, C!AssignSpace PROVE EncodingInv'
  OBVIOUS
<1>1. PICK cs \in C!Spaces : C!Assign(C!SetColorSpace(enc, cs))
  BY DEF C!AssignSpace
<1>2. PICK d : d = C!SetColorSpace(enc, cs)
  OBVIOUS
<1>3. Keeps(enc, d, {"cs", "tfcs"}) /\ d.cs = cs /\ d.tfcs = cs
  BY <1>2, SetCs, TypedFields DEF EncodingInv, Good
<1>4. Typed(d) /\ d.icc = enc.icc
  <2>1. Typed(d)
    BY <1>3, TypedKept, TypesOfFields DEF EncodingInv, Good
  <2> QED
    BY <1>3, <2>1, Names14 DEF Keeps
<1> QED
  BY <1>1, <1>2, <1>4, Assigns

LEMMA AssignWhiteStep == EncodingInv /\ C!AssignWhite => EncodingInv'
<1> SUFFICES ASSUME EncodingInv, C!AssignWhite PROVE EncodingInv'
  OBVIOUS
<1>1. PICK xy \in Whites : C!Assign(C!SetWhitePoint(enc, xy).c)
  BY DEF C!AssignWhite
<1>2. PICK r : r = C!SetWhitePoint(enc, xy)
  OBVIOUS
<1>3. /\ Keeps(enc, r.c, {"wp", "white"}) /\ r.c.white \in C!Xy
      /\ r.c.wp = enc.wp \/ r.c.wp = WpOf(xy)
  BY <1>2, SetWhite, TypedFields, DescriptionConstants DEF EncodingInv, Good
<1>4. r.c.wp \in C!WhitePoints
  BY <1>3, TypedFields, WpOfIs DEF C!WhitePoints, Whites3, EncodingInv, Good
<1>5. Typed(r.c) /\ r.c.icc = enc.icc
  BY <1>3, <1>4, TypedKept, TypesOfFields, Names14 DEF EncodingInv, Good, Keeps
<1> QED
  BY <1>1, <1>2, <1>5, Assigns

LEMMA AssignPrimariesStep == EncodingInv /\ C!AssignPrimaries => EncodingInv'
<1> SUFFICES ASSUME EncodingInv, C!AssignPrimaries PROVE EncodingInv'
  OBVIOUS
<1>1. PICK rgb \in PrimarySets : C!Assign(C!SetPrimaries(enc, rgb).c)
  BY DEF C!AssignPrimaries
<1>2. PICK r : r = C!SetPrimaries(enc, rgb)
  OBVIOUS
<1>3. /\ Keeps(enc, r.c, {"pr", "rgb"}) /\ r.c.rgb \in C!Rgb
      /\ r.c.pr = enc.pr \/ r.c.pr = PrOf(rgb)
  BY <1>2, SetPrims, TypedFields, DescriptionConstants DEF EncodingInv, Good
<1>4. r.c.pr \in C!Primaries
  BY <1>3, TypedFields, PrOfIs DEF C!Primaries, EncodingInv, Good
<1>5. Typed(r.c) /\ r.c.icc = enc.icc
  BY <1>3, <1>4, TypedKept, TypesOfFields, Names14 DEF EncodingInv, Good, Keeps
<1> QED
  BY <1>1, <1>2, <1>5, Assigns

LEMMA AssignTransferFunctionStep ==
  EncodingInv /\ C!AssignTransferFunction => EncodingInv'
<1> SUFFICES ASSUME EncodingInv, C!AssignTransferFunction PROVE EncodingInv'
  OBVIOUS
<1>1. PICK tf \in TransferFunctions : C!Assign(C!SetTransferFunction(enc, tf))
  BY DEF C!AssignTransferFunction
<1>2. PICK d : d = C!SetTransferFunction(enc, tf)
  OBVIOUS
<1>3. Keeps(enc, d, {"have_gamma", "tf"}) /\ d.have_gamma = No /\ d.tf = tf
  BY <1>2, SetTf, TypedFields DEF EncodingInv, Good
<1>4. Typed(d) /\ d.icc = enc.icc
  <2>1. tf \in C!Curves
    BY DescriptionConstants
  <2>2. Typed(d)
    BY <1>3, <2>1, TypedKept, TypesOfFields, YesNo DEF EncodingInv, Good
  <2> QED
    BY <1>3, <2>2, Names14 DEF Keeps
<1> QED
  BY <1>1, <1>2, <1>4, Assigns

LEMMA AssignGammaStep == EncodingInv /\ C!AssignGamma => EncodingInv'
<1> SUFFICES ASSUME EncodingInv, C!AssignGamma PROVE EncodingInv'
  OBVIOUS
<1>1. PICK gamma \in Gammas : C!Assign(C!SetGamma(enc, gamma).c)
  BY DEF C!AssignGamma
<1>2. PICK r : r = C!SetGamma(enc, gamma)
  OBVIOUS
<1>3. Typed(r.c) /\ Keeps(enc, r.c, {"have_gamma", "gamma", "tf"})
  BY <1>2, SetsGamma, DescriptionConstants DEF EncodingInv, Good
<1>4. r.c.icc = enc.icc
  BY <1>3, Names14 DEF Keeps
<1> QED
  BY <1>1, <1>2, <1>3, <1>4, Assigns

LEMMA AssignIntentStep == EncodingInv /\ C!AssignIntent => EncodingInv'
<1> SUFFICES ASSUME EncodingInv, C!AssignIntent PROVE EncodingInv'
  OBVIOUS
<1>1. PICK ri \in Intents : C!Assign([enc EXCEPT !.ri = ri])
  BY DEF C!AssignIntent
<1>2. PICK d : d = With(enc, "ri", ri)
  OBVIOUS
<1>3. C!Assign(d)
  BY <1>1, <1>2 DEF With
<1>4. Keeps(enc, d, {"ri"}) /\ d.ri = ri
  BY <1>2, WithIs, TypedFields, Names14 DEF EncodingInv, Good
<1>5. Typed(d) /\ d.icc = enc.icc
  BY <1>4, TypedKept, TypesOfFields, DescriptionConstants, Names14 DEF EncodingInv, Good, Keeps
<1> QED
  BY <1>3, <1>5, Assigns

(* What a call has made of the encoding describes it, or is marked as stale.*)
LEMMA Remakes ==
  ASSUME EncodingInv, NEW r, Good(r.c), Describes(r.c), C!Remake(r)
  PROVE  EncodingInv'
<1>1. C!Become(r.c, No) /\ No \in BOOLEAN
  BY Zenon DEF C!Remake, No
<1> QED
  BY <1>1, Becomes

(* A call that may fail: if it has changed anything by then, what it leaves *)
(* is marked.                                                               *)
LEMMA Replaces ==
  ASSUME EncodingInv, NEW r, Good(r.c), r.ok => Describes(r.c), C!Replace(r)
  PROVE  EncodingInv'
<1>1. C!Become(r.c, ~r.ok /\ C!Stale(r.c))
  BY DEF C!Replace
<1>2. (~r.ok /\ C!Stale(r.c)) \in BOOLEAN
  BY Zenon DEF C!Stale
<1>3. ~(~r.ok /\ C!Stale(r.c)) => Describes(r.c)
  BY DEF C!Stale, EncodingInv
<1> QED
  BY <1>1, <1>2, <1>3, Becomes

LEMMA MakeProfileStep == EncodingInv /\ C!MakeProfile => EncodingInv'
<1> SUFFICES ASSUME EncodingInv, C!MakeProfile PROVE EncodingInv'
  OBVIOUS
<1>1. PICK r : r = C!CreateICC(enc)
  OBVIOUS
<1>2. C!Remake(r)
  BY <1>1 DEF C!MakeProfile
<1>3. Good(r.c) /\ Describes(r.c)
  BY <1>1, CreatedICC DEF EncodingInv, Good
<1> QED
  BY <1>2, <1>3, Remakes

LEMMA BecomeSRGBStep == EncodingInv /\ C!BecomeSRGB => EncodingInv'
<1> SUFFICES ASSUME EncodingInv, C!BecomeSRGB PROVE EncodingInv'
  OBVIOUS
<1>1. PICK cs \in {"RGB", "Gray"}, ri \in Intents : C!Remake(C!SetSRGB(enc, cs, ri))
  BY DEF C!BecomeSRGB
<1>2. PICK r : r = C!SetSRGB(enc, cs, ri)
  OBVIOUS
<1>3. cs \in C!Spaces /\ ri \in C!RenderingIntents
  BY DescriptionConstants DEF C!Spaces
<1>4. Good(r.c) /\ Describes(r.c)
  BY <1>2, <1>3, SRGBIs DEF EncodingInv, Good
<1> QED
  BY <1>1, <1>2, <1>4, Remakes

LEMMA TakeProfileStep == EncodingInv /\ C!TakeProfile => EncodingInv'
<1> SUFFICES ASSUME EncodingInv, C!TakeProfile PROVE EncodingInv'
  OBVIOUS
<1>1. PICK file \in Profiles : C!Remake(C!SetICC(enc, file))
  BY DEF C!TakeProfile
<1>2. PICK r : r = C!SetICC(enc, file)
  OBVIOUS
<1>3. Good(r.c) /\ Describes(r.c)
  BY <1>2, TakesFile DEF EncodingInv
<1> QED
  BY <1>1, <1>2, <1>3, Remakes

LEMMA TakeRawProfileStep == EncodingInv /\ C!TakeRawProfile => EncodingInv'
<1> SUFFICES ASSUME EncodingInv, C!TakeRawProfile PROVE EncodingInv'
  OBVIOUS
<1>1. PICK file \in Profiles : C!Remake(C!SetICCRaw(enc, file))
  BY DEF C!TakeRawProfile
<1>2. PICK r : r = C!SetICCRaw(enc, file)
  OBVIOUS
<1>3. Good(r.c) /\ Describes(r.c)
  BY <1>2, TakesRaw DEF EncodingInv
<1> QED
  BY <1>1, <1>2, <1>3, Remakes

LEMMA DecideStep == EncodingInv /\ C!Decide => EncodingInv'
<1> SUFFICES ASSUME EncodingInv, C!Decide PROVE EncodingInv'
  OBVIOUS
<1>1. PICK d : d = C!DecideIfWantICC(enc)
  OBVIOUS
<1>2. ~dirty /\ C!Become(d, No) /\ No \in BOOLEAN
  BY <1>1, Zenon DEF C!Decide, No
<1>3. Good(d) /\ Describes(d)
  BY <1>1, <1>2, Decided DEF EncodingInv
<1> QED
  BY <1>2, <1>3, Becomes

LEMMA ImportStep == EncodingInv /\ C!Import => EncodingInv'
<1> SUFFICES ASSUME EncodingInv, C!Import PROVE EncodingInv'
  OBVIOUS
<1>1. PICK e \in Externals : C!Replace(C!FromExternal(enc, e))
  BY DEF C!Import
<1>2. PICK r : r = C!FromExternal(enc, e)
  OBVIOUS
<1>3. e \in Structs
  BY DescriptionsAssumption DEF C!DescriptionAssumptions, C!EncodingAssumptions, Structs
<1>4. Good(r.c) /\ (r.ok => Describes(r.c))
  BY <1>2, <1>3, Imports DEF EncodingInv
<1> QED
  BY <1>1, <1>2, <1>4, Replaces

LEMMA TakeLineStep == EncodingInv /\ C!TakeLine => EncodingInv'
<1> SUFFICES ASSUME EncodingInv, C!TakeLine PROVE EncodingInv'
  OBVIOUS
<1>1. PICK line \in Lines :
        IF C!ParseDescription(line).ok
        THEN C!Replace(C!FromExternal(enc, C!ParseDescription(line).e))
        ELSE C!Become(enc, dirty)
  BY DEF C!TakeLine
<1>2. CASE ~C!ParseDescription(line).ok
  <2>1. enc' = enc /\ dirty' = dirty /\ ops' = ops + 1 /\ ops < MaxOps
    BY <1>1, <1>2 DEF C!Become
  <2>2. ops' \in 0 .. MaxOps
    BY <2>1, DescriptionConstants DEF EncodingInv
  <2> QED
    BY <2>1, <2>2 DEF EncodingInv, Good, Typed, IccOk, Whole, Describes, FileAgrees,
                      C!SetFieldsFromICC
<1>3. CASE C!ParseDescription(line).ok
  <2>1. PICK e : e = C!ParseDescription(line).e
    OBVIOUS
  <2>2. PICK r : r = C!FromExternal(enc, e)
    OBVIOUS
  <2>3. e \in Structs
    <3>1. line \in Seq(C!Tokens) /\ line # <<>>
      BY DescriptionsAssumption DEF C!DescriptionAssumptions
    <3> QED
      BY <2>1, <3>1, LineMeans DEF LineSaid, Parsings
  <2>4. Good(r.c) /\ (r.ok => Describes(r.c))
    BY <2>2, <2>3, Imports DEF EncodingInv
  <2> QED
    BY <1>1, <1>3, <2>1, <2>2, <2>4, Replaces
<1> QED
  BY <1>2, <1>3

LEMMA ReadHeaderStep == EncodingInv /\ C!ReadHeader => EncodingInv'
<1> SUFFICES ASSUME EncodingInv, C!ReadHeader PROVE EncodingInv'
  OBVIOUS
<1>1. PICK s \in Streams :
        C!Become(C!Read(enc, s).c, IF C!Read(enc, s).ok THEN C!Read(enc, s).c.want_icc
                                   ELSE C!Stale(C!Read(enc, s).c))
  BY DEF C!ReadHeader
<1>2. PICK r : r = C!Read(enc, s)
  OBVIOUS
<1>3. Good(r.c) /\ (r.ok /\ ~r.c.want_icc => Describes(r.c))
  BY <1>2, ReadIs, StreamIs DEF EncodingInv
<1>4. PICK stale : stale = IF r.ok THEN r.c.want_icc ELSE C!Stale(r.c)
  OBVIOUS
<1>5. C!Become(r.c, stale)
  BY <1>1, <1>2, <1>4
<1>6. stale \in BOOLEAN
  <2>1. CASE r.ok
    BY <1>3, <1>4, <2>1, TypedFields DEF Good
  <2>2. CASE ~r.ok
    BY <1>4, <2>2, Zenon DEF C!Stale
  <2> QED
    BY <2>1, <2>2
<1>7. ~stale => Describes(r.c)
  <2>1. CASE r.ok
    BY <1>3, <1>4, <2>1
  <2>2. CASE ~r.ok
    BY <1>4, <2>2 DEF C!Stale, EncodingInv
  <2> QED
    BY <2>1, <2>2
<1> QED
  BY <1>3, <1>5, <1>6, <1>7, Becomes

LEMMA WriteHeaderStep == EncodingInv /\ C!WriteHeader => EncodingInv'
<1> SUFFICES ASSUME EncodingInv, C!WriteHeader PROVE EncodingInv'
  OBVIOUS
<1>1. PICK r : r = C!VisitFields(enc)
  OBVIOUS
<1>2. r.ok /\ C!Become(r.c, enc.want_icc /\ dirty)
  BY <1>1 DEF C!WriteHeader, C!Serializable
<1>3. /\ Good(r.c) /\ (enc.want_icc => r.c = enc) /\ (~enc.want_icc => Describes(r.c))
  BY <1>1, <1>2, Visits1 DEF EncodingInv
<1>4. enc' = r.c /\ (dirty' = (enc.want_icc /\ dirty)) /\ ops' = ops + 1 /\ ops < MaxOps
  BY <1>2, Zenon DEF C!Become
<1>5. ops' \in 0 .. MaxOps
  BY <1>4, DescriptionConstants DEF EncodingInv
<1>6. dirty' \in BOOLEAN /\ (~dirty' => Describes(r.c))
  BY <1>3, <1>4 DEF EncodingInv
<1>7. Good(enc)' /\ (~dirty' => Describes(enc)')
  BY <1>3, <1>4, <1>6 DEF Good, Typed, IccOk, Whole, Describes, FileAgrees, C!SetFieldsFromICC
<1> QED
  BY <1>5, <1>6, <1>7 DEF EncodingInv

(* The first encoding is a fresh one.                                       *)
LEMMA EncodingInit == Init => EncodingInv
<1> SUFFICES ASSUME Init PROVE EncodingInv
  OBVIOUS
<1>1. enc = C!Fresh /\ dirty = FALSE /\ ops = 0
  BY DEF Init, C!Init
<1>2. 0 \in 0 .. MaxOps
  BY DescriptionConstants
<1>3. Good(enc) /\ Describes(enc)
  BY <1>1, FreshIs
<1> QED
  BY <1>1, <1>2, <1>3 DEF EncodingInv

(* A step of the composition is one of these or leaves the encoding alone.  *)
LEMMA EncodingStep ==
  EncodingInv /\ [Next]_<<which, encodingVars, profileVars, headerVars>> => EncodingInv'
<1> SUFFICES ASSUME EncodingInv, [Next]_<<which, encodingVars, profileVars, headerVars>>
             PROVE  EncodingInv'
  OBVIOUS
<1>1. ASSUME UNCHANGED encodingVars PROVE EncodingInv'
  BY <1>1 DEF encodingVars, EncodingInv, Good, Typed, IccOk, Whole, Describes, FileAgrees,
              C!SetFieldsFromICC
<1>2. CASE C!NextWithText
  BY <1>2, AssignSpaceStep, AssignWhiteStep, AssignPrimariesStep, AssignTransferFunctionStep,
     AssignGammaStep, AssignIntentStep, MakeProfileStep, BecomeSRGBStep, TakeProfileStep,
     TakeRawProfileStep, DecideStep, ImportStep, ReadHeaderStep, WriteHeaderStep, TakeLineStep
     DEF C!NextWithText, C!Next
<1>3. C!NextWithText \/ UNCHANGED encodingVars
  BY DEF Next
<1> QED
  BY <1>1, <1>2, <1>3

(* What the runs check is part of the invariant.                            *)
LEMMA EncodingMeans == EncodingInv => C!TypeOK /\ C!ProfileDescribesFields
<1> SUFFICES ASSUME EncodingInv PROVE C!TypeOK /\ C!ProfileDescribesFields
  OBVIOUS
<1>1. C!TypeOK
  <2>1. \A f \in DOMAIN C!FieldValues : enc[f] \in C!FieldValues[f]
    <3>1. \A f \in DOMAIN C!FieldValues : f \in Names \ {"icc"} /\ TypeOf(f) = C!FieldValues[f]
      BY OrderIs DEF Names, TypeOf
    <3> QED
      BY <3>1 DEF EncodingInv, Good, Typed
  <2> QED
    BY <2>1, TypedFields DEF C!TypeOK, EncodingInv, Good, IccOk
<1>2. ~dirty /\ enc.icc.kind = "made" => enc.icc.of = C!Signature(enc)
  BY DEF EncodingInv, Describes
<1>3. ~dirty /\ enc.icc.kind = "file" /\ enc.have_fields => FileAgrees(enc, enc.icc.of)
  BY DEF EncodingInv, Describes
<1>4. ~dirty /\ enc.have_fields /\ C!Decides(enc) => C!Equivalent(enc)
  <2>1. C!Decides(enc) => enc.icc.kind \in {"made", "file"}
    BY DEF C!Decides, C!Decodable
  <2> QED
    BY <1>2, <1>3, <2>1 DEF C!Equivalent, FileAgrees, C!FieldsAgree
<1> QED
  BY <1>1, <1>2, <1>3, <1>4 DEF C!ProfileDescribesFields, FileAgrees

(* Every call keeps an encoding and its profile together.                   *)
THEOREM EncodingsDescribed == Spec => []EncodingInv
<1>1. Init => EncodingInv
  BY EncodingInit
<1>2. EncodingInv /\ [Next]_<<which, encodingVars, profileVars, headerVars>> => EncodingInv'
  BY EncodingStep
<1> QED
  BY <1>1, <1>2, PTL DEF Spec

-------------------------------------------------------------------------------
(* An encoding read back from the struct of the C API.                       *)
LEMMA CloseToItself == ASSUME NEW xy \in C!Xy PROVE C!CloseXy(xy, xy)
<1>1. xy[1] \in Int /\ xy[2] \in Int
  BY DEF C!Xy
<1>2. \A n \in Int : C!ApproxEq(n, n)
  BY DEF C!ApproxEq, C!Abs
<1> QED
  BY <1>1, <1>2 DEF C!CloseXy

(* The white point and the primaries that are meant.                        *)
LEMMA Getters ==
  ASSUME NEW c, Typed(c)
  PROVE  C!GetWhitePoint(c) \in C!Xy /\ C!GetPrimaries(c) \in C!Rgb
<1>1. c.wp # "Custom" => C!StandardWhite(c.wp) \in C!Xy
  <2>1. C!D65 \in C!Xy /\ C!WhiteE \in C!Xy /\ C!WhiteDCI \in C!Xy
    BY SMT DEF C!D65, C!WhiteE, C!WhiteDCI, C!Xy
  <2> QED
    BY <2>1, TypedFields DEF C!StandardWhite, C!WhitePoints
<1>2. c.pr # "Custom" => C!StandardPrimaries(c.pr) \in C!Rgb
  <2>1. /\ C!StandardPrimaries("SRGB") \in C!Rgb
        /\ C!StandardPrimaries("2100") \in C!Rgb
        /\ C!StandardPrimaries("P3") \in C!Rgb
    BY SMT DEF C!StandardPrimaries, C!Rgb, C!Xy
  <2> QED
    BY <2>1, TypedFields DEF C!Primaries
<1> QED
  BY <1>1, <1>2, TypedFields DEF C!GetWhitePoint, C!GetPrimaries

(* A white point or primaries that were imported are close to the numbers.   *)
LEMMA WhiteClose ==
  ASSUME NEW xy \in C!Xy, NEW d, d.wp = WpOf(xy), d.wp = "Custom" => d.white = xy
  PROVE  C!CloseXy(xy, C!GetWhitePoint(d))
<1>1. CASE C!NearWhites(xy) = {}
  BY <1>1, CloseToItself DEF WpOf, C!GetWhitePoint
<1>2. CASE C!NearWhites(xy) # {}
  <2>1. WpOf(xy) \in C!NearWhites(xy)
    BY <1>2 DEF WpOf
  <2>2. d.wp # "Custom" /\ C!Near(xy, C!StandardWhite(d.wp))
    BY <2>1 DEF C!NearWhites
  <2> QED
    BY <2>2 DEF C!Near, C!CloseXy, C!GetWhitePoint
<1> QED
  BY <1>1, <1>2

(* ... and three primaries.                                                 *)
LEMMA PrimariesClose ==
  ASSUME NEW rgb \in C!Rgb, NEW d, d.pr = PrOf(rgb), d.pr = "Custom" => d.rgb = rgb
  PROVE  \A k \in 1 .. 3 : C!CloseXy(rgb[k], C!GetPrimaries(d)[k])
<1>1. CASE C!NearPrimaries(rgb) = {}
  <2>1. \A k \in 1 .. 3 : rgb[k] \in C!Xy
    BY DEF C!Rgb
  <2> QED
    BY <1>1, <2>1, CloseToItself DEF PrOf, C!GetPrimaries
<1>2. CASE C!NearPrimaries(rgb) # {}
  <2>1. PrOf(rgb) \in C!NearPrimaries(rgb)
    BY <1>2 DEF PrOf
  <2>2. d.pr # "Custom" /\ \A k \in 1 .. 3 : C!Near(rgb[k], C!StandardPrimaries(d.pr)[k])
    BY <2>1 DEF C!NearPrimaries
  <2> QED
    BY <2>2 DEF C!Near, C!CloseXy, C!GetPrimaries
<1> QED
  BY <1>1, <1>2

(* What can be set is no zero, and fits.                                    *)
LEMMA SettableIs ==
  ASSUME NEW c, Typed(c), C!FieldsSettable(c)
  PROVE  /\ WhiteOk(C!GetWhitePoint(c)) /\ (c.have_gamma => C!ValidGamma(c.gamma))
         /\ C!HasPrimaries(c) => PrimsOk(C!GetPrimaries(c))
BY DEF C!FieldsSettable, C!Settable, WhiteOk, PrimsOk

(* The curve that was imported is the one that was exported, or one that its *)
(* gamma is near to.                                                         *)
LEMMA TfClose ==
  ASSUME NEW c, Typed(c), NEW d, NEW e, TfMeans(d, e),
         e.tf = IF c.have_gamma THEN "Gamma" ELSE c.tf, c.have_gamma => e.gamma = c.gamma
  PROVE  C!CloseTf(c, d)
<1>1. CASE c.have_gamma
  <2>1. c.have_gamma = Yes /\ e.tf = "Gamma" /\ e.gamma = c.gamma
    BY <1>1, TypedFields, Zenon DEF Yes
  <2>2. CASE d.have_gamma = No /\ d.tf \in {"Linear", "DCI"}
    BY <1>1, <2>2, NotNo DEF C!CloseTf
  <2>3. CASE d.have_gamma = Yes /\ d.gamma = e.gamma
    BY <1>1, <2>1, <2>3, Zenon DEF C!CloseTf, C!SameTf
  <2> QED
    BY <2>1, <2>2, <2>3 DEF TfMeans
<1>2. CASE ~c.have_gamma
  <2>1. c.have_gamma = No /\ e.tf = c.tf /\ c.tf # "Gamma"
    BY <1>2, TypedFields, Zenon DEF No, C!Curves
  <2>2. d.have_gamma = No /\ d.tf = c.tf
    BY <2>1 DEF TfMeans
  <2> QED
    BY <1>2, <2>1, <2>2, Zenon DEF C!CloseTf, C!SameTf
<1> QED
  BY <1>1, <1>2

(* The struct of the C API an encoding is turned into.                      *)
LEMMA ExternalIs ==
  ASSUME NEW c, Typed(c), NEW e, e = C!ToExternal(c)
  PROVE  /\ e \in Structs /\ e.cs = c.cs /\ e.wp = c.wp /\ e.white = C!GetWhitePoint(c)
         /\ C!HasPrimaries(c) => e.pr = c.pr /\ e.rgb = C!GetPrimaries(c)
         /\ e.tf = IF c.have_gamma THEN "Gamma" ELSE c.tf
         /\ c.have_gamma => e.gamma = c.gamma
         /\ e.ri = c.ri
<1>1. C!HasPrimaries(c) <=> c.cs \in {"RGB", "Unknown"}
  BY TypedFields DEF C!HasPrimaries, C!Spaces
<1>2. <<<<0, 0>>, <<0, 0>>, <<0, 0>>>> \in C!Rgb
  BY DEF C!Rgb, C!Xy
<1>3. PICK pr, rgb, tf, gamma :
        /\ pr = (IF c.cs \in {"RGB", "Unknown"} THEN c.pr ELSE "none")
        /\ rgb = (IF c.cs \in {"RGB", "Unknown"} THEN C!GetPrimaries(c)
                  ELSE <<<<0, 0>>, <<0, 0>>, <<0, 0>>>>)
        /\ tf = (IF c.have_gamma THEN "Gamma" ELSE c.tf)
        /\ gamma = (IF c.have_gamma THEN c.gamma ELSE 0)
  OBVIOUS
<1>4. e = [cs |-> c.cs, wp |-> c.wp, white |-> C!GetWhitePoint(c), pr |-> pr, rgb |-> rgb,
           tf |-> tf, gamma |-> gamma, ri |-> c.ri]
  BY <1>3 DEF C!ToExternal
<1>5. /\ pr \in C!Primaries \cup {"none"} /\ rgb \in C!Rgb /\ tf \in C!Curves \cup {"Gamma", "none"}
      /\ gamma \in Int
  BY <1>2, <1>3, Getters, TypedFields
<1>6. e \in Structs
  BY <1>4, <1>5, Getters, TypedFields DEF Structs
<1> QED
  BY <1>1, <1>3, <1>4, <1>6

(* ConvertExternalToInternalColorEncoding undoes its inverse, up to the     *)
(* tolerance of the setters.                                                *)
LEMMA ExternalBack ==
  ASSUME NEW c, Typed(c), C!FieldsSettable(c),
         NEW r, r = C!FromExternal(C!Fresh, C!ToExternal(c))
  PROVE  r.ok /\ C!CloseEncoding(c, r.c)
<1> DEFINE e == C!ToExternal(c)
<1>1. /\ e \in Structs /\ e.cs = c.cs /\ e.wp = c.wp /\ e.white = C!GetWhitePoint(c)
      /\ C!HasPrimaries(c) => e.pr = c.pr /\ e.rgb = C!GetPrimaries(c)
      /\ e.tf = IF c.have_gamma THEN "Gamma" ELSE c.tf
      /\ c.have_gamma => e.gamma = c.gamma
      /\ e.ri = c.ri
  BY ExternalIs
<1>2. r = C!FromExternal(C!Fresh, e)
  OBVIOUS
<1> HIDE DEF e
<1>3. C!HasPrimaries(c) <=> e.cs \notin {"Gray", "XYB"}
  BY <1>1 DEF C!HasPrimaries
<1>4. ImportOk(e)
  BY <1>1, <1>3, SettableIs, TypedFields DEF ImportOk, TfOk, C!WhitePoints, C!Primaries, C!Curves
<1>5. r.ok /\ ImportedAs(r.c, e)
  BY <1>1, <1>2, <1>4, FreshIs, Imports
<1>6. C!CloseXy(C!GetWhitePoint(c), C!GetWhitePoint(r.c))
  <2>1. CASE c.wp = "Custom"
    <3>1. c.white \in C!Xy /\ C!GetWhitePoint(c) = c.white /\ e.white = c.white
      BY <1>1, <2>1, TypedFields DEF C!GetWhitePoint
    <3>2. r.c.wp = WpOf(c.white) /\ (r.c.wp = "Custom" => r.c.white = c.white)
      BY <1>1, <1>5, <2>1, <3>1 DEF ImportedAs
    <3> QED
      BY <3>1, <3>2, WhiteClose
  <2>2. CASE c.wp # "Custom"
    <3>1. r.c.wp = c.wp
      BY <1>1, <1>5, <2>2 DEF ImportedAs
    <3>2. C!GetWhitePoint(r.c) = C!GetWhitePoint(c)
      BY <2>2, <3>1 DEF C!GetWhitePoint
    <3> QED
      BY <3>2, Getters, CloseToItself
  <2> QED
    BY <2>1, <2>2
<1>7. ASSUME C!HasPrimaries(c)
      PROVE  \A k \in 1 .. 3 : C!CloseXy(C!GetPrimaries(c)[k], C!GetPrimaries(r.c)[k])
  <2>1. CASE c.pr = "Custom"
    <3>1. c.rgb \in C!Rgb /\ C!GetPrimaries(c) = c.rgb /\ e.rgb = c.rgb
      BY <1>1, <1>7, <2>1, TypedFields DEF C!GetPrimaries
    <3>2. r.c.pr = PrOf(c.rgb) /\ (r.c.pr = "Custom" => r.c.rgb = c.rgb)
      BY <1>1, <1>3, <1>5, <1>7, <2>1, <3>1 DEF ImportedAs
    <3> QED
      BY <3>1, <3>2, PrimariesClose
  <2>2. CASE c.pr # "Custom"
    <3>1. r.c.pr = c.pr
      BY <1>1, <1>3, <1>5, <1>7, <2>2 DEF ImportedAs
    <3>2. C!GetPrimaries(r.c) = C!GetPrimaries(c)
      BY <2>2, <3>1 DEF C!GetPrimaries
    <3>3. \A k \in 1 .. 3 : C!GetPrimaries(c)[k] \in C!Xy
      BY Getters DEF C!Rgb
    <3> QED
      BY <3>2, <3>3, CloseToItself
  <2> QED
    BY <2>1, <2>2
<1>8. C!CloseTf(c, r.c)
  BY <1>1, <1>5, TfClose DEF ImportedAs
<1> QED
  BY <1>1, <1>5, <1>6, <1>7, <1>8 DEF C!CloseEncoding, ImportedAs

-------------------------------------------------------------------------------
(* Hints.                                                                    *)
LEMMA UsableIs ==
  ASSUME NEW e \in Structs, e.wp # "none", e.tf # "none",
         e.cs \in {"Gray", "XYB"} \/ e.pr # "none"
  PROVE  C!Usable(e)
<1>1. C!FromExternal(C!Fresh, e).ok <=> ImportOk(e)
  BY FreshIs, Imports
<1> QED
  BY <1>1 DEF ImportOk, TfOk, C!Usable

(* What ApplyColorHints knows after some of the hints.                      *)
HintStates == [ok : BOOLEAN, got : BOOLEAN, e : Structs, icc : {"none", "file"}]
ColorsKnown(e, isGray) ==
  (e.cs = "Gray") = isGray /\ e.wp # "none" /\ e.tf # "none" /\ C!Usable(e)
HintsSoFar(r, isGray) ==
  /\ r \in HintStates
  /\ r.ok /\ r.icc = "none" /\ r.got => ColorsKnown(r.e, isGray)
NoHints == [ok |-> TRUE, got |-> FALSE, e |-> C!NoEncoding, icc |-> "none"]
Hints(h) ==
  \/ h.key = "color_space" /\ h.line \in Seq(C!Tokens) /\ h.line # <<>>
  \/ h.key = "icc_pathname" /\ h.file = "file"
  \/ h.key = "other"

(* Before the first hint nothing is known.                                  *)
LEMMA NoHintsIs == \A isGray : HintsSoFar(NoHints, isGray)
<1>1. C!NoEncoding \in Structs
  BY DEF C!NoEncoding, Structs, C!Spaces, C!Xy, C!Rgb, C!RenderingIntents
<1> QED
  BY <1>1 DEF HintsSoFar, NoHints, HintStates

(* A hint is applied.                                                       *)
LEMMA HintTaken ==
  ASSUME NEW isGray \in BOOLEAN, NEW r, HintsSoFar(r, isGray), NEW h, Hints(h)
  PROVE  HintsSoFar(C!ApplyHint(r, h, isGray), isGray)
<1>1. CASE ~r.ok \/ h.key = "other"
  <2>1. C!ApplyHint(r, h, isGray) = r
    BY <1>1 DEF C!ApplyHint
  <2> QED
    BY <2>1
<1>2. CASE r.ok /\ h.key = "color_space"
  <2>1. PICK p : p = C!ParseDescription(h.line)
    OBVIOUS
  <2>2. LineSaid(h.line, p)
    BY <1>2, <2>1, LineMeans DEF Hints
  <2>3. C!ApplyHint(r, h, isGray) =
          IF ~p.ok THEN [r EXCEPT !.ok = FALSE]
          ELSE [r EXCEPT !.e = p.e, !.got = TRUE, !.ok = (isGray = (p.e.cs = "Gray"))]
    BY <1>2, <2>1 DEF C!ApplyHint
  <2>4. CASE ~p.ok
    <3>1. C!ApplyHint(r, h, isGray) = [r EXCEPT !.ok = FALSE]
      BY <2>3, <2>4
    <3> QED
      BY <3>1 DEF HintsSoFar, HintStates
  <2>5. CASE p.ok
    <3>1. p.e \in Structs
      BY <2>2 DEF LineSaid, Parsings
    <3>2. C!Usable(p.e)
      BY <2>2, <2>5, <3>1, UsableIs DEF LineSaid
    <3>3. PICK b \in BOOLEAN : b = (isGray = (p.e.cs = "Gray"))
      OBVIOUS
    <3>4. b => (p.e.cs = "Gray") = isGray
      BY <3>3
    <3>5. C!ApplyHint(r, h, isGray) = [r EXCEPT !.e = p.e, !.got = TRUE, !.ok = b]
      BY <2>3, <2>5, <3>3
    <3>6. PICK q : q = [r EXCEPT !.e = p.e, !.got = TRUE, !.ok = b]
      OBVIOUS
    <3>7. q \in HintStates /\ q.e = p.e /\ (q.ok => b)
      BY <3>1, <3>6 DEF HintsSoFar, HintStates
    <3>8. HintsSoFar(q, isGray)
      BY <2>2, <2>5, <3>2, <3>4, <3>7 DEF HintsSoFar, ColorsKnown, LineSaid
    <3> QED
      BY <3>5, <3>6, <3>8
  <2> QED
    BY <2>4, <2>5
<1>3. CASE r.ok /\ h.key = "icc_pathname"
  <2>1. C!ApplyHint(r, h, isGray) = [r EXCEPT !.icc = "file", !.got = TRUE]
    BY <1>3 DEF C!ApplyHint, Hints
  <2> QED
    BY <2>1 DEF HintsSoFar, HintStates
<1> QED
  BY <1>1, <1>2, <1>3 DEF Hints

(* What is assumed when no hint said anything.                              *)
LEMMA SRGBAssumed ==
  ASSUME NEW isGray \in BOOLEAN, NEW r, HintsSoFar(r, isGray),
         r.ok, r.icc = "none", NEW q, q = C!AssumeSRGB(r, isGray)
  PROVE  ColorsKnown(q.e, isGray)
<1>1. CASE r.got
  BY <1>1 DEF HintsSoFar, C!AssumeSRGB
<1>2. CASE ~r.got
  <2>1. PICK cs : cs = IF isGray THEN "Gray" ELSE "RGB"
    OBVIOUS
  <2>2. PICK a, b, c, e : /\ a = [r.e EXCEPT !.cs = cs] /\ b = [a EXCEPT !.wp = "D65"]
                          /\ c = [b EXCEPT !.pr = "SRGB"] /\ e = [c EXCEPT !.tf = "SRGB"]
    OBVIOUS
  <2>3. q.e = e
    BY <1>2, <2>1, <2>2 DEF C!AssumeSRGB, HintsSoFar, HintStates, Structs
  <2>4. cs \in C!Spaces /\ "D65" \in C!WhitePoints /\ "SRGB" \in C!Primaries /\ "SRGB" \in C!Curves
    BY <2>1 DEF C!Spaces, C!WhitePoints, C!Primaries, C!Curves
  <2>5. r.e \in Structs
    BY DEF HintsSoFar, HintStates
  <2>6. a \in Structs /\ a.cs = cs
    BY <2>2, <2>4, <2>5, StructChanged, StructAssigned
  <2>7. b \in Structs /\ b.wp = "D65" /\ b.cs = cs
    <3>1. b \in Structs
      BY <2>2, <2>4, <2>6, StructChanged
    <3>2. b.wp = "D65" /\ b.cs = cs
      BY <2>2, <2>6 DEF Structs
    <3> QED
      BY <3>1, <3>2
  <2>8. c \in Structs /\ c.pr = "SRGB" /\ c.wp = "D65" /\ c.cs = cs
    <3>1. c \in Structs
      BY <2>2, <2>4, <2>7, StructChanged
    <3>2. c.pr = "SRGB" /\ c.wp = "D65" /\ c.cs = cs
      BY <2>2, <2>7 DEF Structs
    <3> QED
      BY <3>1, <3>2
  <2>9. e \in Structs /\ e.tf = "SRGB" /\ e.pr = "SRGB" /\ e.wp = "D65" /\ e.cs = cs
    <3>1. e \in Structs
      BY <2>2, <2>4, <2>8, StructChanged
    <3>2. e.tf = "SRGB" /\ e.pr = "SRGB" /\ e.wp = "D65" /\ e.cs = cs
      BY <2>2, <2>8 DEF Structs
    <3> QED
      BY <3>1, <3>2
  <2>10. C!Usable(e)
    BY <2>9, UsableIs
  <2>11. (e.cs = "Gray") = isGray
    BY <2>1, <2>9
  <2> QED
    BY <2>3, <2>9, <2>10, <2>11 DEF ColorsKnown
<1> QED
  BY <1>1, <1>2

(* The function that ApplyColorHints chooses.                               *)
Applied(f, h, isGray, n) ==
  f = [k \in 0 .. n |-> IF k = 0 THEN NoHints ELSE C!ApplyHint(f[k - 1], h[k], isGray)]

(* There is one, whatever the hints.                                        *)
LEMMA AppliedExist ==
  ASSUME NEW h, NEW isGray, NEW n \in 0 .. 2
  PROVE  \E f : Applied(f, h, isGray, n)
<1> DEFINE one == C!ApplyHint(NoHints, h[1], isGray)
<1> DEFINE two == C!ApplyHint(one, h[2], isGray)
<1> DEFINE g == [k \in 0 .. n |-> IF k = 0 THEN NoHints ELSE IF k = 1 THEN one ELSE two]
<1>1. \A k \in 0 .. n : g[k] = IF k = 0 THEN NoHints ELSE C!ApplyHint(g[k - 1], h[k], isGray)
  <2> SUFFICES ASSUME NEW k \in 0 .. n
               PROVE  g[k] = IF k = 0 THEN NoHints ELSE C!ApplyHint(g[k - 1], h[k], isGray)
    OBVIOUS
  <2>1. CASE k = 0
    BY <2>1
  <2>2. CASE k = 1
    <3>1. g[k] = one /\ g[k - 1] = NoHints
      <4> HIDE DEF one, two
      <4> QED
        BY <2>2
    <3> QED
      BY <2>2, <3>1
  <2>3. CASE k = 2
    <3>1. g[k] = two /\ g[k - 1] = one
      <4> HIDE DEF one, two
      <4> QED
        BY <2>3
    <3> QED
      BY <2>3, <3>1
  <2> QED
    BY <2>1, <2>2, <2>3
<1> HIDE DEF one, two
<1>2. Applied([k \in 0 .. n |-> g[k]], h, isGray, n)
  BY <1>1 DEF Applied
<1> QED
  BY <1>2

(* Any number of hints, for a file of either kind.                          *)
LEMMA HintsSound ==
  ASSUME NEW isGray \in BOOLEAN, NEW h, Len(h) \in 0 .. 2, \A k \in 1 .. Len(h) : Hints(h[k])
  PROVE  C!HintOk(h, isGray)
<1> DEFINE f == CHOOSE f : Applied(f, h, isGray, Len(h))
<1>1. Applied(f, h, isGray, Len(h))
  BY AppliedExist
<1>2. C!ApplyColorHints(h, FALSE, isGray) = C!AssumeSRGB(f[Len(h)], isGray)
  BY Zenon DEF C!ApplyColorHints, Applied, NoHints
<1> HIDE DEF f
<1>3. f[0] = NoHints /\ \A k \in 1 .. Len(h) : f[k] = C!ApplyHint(f[k - 1], h[k], isGray)
  BY <1>1 DEF Applied
<1>4. HintsSoFar(f[0], isGray)
  BY <1>3, NoHintsIs
<1>5. 1 \in 1 .. Len(h) => HintsSoFar(f[1], isGray)
  BY <1>3, <1>4, HintTaken
<1>6. 2 \in 1 .. Len(h) => HintsSoFar(f[2], isGray)
  BY <1>3, <1>5, HintTaken
<1>7. HintsSoFar(f[Len(h)], isGray)
  BY <1>4, <1>5, <1>6
<1>8. PICK r, q : r = f[Len(h)] /\ q = C!AssumeSRGB(r, isGray)
  OBVIOUS
<1>9. ASSUME q.ok, q.icc = "none" PROVE ColorsKnown(q.e, isGray)
  <2>1. r.ok /\ r.icc = "none"
    BY <1>7, <1>8, <1>9 DEF C!AssumeSRGB, HintsSoFar, HintStates
  <2> QED
    BY <1>7, <1>8, <2>1, SRGBAssumed
<1>10. C!ApplyColorHints(h, TRUE, isGray).e = C!NoEncoding
  <2>1. C!ApplyColorHints(h, TRUE, isGray) = NoHints
    BY Zenon DEF C!ApplyColorHints, NoHints
  <2>2. NoHints.e = C!NoEncoding
    BY DEF NoHints
  <2> QED
    BY <2>1, <2>2, Zenon
<1>11. C!ApplyColorHints(h, FALSE, isGray) = q
  BY <1>2, <1>8
<1> QED
  BY <1>9, <1>10, <1>11 DEF C!HintOk, ColorsKnown

(* What the runs check of hints, of every line of text.                     *)
LEMMA HintsAreApplied == C!HintsApply
<1> DEFINE H2 == {[key |-> "color_space", line |-> l] : l \in Lines}
                   \cup {[key |-> "icc_pathname", file |-> "file"], [key |-> "other"]}
<1>1. \A a \in H2 : Hints(a)
  BY DescriptionsAssumption DEF C!DescriptionAssumptions, Hints
<1>2. \A isGray \in BOOLEAN : C!HintOk(<<>>, isGray)
  BY HintsSound
<1>3. \A isGray \in BOOLEAN : \A a \in H2 : C!HintOk(<<a>>, isGray)
  <2> SUFFICES ASSUME NEW isGray \in BOOLEAN, NEW a \in H2 PROVE C!HintOk(<<a>>, isGray)
    BY Zenon
  <2>1. PICK h : h = <<a>>
    OBVIOUS
  <2>2. Len(h) \in 0 .. 2 /\ \A k \in 1 .. Len(h) : Hints(h[k])
    BY <1>1, <2>1
  <2> QED
    BY <2>1, <2>2, HintsSound
<1>4. \A isGray \in BOOLEAN : \A a \in H2 : \A b \in H2 : C!HintOk(<<a, b>>, isGray)
  <2> SUFFICES ASSUME NEW isGray \in BOOLEAN, NEW a \in H2, NEW b \in H2
               PROVE  C!HintOk(<<a, b>>, isGray)
    BY Zenon
  <2>1. PICK h : h = <<a, b>>
    OBVIOUS
  <2>2. Len(h) \in 0 .. 2 /\ \A k \in 1 .. Len(h) : Hints(h[k])
    BY <1>1, <2>1
  <2> QED
    BY <2>1, <2>2, HintsSound
<1> HIDE DEF H2
<1>5. C!HintsApply <=>
        (ops = 0 => \A isGray \in BOOLEAN :
                      /\ C!HintOk(<<>>, isGray)
                      /\ \A a \in H2 : C!HintOk(<<a>>, isGray)
                                         /\ \A b \in H2 : C!HintOk(<<a, b>>, isGray))
  BY DEF C!HintsApply, H2
<1> QED
  BY <1>2, <1>3, <1>4, <1>5

(* A token added to a line.                                                 *)
Put(S, s, x, t) ==
  /\ t \in Seq(S) /\ Len(t) = Len(s) + 1 /\ t[Len(s) + 1] = x
  /\ \A i \in 1 .. Len(s) : t[i] = s[i]

(* ... and where it is found.                                               *)
LEMMA PutOn ==
  ASSUME NEW S, NEW s \in Seq(S), NEW x \in S
  PROVE  Put(S, s, x, s \o <<x>>)
<1>1. <<x>> \in Seq(S) /\ Len(<<x>>) = 1 /\ Len(s) \in Nat /\ <<x>>[1] = x
  BY LenProperties
<1>2. PICK t : t = s \o <<x>>
  OBVIOUS
<1>3. /\ t \in Seq(S) /\ Len(t) = Len(s) + 1
      /\ \A i \in 1 .. Len(s) + 1 : t[i] = IF i <= Len(s) THEN s[i] ELSE <<x>>[i - Len(s)]
  BY <1>1, <1>2, ConcatProperties
<1> QED
  BY <1>1, <1>2, <1>3 DEF Put

(* A description has two, four or five tokens.                              *)
Space(c) == C!Word(C!SpaceName[c.cs])
Intent(c) == C!Word(C!IntentName[c.ri])
Described(s, c) ==
  /\ Len(s) \in Nat /\ s[1] = Space(c)
  /\ c.cs = "XYB" => Len(s) = 2 /\ s[2] = Intent(c)
  /\ c.cs = "Gray" => /\ Len(s) = 4 /\ s[2] = C!WhiteToken(c) /\ s[3] = Intent(c)
                      /\ s[4] = C!TfToken(c)
  /\ c.cs \notin {"XYB", "Gray"} =>
       /\ Len(s) = 5 /\ s[2] = C!WhiteToken(c) /\ s[3] = C!PrimariesToken(c)
       /\ s[4] = Intent(c) /\ s[5] = C!TfToken(c)

(* Description writes them in this order.                                   *)
LEMMA DescriptionIs ==
  ASSUME NEW c, Typed(c), C!InSync(c)
  PROVE  Described(C!Description(c), c)
<1>0. PICK S : S = {Space(c), C!WhiteToken(c), C!PrimariesToken(c), Intent(c), C!TfToken(c)}
  OBVIOUS
<1>1. PICK a, b, d, e, f : /\ a = <<Space(c)>> /\ b = a \o C!If(c.cs # "XYB", C!WhiteToken(c))
                           /\ d = b \o C!If(C!HasPrimaries(c), C!PrimariesToken(c))
                           /\ e = d \o <<Intent(c)>> /\ f = e \o C!If(c.tfcs # "XYB", C!TfToken(c))
  OBVIOUS
<1>2. C!Description(c) = f
  BY <1>1 DEF C!Description, Space, Intent
<1>3. a \in Seq(S) /\ Len(a) = 1 /\ a[1] = Space(c)
  BY <1>0, <1>1
<1>4. /\ Space(c) \in S /\ C!WhiteToken(c) \in S /\ C!PrimariesToken(c) \in S
      /\ Intent(c) \in S /\ C!TfToken(c) \in S
  BY <1>0
<1>5. CASE c.cs = "XYB"
  <2>1. b = a \o <<>> /\ d = b \o <<>> /\ f = e \o <<>>
    BY <1>1, <1>5 DEF C!If, C!HasPrimaries, C!InSync
  <2>2. b = a
    BY <1>3, <2>1, ConcatEmptySeq
  <2>3. d = a
    BY <1>3, <2>1, <2>2, ConcatEmptySeq
  <2>4. e \in Seq(S) /\ Len(e) = 2 /\ e[2] = Intent(c) /\ e[1] = a[1]
    <3>1. Put(S, a, Intent(c), e)
      BY <1>1, <1>3, <1>4, <2>3, PutOn
    <3> QED
      BY <1>1, <1>3, <1>4, <2>3, <3>1 DEF Put
  <2>5. f = e
    BY <2>1, <2>4, ConcatEmptySeq
  <2> QED
    BY <1>2, <1>3, <1>5, <2>4, <2>5 DEF Described
<1>6. CASE c.cs = "Gray"
  <2>1. b = a \o <<C!WhiteToken(c)>> /\ d = b \o <<>> /\ f = e \o <<C!TfToken(c)>>
    BY <1>1, <1>6 DEF C!If, C!HasPrimaries, C!InSync
  <2>2. b \in Seq(S) /\ Len(b) = 2 /\ b[2] = C!WhiteToken(c) /\ b[1] = a[1]
    <3>1. Put(S, a, C!WhiteToken(c), b)
      BY <1>3, <1>4, <2>1, PutOn
    <3> QED
      BY <1>3, <1>4, <2>1, <3>1 DEF Put
  <2>3. d = b
    BY <2>1, <2>2, ConcatEmptySeq
  <2>4. /\ e \in Seq(S) /\ Len(e) = 3 /\ e[3] = Intent(c)
        /\ \A i \in 1 .. 2 : e[i] = d[i]
    <3>1. Put(S, d, Intent(c), e)
      BY <1>1, <1>4, <2>2, <2>3, PutOn
    <3> QED
      BY <1>1, <1>4, <2>2, <2>3, <3>1 DEF Put
  <2>5. /\ f \in Seq(S) /\ Len(f) = 4 /\ f[4] = C!TfToken(c) /\ \A i \in 1 .. 3 : f[i] = e[i]
    <3>1. Put(S, e, C!TfToken(c), f)
      BY <1>4, <2>1, <2>4, PutOn
    <3> QED
      BY <1>4, <2>1, <2>4, <3>1 DEF Put
  <2> QED
    BY <1>2, <1>3, <1>6, <2>2, <2>3, <2>4, <2>5 DEF Described
<1>7. CASE c.cs \notin {"XYB", "Gray"}
  <2>1. /\ b = a \o <<C!WhiteToken(c)>> /\ d = b \o <<C!PrimariesToken(c)>>
        /\ f = e \o <<C!TfToken(c)>>
    BY <1>1, <1>7 DEF C!If, C!HasPrimaries, C!InSync
  <2>2. b \in Seq(S) /\ Len(b) = 2 /\ b[2] = C!WhiteToken(c) /\ b[1] = a[1]
    <3>1. Put(S, a, C!WhiteToken(c), b)
      BY <1>3, <1>4, <2>1, PutOn
    <3> QED
      BY <1>3, <1>4, <2>1, <3>1 DEF Put
  <2>3. /\ d \in Seq(S) /\ Len(d) = 3 /\ d[3] = C!PrimariesToken(c)
        /\ \A i \in 1 .. 2 : d[i] = b[i]
    <3>1. Put(S, b, C!PrimariesToken(c), d)
      BY <1>4, <2>1, <2>2, PutOn
    <3> QED
      BY <1>4, <2>1, <2>2, <3>1 DEF Put
  <2>4. /\ e \in Seq(S) /\ Len(e) = 4 /\ e[4] = Intent(c)
        /\ \A i \in 1 .. 3 : e[i] = d[i]
    <3>1. Put(S, d, Intent(c), e)
      BY <1>1, <1>4, <2>3, PutOn
    <3> QED
      BY <1>1, <1>4, <2>3, <3>1 DEF Put
  <2>5. /\ f \in Seq(S) /\ Len(f) = 5 /\ f[5] = C!TfToken(c) /\ \A i \in 1 .. 4 : f[i] = e[i]
    <3>1. Put(S, e, C!TfToken(c), f)
      BY <1>4, <2>1, <2>4, PutOn
    <3> QED
      BY <1>4, <2>1, <2>4, <3>1 DEF Put
  <2> QED
    BY <1>2, <1>3, <1>7, <2>2, <2>3, <2>4, <2>5 DEF Described
<1> QED
  BY <1>5, <1>6, <1>7

(* A tokenizer that has not passed the end is at the token it says.         *)
LEMMA TokenAtIs ==
  ASSUME NEW s, Len(s) \in Nat, NEW i \in 1 .. Len(s)
  PROVE  C!Token(s, i) = s[i]
<1>1. (i - 1) % Len(s) = i - 1
  OBVIOUS
<1> QED
  BY <1>1 DEF C!Token

(* No two values have the same name.                                        *)
LEMMA Injective ==
  /\ \A x, y \in C!Spaces : C!SpaceName[x] = C!SpaceName[y] => x = y
  /\ \A x, y \in C!WhitePoints : C!WhiteName[x] = C!WhiteName[y] => x = y
  /\ \A x, y \in C!Primaries : C!PrimariesName[x] = C!PrimariesName[y] => x = y
  /\ \A x, y \in C!Curves : C!TfName[x] = C!TfName[y] => x = y
  /\ \A x, y \in C!RenderingIntents : C!IntentName[x] = C!IntentName[y] => x = y
BY DEF C!SpaceName, C!Spaces, C!WhiteName, C!WhitePoints, C!PrimariesName, C!Primaries,
       C!TfName, C!Curves, C!IntentName, C!RenderingIntents

(* What a word says to the one who wrote it.                                *)
WordSays(x, names) ==
  C!Means(C!Word(names[x]), names) /\ C!Meaning(C!Word(names[x]), names) = x

(* ... it says to the one who reads it.                                     *)
LEMMA WordMeans ==
  ASSUME NEW names, NEW D, D = DOMAIN names, \A x, y \in D : names[x] = names[y] => x = y,
         NEW x \in D
  PROVE  WordSays(x, names)
<1>1. C!Word(names[x]).kind = "word" /\ C!Word(names[x]).word = names[x]
  BY DEF C!Word
<1> QED
  BY <1>1 DEF WordSays, C!Means, C!Meaning

(* %g rounds to six digits.                                                 *)
LEMMA PrintedIs ==
  ASSUME NEW n \in Int
  PROVE  /\ C!Printed(n) \in Int /\ C!ApproxEq(n, C!Printed(n))
         /\ -1000000 < C!Printed(n) /\ C!Printed(n) < 1000000 => C!Printed(n) = n
         /\ n # 0 => C!Printed(n) # 0
         /\ C!Encodable(n) => C!Encodable(C!Printed(n))
BY SMT DEF C!Printed, C!Rounded, C!Abs, C!ApproxEq, C!Encodable

(* ... of a gamma, which stays valid.                                       *)
LEMMA GammaPrinted ==
  ASSUME NEW n \in Int, C!ValidGamma(n)
  PROVE  C!PrintedGamma(n) \in Int /\ C!ValidGamma(C!PrintedGamma(n))
BY SMT DEF C!PrintedGamma, C!Rounded, C!ValidGamma, C!Unity

(* A pair of coordinates as it is printed.                                  *)
PrintedXy(xy) == <<C!Printed(xy[1]), C!Printed(xy[2])>>

(* A white point that is near a standard one is printed as it is.           *)
LEMMA NearIsPrinted ==
  ASSUME NEW xy \in C!Xy, NEW wp \in Whites3, C!Near(PrintedXy(xy), C!StandardWhite(wp))
  PROVE  PrintedXy(xy) = xy
<1>1. xy[1] \in Int /\ xy[2] \in Int /\ xy = <<xy[1], xy[2]>>
  BY DEF C!Xy
<1>2. /\ -1000000 < C!Printed(xy[1]) /\ C!Printed(xy[1]) < 1000000
      /\ -1000000 < C!Printed(xy[2]) /\ C!Printed(xy[2]) < 1000000
  <2>1. PICK a, b : a = C!Printed(xy[1]) /\ b = C!Printed(xy[2])
    OBVIOUS
  <2>2. a \in Int /\ b \in Int /\ C!Near(<<a, b>>, C!StandardWhite(wp))
    BY <1>1, <2>1, PrintedIs DEF PrintedXy
  <2> QED
    BY SMT, <2>1, <2>2 DEF C!Near, C!ApproxEq, C!Abs, C!StandardWhite, C!D65, C!WhiteE, C!WhiteDCI, Whites3
<1>3. C!Printed(xy[1]) = xy[1] /\ C!Printed(xy[2]) = xy[2]
  BY <1>1, <1>2, PrintedIs
<1> QED
  BY <1>1, <1>3 DEF PrintedXy

(* A white point that was printed can be set, and stays close.              *)
LEMMA PrintedWhite ==
  ASSUME NEW xy \in C!Xy, C!Settable(xy)
  PROVE  /\ PrintedXy(xy) \in C!Xy /\ WhiteOk(PrintedXy(xy))
         /\ \A d : d.wp = WpOf(PrintedXy(xy)) /\ (d.wp = "Custom" => d.white = PrintedXy(xy))
                     => C!CloseXy(xy, C!GetWhitePoint(d))
<1>1. xy[1] \in Int /\ xy[2] \in Int
  BY DEF C!Xy
<1>2. PICK z : z = PrintedXy(xy)
  OBVIOUS
<1>3. /\ z \in C!Xy /\ z[1] = C!Printed(xy[1]) /\ z[2] = C!Printed(xy[2])
  BY <1>1, <1>2, PrintedIs DEF PrintedXy, C!Xy
<1>4. z[1] # 0 /\ z[2] # 0 /\ C!Encodable(z[1]) /\ C!Encodable(z[2])
  BY <1>1, <1>3, PrintedIs DEF C!Settable
<1>5. WhiteOk(z)
  BY <1>4 DEF WhiteOk
<1>6. C!CloseXy(xy, z)
  BY <1>1, <1>3, PrintedIs DEF C!CloseXy
<1>7. ASSUME NEW d, d.wp = WpOf(z), d.wp = "Custom" => d.white = z
      PROVE  C!CloseXy(xy, C!GetWhitePoint(d))
  <2>1. CASE C!NearWhites(z) = {}
    BY <1>6, <1>7, <2>1 DEF WpOf, C!GetWhitePoint
  <2>2. CASE C!NearWhites(z) # {}
    <3>1. WpOf(z) \in C!NearWhites(z)
      BY <2>2 DEF WpOf
    <3>2. WpOf(z) \in Whites3 /\ C!Near(z, C!StandardWhite(WpOf(z)))
      BY <3>1 DEF C!NearWhites, Whites3
    <3>3. z = xy
      BY <1>2, <3>2, NearIsPrinted
    <3> QED
      BY <1>7, <3>3, WhiteClose
  <2> QED
    BY <2>1, <2>2
<1> QED
  BY <1>2, <1>3, <1>5, <1>7

(* The tokens.                                                               *)
LEMMA TokensSay ==
  ASSUME NEW c, Typed(c)
  PROVE  /\ C!Means(Space(c), C!SpaceName) /\ C!Meaning(Space(c), C!SpaceName) = c.cs
         /\ C!Means(Intent(c), C!IntentName) /\ C!Meaning(Intent(c), C!IntentName) = c.ri
         /\ c.wp # "Custom" => /\ C!Means(C!WhiteToken(c), C!WhiteName)
                               /\ C!Meaning(C!WhiteToken(c), C!WhiteName) = c.wp
         /\ c.pr # "Custom" => /\ C!Means(C!PrimariesToken(c), C!PrimariesName)
                               /\ C!Meaning(C!PrimariesToken(c), C!PrimariesName) = c.pr
         /\ ~c.have_gamma => /\ C!Means(C!TfToken(c), C!TfName)
                             /\ C!Meaning(C!TfToken(c), C!TfName) = c.tf
<1>1. \A x \in C!Spaces : WordSays(x, C!SpaceName)
  BY NamesMean, Injective, WordMeans
<1>2. \A x \in C!RenderingIntents : WordSays(x, C!IntentName)
  BY NamesMean, Injective, WordMeans
<1>3. \A x \in C!WhitePoints : WordSays(x, C!WhiteName)
  BY NamesMean, Injective, WordMeans
<1>4. \A x \in C!Primaries : WordSays(x, C!PrimariesName)
  BY NamesMean, Injective, WordMeans
<1>5. \A x \in C!Curves : WordSays(x, C!TfName)
  BY NamesMean, Injective, WordMeans
<1>6. /\ WordSays(c.cs, C!SpaceName) /\ WordSays(c.ri, C!IntentName)
      /\ WordSays(c.wp, C!WhiteName) /\ WordSays(c.pr, C!PrimariesName)
      /\ WordSays(c.tf, C!TfName)
  BY <1>1, <1>2, <1>3, <1>4, <1>5, TypedFields
<1> QED
  BY <1>6 DEF WordSays, Space, Intent, C!WhiteToken, C!PrimariesToken, C!TfToken

(* The numbers of a white point, printed and read.                          *)
LEMMA NumbersSay ==
  ASSUME NEW c, Typed(c)
  PROVE  /\ TokenOk(C!WhiteToken(c)) /\ (c.pr # "Custom" => TokenOk(C!PrimariesToken(c)))
         /\ c.have_gamma /\ C!ValidGamma(c.gamma) =>
              /\ C!TfToken(c).kind = "gamma" /\ C!TfToken(c).gamma = C!PrintedGamma(c.gamma)
         /\ (c.have_gamma => C!ValidGamma(c.gamma)) => TokenOk(C!TfToken(c))
         /\ c.wp = "Custom" =>
              /\ C!WhiteToken(c).kind = "numbers"
              /\ C!Token(C!WhiteToken(c).numbers, 1) = PrintedXy(c.white)[1]
              /\ C!Token(C!WhiteToken(c).numbers, 2) = PrintedXy(c.white)[2]
<1>1. \A x : C!Word(x).kind = "word"
  BY DEF C!Word
<1>2. ASSUME c.wp # "Custom"
      PROVE  /\ TokenOk(C!WhiteToken(c))
             /\ c.wp = "Custom" =>
                  /\ C!WhiteToken(c).kind = "numbers"
                  /\ C!Token(C!WhiteToken(c).numbers, 1) = PrintedXy(c.white)[1]
                  /\ C!Token(C!WhiteToken(c).numbers, 2) = PrintedXy(c.white)[2]
  BY <1>1, <1>2 DEF C!WhiteToken, TokenOk
<1>3. c.pr # "Custom" => TokenOk(C!PrimariesToken(c))
  BY <1>1 DEF C!PrimariesToken, TokenOk
<1>4. ASSUME c.wp = "Custom"
      PROVE  /\ TokenOk(C!WhiteToken(c))
             /\ c.wp = "Custom" =>
                  /\ C!WhiteToken(c).kind = "numbers"
                  /\ C!Token(C!WhiteToken(c).numbers, 1) = PrintedXy(c.white)[1]
                  /\ C!Token(C!WhiteToken(c).numbers, 2) = PrintedXy(c.white)[2]
  <2>1. PICK a, b, s : /\ a = C!Printed(c.white[1]) /\ b = C!Printed(c.white[2])
                       /\ s = <<a, b>>
    OBVIOUS
  <2>2. a \in Int /\ b \in Int
    BY <2>1, PrintedIs, TypedFields DEF C!Xy
  <2>3. s \in Seq(Int) /\ Len(s) = 2 /\ s # <<>> /\ s[1] = a /\ s[2] = b
    BY <2>1, <2>2
  <2>4. C!WhiteToken(c) = C!Numbers(s)
    BY <1>4, <2>1 DEF C!WhiteToken, C!GetWhitePoint
  <2>5. C!WhiteToken(c).kind = "numbers" /\ C!WhiteToken(c).numbers = s
    BY <2>4 DEF C!Numbers
  <2>6. C!Token(s, 1) = a /\ C!Token(s, 2) = b
    <3>1. 1 \in 1 .. Len(s) /\ 2 \in 1 .. Len(s) /\ Len(s) \in Nat
      BY <2>3
    <3>2. C!Token(s, 1) = s[1] /\ C!Token(s, 2) = s[2]
      BY ONLY <3>1, TokenAtIs
    <3> QED
      BY <2>3, <3>2
  <2>7. PrintedXy(c.white)[1] = a /\ PrintedXy(c.white)[2] = b
    BY <2>1 DEF PrintedXy
  <2> QED
    BY <1>4, <2>3, <2>5, <2>6, <2>7 DEF TokenOk
<1>5. c.have_gamma =>
        C!TfToken(c).kind = "gamma" /\ C!TfToken(c).gamma = C!PrintedGamma(c.gamma)
  BY DEF C!TfToken, C!GammaToken
<1>6. (c.have_gamma => C!ValidGamma(c.gamma)) => TokenOk(C!TfToken(c))
  <2>1. CASE c.have_gamma
    BY <1>5, <2>1, GammaPrinted, TypedFields DEF TokenOk
  <2>2. CASE ~c.have_gamma
    BY <1>1, <2>2 DEF C!TfToken, TokenOk
  <2> QED
    BY <2>1, <2>2
<1>7. /\ TokenOk(C!WhiteToken(c))
      /\ c.wp = "Custom" =>
              /\ C!WhiteToken(c).kind = "numbers"
              /\ C!Token(C!WhiteToken(c).numbers, 1) = PrintedXy(c.white)[1]
              /\ C!Token(C!WhiteToken(c).numbers, 2) = PrintedXy(c.white)[2]
  BY <1>2, <1>4
<1> QED
  BY <1>3, <1>5, <1>6, <1>7

-------------------------------------------------------------------------------
(* A description is parsed part by part.                                     *)
Then1(q, p) == q = IF p.ok THEN C!ParseWhitePoint(p, C!Token(p.line, p.next)) ELSE p
Then2(q, p) == q = IF p.ok THEN C!ParsePrimaries(p, C!Token(p.line, p.next)) ELSE p
Then3(q, p) == q = IF p.ok THEN C!ParseRenderingIntent(p, C!Token(p.line, p.next)) ELSE p
Then4(q, p) == q = IF p.ok THEN C!ParseTransferFunction(p, C!Token(p.line, p.next)) ELSE p

(* ParseDescription is these four after the first.                          *)
LEMMA InFiveParts ==
  ASSUME NEW line
  PROVE  \E p1, p2, p3, p4 :
            /\ p1 = C!ParseColorSpace(C!Parsing(line), C!Token(line, 1))
            /\ Then1(p2, p1) /\ Then2(p3, p2) /\ Then3(p4, p3)
            /\ Then4(C!ParseDescription(line), p4)
<1> DEFINE TokenAt(p) == C!Token(p.line, p.next)
<1> DEFINE p0 == C!Parsing(line)
<1> DEFINE p1 == IF p0.ok THEN C!ParseColorSpace(p0, TokenAt(p0)) ELSE p0
<1> DEFINE p2 == IF p1.ok THEN C!ParseWhitePoint(p1, TokenAt(p1)) ELSE p1
<1> DEFINE p3 == IF p2.ok THEN C!ParsePrimaries(p2, TokenAt(p2)) ELSE p2
<1> DEFINE p4 == IF p3.ok THEN C!ParseRenderingIntent(p3, TokenAt(p3)) ELSE p3
<1> DEFINE p5 == IF p4.ok THEN C!ParseTransferFunction(p4, TokenAt(p4)) ELSE p4
<1>1. C!ParseDescription(line) = p5
  BY Zenon DEF C!ParseDescription
<1>2. p0.ok /\ p0.line = line /\ p0.next = 1
  BY DEF C!Parsing
<1>3. PICK q1 : q1 = p1
  OBVIOUS
<1>4. q1 = C!ParseColorSpace(C!Parsing(line), C!Token(line, 1))
  <2> HIDE DEF p0
  <2>1. q1 = C!ParseColorSpace(p0, C!Token(line, 1))
    BY <1>2, <1>3
  <2> QED
    BY <2>1 DEF p0
<1>5. PICK q2 : q2 = p2
  OBVIOUS
<1>6. PICK q3 : q3 = p3
  OBVIOUS
<1>7. PICK q4 : q4 = p4
  OBVIOUS
<1>8. Then1(q2, q1) /\ Then2(q3, q2) /\ Then3(q4, q3) /\ Then4(C!ParseDescription(line), q4)
  <2>1. Then1(q2, q1)
    BY <1>3, <1>5, Zenon DEF Then1
  <2>2. Then2(q3, q2)
    BY <1>5, <1>6, Zenon DEF Then2
  <2>3. Then3(q4, q3)
    BY <1>6, <1>7, Zenon DEF Then3
  <2>4. Then4(C!ParseDescription(line), q4)
    BY <1>1, <1>7, Zenon DEF Then4
  <2> QED
    BY <2>1, <2>2, <2>3, <2>4
<1> QED
  BY <1>4, <1>8

(* What is parsed from the description of an encoding.                      *)
LineSays(e, c) ==
  /\ e \in Structs /\ e.cs = c.cs /\ e.ri = c.ri
  /\ c.cs = "XYB" => e.wp = "D65" /\ e.tf = "Gamma" /\ e.gamma = C!XybGamma
  /\ c.cs # "XYB" => /\ e.wp = c.wp /\ (c.wp = "Custom" => e.white = PrintedXy(c.white))
                     /\ c.have_gamma => e.tf = "Gamma" /\ e.gamma = C!PrintedGamma(c.gamma)
                     /\ ~c.have_gamma => e.tf = c.tf
  /\ c.cs \notin {"Gray", "XYB"} => e.pr = c.pr

(* ParseDescription takes apart what Description put together.              *)
LEMMA DescriptionParsed ==
  ASSUME NEW c, Typed(c), C!InSync(c), C!HasPrimaries(c) => c.pr # "Custom",
         c.have_gamma => C!ValidGamma(c.gamma)
  PROVE  /\ C!ParseDescription(C!Description(c)).ok
         /\ LineSays(C!ParseDescription(C!Description(c)).e, c)
<1>1. PICK line : line = C!Description(c)
  OBVIOUS
<1>2. Described(line, c)
  BY <1>1, DescriptionIs
<1>3. PICK p1, p2, p3, p4, p5 :
        /\ p1 = C!ParseColorSpace(C!Parsing(line), C!Token(line, 1))
        /\ Then1(p2, p1) /\ Then2(p3, p2) /\ Then3(p4, p3)
        /\ Then4(p5, p4) /\ p5 = C!ParseDescription(line)
  BY InFiveParts
<1>4. Len(line) \in 2 .. 5 /\ \A i \in 1 .. Len(line) : C!Token(line, i) = line[i]
  <2>1. Len(line) \in 2 .. 5
    BY <1>2 DEF Described
  <2> QED
    BY <2>1, TokenAtIs
<1>5. \A p \in Parsings(line) : p.line = line
  BY DEF Parsings
<1>6. /\ p1 \in Parsings(line) /\ p1.ok /\ p1.next = 2 /\ p1.e.cs = c.cs
  <2>1. C!Parsing(line) \in Parsings(line) /\ C!Parsing(line).ok /\ C!Parsing(line).next = 1
    BY FirstParsing DEF C!Parsing
  <2>2. C!Token(line, 1) = Space(c)
    BY <1>2, <1>4 DEF Described
  <2>3. PICK p : p = C!Parsing(line)
    OBVIOUS
  <2>4. p1 = C!ParseColorSpace(p, Space(c))
    BY <1>3, <2>2, <2>3
  <2> QED
    BY <2>1, <2>3, <2>4, SaysSpace, TokensSay
<1>7. WhiteSaid(p2, p1, C!Token(line, 2), line)
  <2>1. C!Token(line, 2) = line[2] /\ (c.cs # "XYB" => line[2] = C!WhiteToken(c))
    BY <1>2, <1>4 DEF Described
  <2>2. TokenOk(C!Token(line, 2))
    <3>1. TokenOk(Intent(c))
      BY DEF TokenOk, Intent, C!Word
    <3>2. c.cs = "XYB" => line[2] = Intent(c)
      BY <1>2 DEF Described
    <3> QED
      BY <2>1, <3>1, <3>2, NumbersSay
  <2>3. p2 = C!ParseWhitePoint(p1, C!Token(line, 2))
    BY <1>3, <1>5, <1>6 DEF Then1
  <2> QED
    BY <1>6, <2>2, <2>3, SaysWhite
<1>8. /\ p2 \in Parsings(line) /\ p2.ok /\ p2.e.cs = c.cs
      /\ c.cs = "XYB" => p2.next = 2 /\ p2.e.wp = "D65"
      /\ c.cs # "XYB" => /\ p2.next = 3 /\ p2.e.wp = c.wp
                         /\ c.wp = "Custom" => p2.e.white = PrintedXy(c.white)
  <2>1. CASE c.cs = "XYB"
    <3>1. p2.ok /\ p2.next = 2 /\ p2.e.wp = "D65"
      BY <1>6, <1>7, <2>1 DEF WhiteSaid
    <3>2. p2.e.cs = p1.e.cs
      BY <1>7, <3>1, AlikeFields DEF WhiteSaid
    <3> QED
      BY <1>6, <1>7, <2>1, <3>1, <3>2 DEF WhiteSaid
  <2>2. CASE c.cs # "XYB"
    <3>1. C!Token(line, 2) = C!WhiteToken(c)
      BY <1>2, <1>4, <2>2, TypedFields DEF Described
    <3>2. p2.ok /\ p2.next = 3 /\ p2.e.wp = c.wp /\ (c.wp = "Custom" => p2.e.white = PrintedXy(c.white))
      <4>1. CASE c.wp # "Custom"
        BY <1>6, <1>7, <2>2, <3>1, <4>1, TokensSay DEF WhiteSaid
      <4>2. CASE c.wp = "Custom"
        <5>1. /\ C!WhiteToken(c).kind = "numbers"
              /\ <<C!Token(C!WhiteToken(c).numbers, 1), C!Token(C!WhiteToken(c).numbers, 2)>>
                   = PrintedXy(c.white)
          BY <4>2, NumbersSay DEF PrintedXy
        <5> QED
          BY <1>6, <1>7, <2>2, <3>1, <4>2, <5>1 DEF WhiteSaid
      <4> QED
        BY <4>1, <4>2
    <3>3. p2.e.cs = p1.e.cs
      BY <1>7, <3>2, AlikeFields DEF WhiteSaid
    <3> QED
      BY <1>6, <1>7, <2>2, <3>2, <3>3 DEF WhiteSaid
  <2> QED
    BY <2>1, <2>2
<1>9. /\ p3 \in Parsings(line) /\ p3.ok /\ Alike(p3.e, p2.e, {"pr"})
      /\ c.cs \in {"Gray", "XYB"} => p3.next = p2.next
      /\ c.cs \notin {"Gray", "XYB"} => p3.next = 4 /\ p3.e.pr = c.pr
  <2>1. p3 = C!ParsePrimaries(p2, C!Token(line, p2.next))
    BY <1>3, <1>5, <1>8 DEF Then2
  <2>2. CASE c.cs \in {"Gray", "XYB"}
    <3>1. p3 = p2
      BY <1>8, <2>1, <2>2 DEF C!ParsePrimaries
    <3> QED
      BY <1>8, <2>2, <3>1 DEF Alike
  <2>3. CASE c.cs \notin {"Gray", "XYB"}
    <3>1. p2.next = 3 /\ C!Token(line, 3) = C!PrimariesToken(c)
      BY <1>2, <1>4, <1>8, <2>3 DEF Described
    <3>2. /\ TokenOk(C!PrimariesToken(c)) /\ C!Means(C!PrimariesToken(c), C!PrimariesName)
          /\ C!Meaning(C!PrimariesToken(c), C!PrimariesName) = c.pr
      BY <2>3, NumbersSay, TokensSay DEF C!HasPrimaries
    <3>3. PrimariesSaid(p3, p2, C!PrimariesToken(c), line)
      BY <1>8, <2>1, <3>1, <3>2, SaysPrimaries
    <3> QED
      BY <1>8, <2>3, <3>1, <3>2, <3>3 DEF PrimariesSaid
  <2> QED
    BY <2>2, <2>3
<1>10. /\ p4 \in Parsings(line) /\ p4.ok /\ p4.next = p3.next + 1 /\ p4.e.ri = c.ri
       /\ Alike(p4.e, p3.e, {"ri"})
  <2>1. p4 = C!ParseRenderingIntent(p3, C!Token(line, p3.next))
    BY <1>3, <1>5, <1>9 DEF Then3
  <2>2. C!Token(line, p3.next) = Intent(c)
    BY <1>2, <1>4, <1>8, <1>9 DEF Described
  <2> QED
    BY <1>9, <2>1, <2>2, SaysIntent, TokensSay
<1>11. /\ p4.e.cs = c.cs /\ p4.e.wp = p2.e.wp /\ p4.e.white = p2.e.white
       /\ c.cs \notin {"Gray", "XYB"} => p4.e.pr = c.pr
  BY <1>8, <1>9, <1>10, AlikeFields
<1>12. PICK token : token = C!Token(line, p4.next)
  OBVIOUS
<1>13. TokenOk(token) /\ (c.cs # "XYB" => token = C!TfToken(c))
  <2>1. c.cs # "XYB" => token = C!TfToken(c)
    BY <1>2, <1>4, <1>8, <1>9, <1>10, <1>12 DEF Described
  <2>2. CASE c.cs = "XYB"
    <3>1. p4.next = 3 /\ Len(line) = 2
      BY <1>2, <1>8, <1>9, <1>10, <2>2 DEF Described
    <3>2. token = line[1]
      BY <1>12, <3>1 DEF C!Token
    <3>3. line[1] = Space(c)
      BY <1>2 DEF Described
    <3> QED
      BY <2>2, <3>2, <3>3 DEF TokenOk, Space, C!Word
  <2> QED
    BY <2>1, <2>2, NumbersSay
<1>14. p5 = C!ParseTransferFunction(p4, token)
  BY <1>3, <1>5, <1>10, <1>12 DEF Then4
<1>15. CurveSaid(p5, p4, token, line)
  BY <1>10, <1>13, <1>14, SaysCurve
<1>16. /\ p5.ok /\ p5.e \in Structs
       /\ c.cs = "XYB" => p5.e.tf = "Gamma" /\ p5.e.gamma = C!XybGamma
       /\ c.cs # "XYB" /\ c.have_gamma => p5.e.tf = "Gamma" /\ p5.e.gamma = C!PrintedGamma(c.gamma)
       /\ c.cs # "XYB" /\ ~c.have_gamma => p5.e.tf = c.tf
  <2>1. p5 \in Parsings(line)
    BY <1>15 DEF CurveSaid
  <2>2. p5.e \in Structs
    BY <2>1, ParsingChanged
  <2>3. CASE c.cs = "XYB"
    BY <1>10, <1>11, <1>15, <2>2, <2>3 DEF CurveSaid
  <2>4. CASE c.cs # "XYB" /\ c.have_gamma
    BY <1>10, <1>11, <1>13, <1>15, <2>2, <2>4, NumbersSay DEF CurveSaid
  <2>5. CASE c.cs # "XYB" /\ ~c.have_gamma
    BY <1>10, <1>11, <1>13, <1>15, <2>2, <2>5, TokensSay DEF CurveSaid
  <2> QED
    BY <2>3, <2>4, <2>5
<1>17. /\ p5.e.cs = c.cs /\ p5.e.wp = p2.e.wp /\ p5.e.white = p2.e.white /\ p5.e.ri = c.ri
       /\ c.cs \notin {"Gray", "XYB"} => p5.e.pr = c.pr
  BY <1>10, <1>11, <1>15, <1>16, AlikeFields DEF CurveSaid
<1> QED
  BY <1>1, <1>3, <1>8, <1>16, <1>17 DEF LineSays

(* A description reads back, up to the digits that are printed.             *)
LEMMA LineBack ==
  ASSUME NEW c, Typed(c), C!InSync(c), C!HasPrimaries(c) => c.pr # "Custom",
         C!FieldsSettable(c), NEW r, r = C!ReadFromLine(c)
  PROVE  r.ok /\ C!PrintedAs(c, r.c)
<1>1. PICK p : p = C!ParseDescription(C!Description(c))
  OBVIOUS
<1>2. c.have_gamma => C!ValidGamma(c.gamma)
  BY SettableIs
<1>3. p.ok /\ LineSays(p.e, c)
  BY <1>1, <1>2, DescriptionParsed
<1>4. r = C!FromExternal(C!Fresh, p.e)
  BY <1>1, <1>3 DEF C!ReadFromLine
<1>5. PICK e \in Structs : e = p.e /\ LineSays(e, c)
  BY <1>3 DEF LineSays
<1>6. c.wp = "Custom" /\ c.cs # "XYB" => WhiteOk(PrintedXy(c.white))
  BY PrintedWhite, TypedFields DEF C!FieldsSettable, C!GetWhitePoint
<1>7. ImportOk(e)
  <2>1. TfOk(e)
    BY <1>2, <1>5, GammaPrinted, XybGammaIs, TypedFields DEF LineSays, TfOk, C!Curves
  <2>2. e.wp # "none" /\ (e.wp = "Custom" => WhiteOk(e.white))
    BY <1>5, <1>6, TypedFields DEF LineSays, C!WhitePoints
  <2>3. e.cs \in {"Gray", "XYB"} \/ (e.pr # "none" /\ (e.pr = "Custom" => PrimsOk(e.rgb)))
    BY <1>5, TypedFields DEF LineSays, C!Primaries, C!HasPrimaries
  <2> QED
    BY <2>1, <2>2, <2>3 DEF ImportOk
<1>8. r.ok /\ ImportedAs(r.c, e)
  BY <1>4, <1>5, <1>7, FreshIs, Imports
<1>9. PICK d : d = r.c
  OBVIOUS
<1>10. ASSUME c.cs # "XYB"
       PROVE  C!CloseXy(C!GetWhitePoint(c), C!GetWhitePoint(d))
  <2>1. CASE c.wp = "Custom"
    <3>1. c.white \in C!Xy /\ C!Settable(c.white) /\ C!GetWhitePoint(c) = c.white
      BY <2>1, TypedFields DEF C!FieldsSettable, C!GetWhitePoint
    <3>2. d.wp = WpOf(PrintedXy(c.white)) /\ (d.wp = "Custom" => d.white = PrintedXy(c.white))
      BY <1>5, <1>8, <1>9, <1>10, <2>1 DEF LineSays, ImportedAs
    <3> QED
      BY <3>1, <3>2, PrintedWhite
  <2>2. CASE c.wp # "Custom"
    <3>1. d.wp = c.wp
      BY <1>5, <1>8, <1>9, <1>10, <2>2 DEF LineSays, ImportedAs
    <3>2. C!GetWhitePoint(d) = C!GetWhitePoint(c)
      BY <2>2, <3>1 DEF C!GetWhitePoint
    <3> QED
      BY <3>2, Getters, CloseToItself
  <2> QED
    BY <2>1, <2>2
<1>11. ASSUME C!HasPrimaries(c)
       PROVE  \A k \in 1 .. 3 : C!CloseXy(C!GetPrimaries(c)[k], C!GetPrimaries(d)[k])
  <2>1. d.pr = c.pr /\ c.pr # "Custom"
    BY <1>5, <1>8, <1>9, <1>11 DEF LineSays, ImportedAs, C!HasPrimaries
  <2>2. C!GetPrimaries(d) = C!GetPrimaries(c)
    BY <2>1 DEF C!GetPrimaries
  <2>3. \A k \in 1 .. 3 : C!GetPrimaries(c)[k] \in C!Xy
    BY Getters DEF C!Rgb
  <2> QED
    BY <2>2, <2>3, CloseToItself
<1>12. ASSUME c.cs # "XYB"
       PROVE  C!CloseTf([c EXCEPT !.gamma = C!PrintedGamma(@)], d)
  <2>1. PICK g : g = C!PrintedGamma(c.gamma)
    OBVIOUS
  <2>2. PICK b : b = With(c, "gamma", g)
    OBVIOUS
  <2>3. [c EXCEPT !.gamma = C!PrintedGamma(@)] = b
    BY <2>1, <2>2, Zenon DEF With
  <2>4. Keeps(c, b, {"gamma"}) /\ b.gamma = g
    BY <2>2, Names14, WithIs, TypedFields
  <2>5. b.have_gamma = c.have_gamma /\ b.tf = c.tf
    BY <2>4, Names14 DEF Keeps
  <2>6. TfMeans(d, e)
    BY <1>8, <1>9 DEF ImportedAs
  <2>7. e.tf = (IF c.have_gamma THEN "Gamma" ELSE c.tf) /\ (c.have_gamma => e.gamma = g)
    BY <1>5, <1>12, <2>1 DEF LineSays
  <2>8. CASE c.have_gamma
    <3>1. b.have_gamma = Yes /\ e.tf = "Gamma" /\ e.gamma = g
      BY <2>5, <2>7, <2>8, TypedFields, Zenon DEF Yes
    <3>2. CASE d.have_gamma = No /\ d.tf \in {"Linear", "DCI"}
      BY <2>3, <3>1, <3>2, NotNo DEF C!CloseTf
    <3>3. CASE d.have_gamma = Yes /\ d.gamma = e.gamma
      BY <2>3, <2>4, <3>1, <3>3, NotNo, Zenon DEF C!CloseTf, C!SameTf
    <3> QED
      BY <2>3, <2>6, <3>1, <3>2, <3>3 DEF TfMeans
  <2>9. CASE ~c.have_gamma
    <3>1. b.have_gamma = No /\ e.tf = c.tf /\ c.tf # "Gamma"
      BY <2>5, <2>7, <2>9, TypedFields, Zenon DEF No, C!Curves
    <3>2. d.have_gamma = No /\ d.tf = c.tf
      BY <2>6, <3>1 DEF TfMeans
    <3> QED
      BY <2>3, <2>5, <3>1, <3>2, NotNo, Zenon DEF C!CloseTf, C!SameTf
  <2> QED
    BY <2>8, <2>9
<1>13. c.cs = d.cs /\ c.ri = d.ri
  BY <1>5, <1>8, <1>9 DEF LineSays, ImportedAs
<1> QED
  BY <1>8, <1>9, <1>10, <1>11, <1>12, <1>13 DEF C!PrintedAs

-------------------------------------------------------------------------------
(* A header that was written is read.                                        *)
LEMMA AllUpTo ==
  ASSUME NEW B, NEW n \in Nat, 0 \in B, \A k \in 0 .. n - 1 : k \in B => k + 1 \in B
  PROVE  \A k \in 0 .. n : k \in B
<1> DEFINE Bad == {k \in 0 .. n : k \notin B}
<1>1. SUFFICES ASSUME Bad # {} PROVE FALSE
  BY <1>1
<1>2. Bad \subseteq Nat
  OBVIOUS
<1>3. PICK j \in Bad : \A k \in Bad : j <= k
  BY ONLY <1>1, <1>2, LeastNatural
<1>4. j \in 0 .. n /\ j # 0 /\ j - 1 \in 0 .. n - 1
  BY <1>3
<1>5. j - 1 \in B
  BY <1>3, <1>4
<1>6. (j - 1) + 1 = j
  BY <1>4
<1> QED
  BY <1>3, <1>4, <1>5, <1>6

(* FlattenSeq joins one after another.                                      *)
Flattens(f, ss, n) == f = [i \in 1 .. n |-> IF i = 1 THEN ss[i] ELSE f[i - 1] \o ss[i]]

(* There is one, whatever the sequences.                                    *)
LEMMA FlattensExist ==
  ASSUME NEW ss, NEW n \in Nat
  PROVE  \E f : Flattens(f, ss, n + 1)
<1> DEFINE B == {k \in 0 .. n : \E f : Flattens(f, ss, k + 1)}
<1>1. 0 \in B
  <2>1. Flattens([i \in 1 .. 1 |-> ss[i]], ss, 0 + 1)
    BY DEF Flattens
  <2> QED
    BY <2>1
<1>2. ASSUME NEW k \in 0 .. n - 1, k \in B PROVE k + 1 \in B
  <2>1. PICK f : Flattens(f, ss, k + 1)
    BY <1>2
  <2>2. PICK m1 \in Nat : m1 = k + 1
    BY <1>2
  <2> DEFINE g == [i \in 1 .. m1 + 1 |-> IF i = m1 + 1 THEN f[m1] \o ss[i] ELSE f[i]]
  <2>3. \A i \in 1 .. m1 : g[i] = f[i]
    BY <2>2
  <2>4. ASSUME NEW i \in 1 .. m1 + 1
        PROVE  g[i] = IF i = 1 THEN ss[i] ELSE g[i - 1] \o ss[i]
    <3>1. CASE i = m1 + 1
      <4>1. i # 1 /\ i - 1 = m1 /\ m1 \in 1 .. m1
        BY <1>2, <2>2, <3>1
      <4> QED
        BY <2>3, <3>1, <4>1
    <3>2. CASE i # m1 + 1
      <4>1. i \in 1 .. m1 /\ (i # 1 => i - 1 \in 1 .. m1)
        BY <2>2, <3>2
      <4>2. f[i] = IF i = 1 THEN ss[i] ELSE f[i - 1] \o ss[i]
        BY <2>1, <2>2, <4>1 DEF Flattens
      <4>3. g[i] = f[i] /\ (i # 1 => g[i - 1] = f[i - 1])
        BY <2>3, <4>1
      <4> QED
        BY <4>2, <4>3
    <3> QED
      BY <3>1, <3>2
  <2>5. Flattens([i \in 1 .. m1 + 1 |-> g[i]], ss, m1 + 1)
    BY <2>4 DEF Flattens
  <2>6. (k + 1) + 1 = m1 + 1 /\ k + 1 \in 0 .. n
    BY <2>2
  <2> QED
    BY <2>2, <2>5, <2>6
<1> HIDE DEF B
<1>3. n \in B
  <2>1. \A k \in 0 .. n : k \in B
    BY ONLY <1>1, <1>2, n \in Nat, AllUpTo
  <2> QED
    BY <2>1
<1> QED
  BY <1>3 DEF B

(* A sequence as its first pieces, and what follows them.                   *)
Joins(g, ss, n, E, s) ==
  /\ g[0] = <<>> /\ s = g[n]
  /\ \A k \in 1 .. n : g[k] = g[k - 1] \o ss[k] /\ ss[k] \in Seq(E)
  /\ \A k \in 0 .. n : g[k] \in Seq(E) /\ \E r \in Seq(E) : g[k] \o r = s

(* FlattenSeq joins the pieces.                                             *)
LEMMA Flattened ==
  ASSUME NEW E, NEW ss, NEW n \in Nat \ {0}, Len(ss) = n, \A k \in 1 .. n : ss[k] \in Seq(E),
         NEW s, s = C!FlattenSeq(ss)
  PROVE  \E g : Joins(g, ss, n, E, s)
<1> DEFINE f == CHOOSE f : Flattens(f, ss, Len(ss))
<1>1. Flattens(f, ss, n)
  <2>0. n - 1 \in Nat
    OBVIOUS
  <2>1. \E h : Flattens(h, ss, (n - 1) + 1)
    BY <2>0, FlattensExist
  <2>2. Len(ss) = (n - 1) + 1 /\ (n - 1) + 1 = n
    OBVIOUS
  <2> QED
    BY <2>1, <2>2
<1>2. s = f[n]
  <2>1. Len(ss) # 0
    OBVIOUS
  <2>2. C!FlattenSeq(ss) = f[Len(ss)]
    BY <2>1, Zenon DEF C!FlattenSeq, Flattens
  <2> HIDE DEF f
  <2> QED
    BY <2>2
<1> HIDE DEF f
<1> DEFINE g == [k \in 0 .. n |-> IF k = 0 THEN <<>> ELSE f[k]]
<1>3. g[0] = <<>> /\ g[n] = s
  BY <1>2
<1>4. \A k \in 1 .. n : g[k] = g[k - 1] \o ss[k]
  <2> SUFFICES ASSUME NEW k \in 1 .. n PROVE g[k] = g[k - 1] \o ss[k]
    OBVIOUS
  <2>1. f[k] = IF k = 1 THEN ss[k] ELSE f[k - 1] \o ss[k]
    BY <1>1 DEF Flattens
  <2>2. CASE k = 1
    <3>1. g[k] = ss[k] /\ g[k - 1] = <<>>
      BY <2>1, <2>2
    <3>2. <<>> \o ss[k] = ss[k]
      BY ConcatEmptySeq
    <3> QED
      BY <3>1, <3>2
  <2>3. CASE k # 1
    <3>1. g[k] = f[k] /\ g[k - 1] = f[k - 1]
      BY <2>3
    <3> QED
      BY <2>1, <2>3, <3>1
  <2> QED
    BY <2>2, <2>3
<1> HIDE DEF g
<1>5. \A k \in 0 .. n : g[k] \in Seq(E)
  <2> DEFINE B == {k \in 0 .. n : g[k] \in Seq(E)}
  <2>1. 0 \in B
    <3>1. <<>> \in Seq(E)
      BY EmptySeq
    <3>2. g[0] \in Seq(E) /\ 0 \in 0 .. n
      BY <1>3, <3>1
    <3> QED
      BY ONLY <3>2
  <2>2. ASSUME NEW k \in 0 .. n - 1, k \in B PROVE k + 1 \in B
    <3>1. k + 1 \in 1 .. n /\ k + 1 \in 0 .. n /\ (k + 1) - 1 = k
      OBVIOUS
    <3>2. g[k + 1] = g[k] \o ss[k + 1] /\ ss[k + 1] \in Seq(E) /\ g[k] \in Seq(E)
      BY <1>4, <2>2, <3>1
    <3>3. g[k + 1] \in Seq(E)
      BY ONLY <3>2, ConcatProperties
    <3> QED
      BY <3>1, <3>3
  <2> HIDE DEF B
  <2>3. \A k \in 0 .. n : k \in B
    BY ONLY <2>1, <2>2, n \in Nat, AllUpTo
  <2> QED
    BY <2>3 DEF B
<1>6. \A k \in 0 .. n : \E r \in Seq(E) : g[k] \o r = s
  <2> DEFINE B == {j \in 0 .. n : \E r \in Seq(E) : g[n - j] \o r = s}
  <2>1. 0 \in B
    <3>1. <<>> \in Seq(E) /\ g[n] \in Seq(E)
      BY <1>5, EmptySeq
    <3>2. g[n] \o <<>> = s
      BY ONLY <1>3, <3>1, ConcatEmptySeq
    <3>3. n - 0 = n
      OBVIOUS
    <3>4. \E r \in Seq(E) : g[n - 0] \o r = s
      BY <3>1, <3>2, <3>3, Zenon
    <3>5. 0 \in 0 .. n
      OBVIOUS
    <3> QED
      BY ONLY <3>4, <3>5
  <2>2. ASSUME NEW j \in 0 .. n - 1, j \in B PROVE j + 1 \in B
    <3>1. PICK r \in Seq(E) : g[n - j] \o r = s
      BY <2>2
    <3>2. PICK k \in 1 .. n : k = n - j /\ k - 1 = n - (j + 1) /\ k - 1 \in 0 .. n
      OBVIOUS
    <3>3. g[k] = g[k - 1] \o ss[k] /\ ss[k] \in Seq(E) /\ g[k - 1] \in Seq(E)
      BY <1>4, <1>5, <3>2
    <3>4. PICK a \in Seq(E), b \in Seq(E) : a = g[k - 1] /\ b = ss[k]
      BY <3>3
    <3>5. (a \o b) \o r = a \o (b \o r)
      BY ONLY a \in Seq(E), b \in Seq(E), r \in Seq(E), ConcatAssociative
    <3>6. b \o r \in Seq(E)
      BY ONLY b \in Seq(E), r \in Seq(E), ConcatProperties
    <3>7. g[k - 1] \o (b \o r) = s
      BY <3>1, <3>2, <3>3, <3>4, <3>5
    <3>8. \E t \in Seq(E) : g[k - 1] \o t = s
      BY <3>6, <3>7
    <3>9. \E t \in Seq(E) : g[n - (j + 1)] \o t = s
      BY <3>2, <3>8
    <3>10. j + 1 \in 0 .. n
      OBVIOUS
    <3> QED
      BY ONLY <3>9, <3>10
  <2> HIDE DEF B
  <2>3. \A j \in 0 .. n : j \in B
    BY ONLY <2>1, <2>2, n \in Nat, AllUpTo
  <2> SUFFICES ASSUME NEW k \in 0 .. n PROVE \E r \in Seq(E) : g[k] \o r = s
    OBVIOUS
  <2>4. n - k \in B
    BY <2>3
  <2>5. n - (n - k) = k
    OBVIOUS
  <2> QED
    BY <2>4, <2>5 DEF B
<1> QED
  BY <1>3, <1>4, <1>5, <1>6 DEF Joins

(* The fields by their places.                                              *)
FieldAt(k) == C!FieldOrder[k]

(* Which they are.                                                          *)
LEMMA OrderAt ==
  /\ FieldAt(1) = "want_icc" /\ FieldAt(2) = "cs" /\ FieldAt(3) = "wp" /\ FieldAt(4) = "white"
  /\ FieldAt(5) = "pr" /\ FieldAt(6) = "rgb" /\ FieldAt(7) = "have_gamma"
  /\ FieldAt(8) = "gamma" /\ FieldAt(9) = "tf" /\ FieldAt(10) = "ri"
BY DEF FieldAt, C!FieldOrder

(* No field has two places.                                                 *)
LEMMA OrderApart == \A j, k \in 1 .. 10 : FieldAt(j) = FieldAt(k) => j = k
<1> SUFFICES ASSUME NEW j \in 1 .. 10, NEW k \in 1 .. 10, FieldAt(j) = FieldAt(k) PROVE j = k
  OBVIOUS
<1>1. \/ j = 1 \/ j = 2 \/ j = 3 \/ j = 4 \/ j = 5 \/ j = 6 \/ j = 7 \/ j = 8 \/ j = 9 \/ j = 10
  OBVIOUS
<1>2. \/ k = 1 \/ k = 2 \/ k = 3 \/ k = 4 \/ k = 5 \/ k = 6 \/ k = 7 \/ k = 8 \/ k = 9 \/ k = 10
  OBVIOUS
<1> QED
  BY <1>1, <1>2, OrderAt

(* Which fields are visited.                                                 *)
LEMMA VisitsAre ==
  ASSUME NEW c
  PROVE  /\ C!Visits(c, "want_icc") /\ C!Visits(c, "cs")
         /\ C!Visits(c, "wp") <=> ~c.want_icc /\ c.cs # "XYB"
         /\ C!Visits(c, "white") <=> ~c.want_icc /\ c.cs # "XYB" /\ c.wp = "Custom"
         /\ C!Visits(c, "pr") <=> ~c.want_icc /\ C!HasPrimaries(c)
         /\ C!Visits(c, "rgb") <=> ~c.want_icc /\ C!HasPrimaries(c) /\ c.pr = "Custom"
         /\ C!Visits(c, "have_gamma") <=> ~c.want_icc /\ c.tfcs # "XYB"
         /\ C!Visits(c, "gamma") <=> ~c.want_icc /\ c.tfcs # "XYB" /\ c.have_gamma
         /\ C!Visits(c, "tf") <=> ~c.want_icc /\ c.tfcs # "XYB" /\ ~c.have_gamma
         /\ C!Visits(c, "ri") <=> ~c.want_icc
BY DEF C!Visits

(* An encoding that can be written.                                         *)
Writable(d) ==
  /\ Typed(d)
  /\ ~d.want_icc => /\ d.cs \in {"RGB", "Gray"} /\ d.tfcs # "XYB" /\ C!Creatable(d)
                    /\ d.have_gamma => C!ValidGamma(d.gamma)

(* What has been read of it after k fields, into an encoding c.             *)
ReadSoFar(q, d, c, k) ==
  /\ q.ok /\ q.c.tfcs = c.tfcs
  /\ \A j \in 1 .. 10 : q.c[FieldAt(j)] = IF j <= k /\ C!Visits(d, FieldAt(j))
                                          THEN d[FieldAt(j)] ELSE c[FieldAt(j)]

(* The reader asks for the fields that were sent.                           *)
LEMMA VisitsAlike ==
  ASSUME NEW d, Writable(d), NEW c, c.tfcs # "XYB", NEW k \in 0 .. 9, NEW q, ReadSoFar(q, d, c, k)
  PROVE  C!Visits(q.c, FieldAt(k + 1)) <=> C!Visits(d, FieldAt(k + 1))
<1>1. q.c.tfcs # "XYB" /\ (~d.want_icc => d.tfcs # "XYB" /\ d.cs \in {"RGB", "Gray"})
  BY DEF ReadSoFar, Writable
<1>2. k >= 1 => q.c.want_icc = d.want_icc
  <2>1. k >= 1 => q.c[FieldAt(1)] = d[FieldAt(1)]
    BY OrderAt, VisitsAre DEF ReadSoFar
  <2> QED
    BY <2>1, OrderAt
<1>3. k >= 2 => q.c.cs = d.cs
  <2>1. k >= 2 => q.c[FieldAt(2)] = d[FieldAt(2)]
    BY OrderAt, VisitsAre DEF ReadSoFar
  <2> QED
    BY <2>1, OrderAt
<1>4. k >= 3 /\ ~d.want_icc => q.c.wp = d.wp
  <2>1. ~d.want_icc => C!Visits(d, FieldAt(3))
    BY <1>1, OrderAt, VisitsAre
  <2>2. k >= 3 /\ ~d.want_icc => q.c[FieldAt(3)] = d[FieldAt(3)]
    BY <2>1 DEF ReadSoFar
  <2> QED
    BY <2>2, OrderAt
<1>5. k >= 5 /\ ~d.want_icc /\ C!HasPrimaries(d) => q.c.pr = d.pr
  <2>1. ~d.want_icc /\ C!HasPrimaries(d) => C!Visits(d, FieldAt(5))
    BY <1>1, OrderAt, VisitsAre
  <2>2. k >= 5 /\ ~d.want_icc /\ C!HasPrimaries(d) => q.c[FieldAt(5)] = d[FieldAt(5)]
    BY <2>1 DEF ReadSoFar
  <2> QED
    BY <2>2, OrderAt
<1>6. k >= 7 /\ ~d.want_icc => q.c.have_gamma = d.have_gamma
  <2>1. ~d.want_icc => C!Visits(d, FieldAt(7))
    BY <1>1, OrderAt, VisitsAre
  <2>2. k >= 7 /\ ~d.want_icc => q.c[FieldAt(7)] = d[FieldAt(7)]
    BY <2>1 DEF ReadSoFar
  <2> QED
    BY <2>2, OrderAt
<1>7. k >= 2 => (C!HasPrimaries(q.c) <=> C!HasPrimaries(d))
  BY <1>3 DEF C!HasPrimaries
<1>8. PICK b \in BOOLEAN : b = d.want_icc
  BY TypedFields DEF Writable
<1>9. k >= 1 => q.c.want_icc = b
  BY <1>2, <1>8
<1>10. PICK h \in BOOLEAN : h = d.have_gamma
  BY TypedFields DEF Writable
<1>11. k >= 7 /\ ~b => q.c.have_gamma = h
  BY <1>6, <1>8, <1>10
<1>12. CASE k = 0
  BY <1>12, OrderAt, VisitsAre
<1>13. CASE k = 1
  BY <1>13, OrderAt, VisitsAre
<1>14. CASE k = 2
  BY <1>1, <1>3, <1>8, <1>9, <1>14, OrderAt, VisitsAre
<1>15. CASE k = 3
  BY <1>1, <1>3, <1>4, <1>8, <1>9, <1>15, OrderAt, VisitsAre
<1>16. CASE k = 4
  BY <1>1, <1>7, <1>8, <1>9, <1>16, OrderAt, VisitsAre
<1>17. CASE k = 5
  BY <1>1, <1>5, <1>7, <1>8, <1>9, <1>17, OrderAt, VisitsAre
<1>18. CASE k = 6
  BY <1>1, <1>8, <1>9, <1>18, OrderAt, VisitsAre
<1>19. CASE k = 7
  BY <1>1, <1>8, <1>9, <1>10, <1>11, <1>19, OrderAt, VisitsAre
<1>20. CASE k = 8
  BY <1>1, <1>8, <1>9, <1>10, <1>11, <1>20, OrderAt, VisitsAre
<1>21. CASE k = 9
  BY <1>1, <1>8, <1>9, <1>21, OrderAt, VisitsAre
<1> QED
  BY <1>12, <1>13, <1>14, <1>15, <1>16, <1>17, <1>18, <1>19, <1>20, <1>21

(* The first of a stream, and what comes after it.                          *)
LEMMA HeadOfEntry ==
  ASSUME NEW E, NEW x \in E, NEW t \in Seq(E), NEW s, s = <<x>> \o t
  PROVE  s \in Seq(E) /\ s # <<>> /\ Head(s) = x /\ Tail(s) = t
<1>1. PICK u \in Seq(E) : u = <<x>> /\ Len(u) = 1 /\ u[1] = x
  <2>1. <<x>> \in Seq(E) /\ Len(<<x>>) = 1 /\ <<x>>[1] = x
    OBVIOUS
  <2> QED
    BY <2>1
<1>2. /\ s \in Seq(E) /\ Len(s) = 1 + Len(t) /\ Len(t) \in Nat
      /\ \A i \in 1 .. 1 + Len(t) : s[i] = IF i <= 1 THEN u[i] ELSE t[i - 1]
  BY <1>1, ConcatProperties, LenProperties
<1>3. s # <<>> /\ s[1] = x
  BY <1>1, <1>2, EmptySeq
<1>4. /\ Tail(s) \in Seq(E) /\ Len(Tail(s)) = Len(t)
      /\ \A i \in 1 .. Len(Tail(s)) : Tail(s)[i] = s[i + 1]
  BY <1>2, <1>3, HeadTailProperties
<1>5. \A i \in 1 .. Len(Tail(s)) : Tail(s)[i] = t[i]
  BY <1>2, <1>4
<1>6. Tail(s) = t
  BY ONLY <1>4, <1>5, t \in Seq(E), SeqEqual
<1>7. Head(s) = s[1]
  BY <1>2, <1>3
<1> QED
  BY <1>2, <1>3, <1>6, <1>7

(* One more field has been read, and the rest of the stream is r.           *)
ReadOn(p, r, d, c, k) == ReadSoFar(p, d, c, k) /\ p.rest = r

(* A field is read back, or skipped as it was when it was written.          *)
LEMMA FieldReadBack ==
  ASSUME NEW d, Writable(d), NEW E, Entries(E), NEW c, c.tfcs # "XYB", NEW k \in 0 .. 9,
         NEW q, ReadSoFar(q, d, c, k), Reading(q, c, E),
         NEW r \in Seq(E), q.rest = C!Sent(d, FieldAt(k + 1)) \o r,
         <<FieldAt(k + 1), d[FieldAt(k + 1)]>> \in E
  PROVE  ReadOn(C!ReadField(q, FieldAt(k + 1)), r, d, c, k + 1)
<1> DEFINE field == FieldAt(k + 1)
<1>1. C!Visits(q.c, field) <=> C!Visits(d, field)
  BY VisitsAlike
<1>2. field \in Names /\ k + 1 \in 1 .. 10
  BY SMTT(40), OrderIs, Names14 DEF FieldAt
<1>3. \A j \in 1 .. 10 : j <= k + 1 <=> j <= k \/ j = k + 1
  OBVIOUS
<1>4. \A j \in 1 .. 10 : j # k + 1 => FieldAt(j) # field
  BY <1>2, OrderApart
<1>5. CASE ~C!Visits(d, field)
  <2>1. C!ReadField(q, field) = q
    BY <1>1, <1>5 DEF C!ReadField
  <2>2. C!Sent(d, field) = <<>>
    BY <1>5 DEF C!Sent
  <2>3. q.rest = r
    BY <2>2, ConcatEmptySeq
  <2>4. ReadSoFar(q, d, c, k + 1)
    BY <1>3, <1>5 DEF ReadSoFar
  <2> QED
    BY <2>1, <2>3, <2>4 DEF ReadOn
<1>6. CASE C!Visits(d, field)
  <2>1. PICK x \in E : x = <<field, d[field]>>
    OBVIOUS
  <2>2. x[1] = field /\ x[2] = d[field]
    BY <2>1
  <2>3. q.rest = <<x>> \o r
    BY <1>6, <2>1 DEF C!Sent
  <2>4. q.rest # <<>> /\ Head(q.rest) = x /\ Tail(q.rest) = r
    BY ONLY <2>3, x \in E, r \in Seq(E), HeadOfEntry
  <2>5. PICK v : v = d[field]
    OBVIOUS
  <2>6. C!ReadField(q, field) = [c |-> With(q.c, field, v), rest |-> r,
                                 ok |-> field = "gamma" => C!ValidGamma(v)]
    <3>1. q.ok /\ C!Visits(q.c, field)
      BY <1>1, <1>6 DEF ReadSoFar
    <3>2. Head(q.rest)[1] = field /\ Head(q.rest)[2] = v
      BY <2>2, <2>4, <2>5
    <3> HIDE DEF field
    <3> QED
      BY <2>4, <3>1, <3>2, Zenon DEF C!ReadField, With
  <2>7. PICK p : p = C!ReadField(q, field)
    OBVIOUS
  <2>8. p.ok
    <3>1. field = "gamma" => C!ValidGamma(v)
      <4>1. CASE field = "gamma"
        BY <1>6, <2>5, <4>1, VisitsAre DEF Writable
      <4> QED
        BY <4>1
    <3>2. PICK b \in BOOLEAN : b = (field = "gamma" => C!ValidGamma(v))
      OBVIOUS
    <3> HIDE DEF field
    <3>3. p = [c |-> With(q.c, field, v), rest |-> r, ok |-> b]
      BY <2>6, <2>7, <3>2
    <3> QED
      BY <3>1, <3>2, <3>3
  <2>9. p.rest = r /\ p.c = With(q.c, field, v)
    <3> HIDE DEF field
    <3> QED
      BY <2>6, <2>7
  <2>10. Keeps(q.c, p.c, {field}) /\ p.c[field] = v
    <3>1. Whole(q.c)
      BY TypedFields DEF Reading
    <3> HIDE DEF field
    <3> QED
      BY <1>2, <2>9, <3>1, WithIs
  <2>11. p.c.tfcs = q.c.tfcs
    BY SMTT(40), <2>10, Names14, OrderIs DEF Keeps, FieldAt
  <2>12. \A j \in 1 .. 10 : j # k + 1 => p.c[FieldAt(j)] = q.c[FieldAt(j)]
    <3>1. \A j \in 1 .. 10 : FieldAt(j) \in Names
      BY OrderIs, Names14 DEF FieldAt
    <3> HIDE DEF field
    <3> QED
      BY <1>4, <2>10, <3>1 DEF Keeps
  <2>13. ReadSoFar(p, d, c, k + 1)
    BY <1>2, <1>3, <1>6, <2>5, <2>8, <2>10, <2>11, <2>12 DEF ReadSoFar
  <2> QED
    BY <2>7, <2>9, <2>13 DEF ReadOn
<1> QED
  BY <1>5, <1>6

(* A function on 1 .. n is a sequence.                                      *)
LEMMA SeqOfFunction ==
  ASSUME NEW S, NEW n \in Nat, NEW f \in [1 .. n -> S]
  PROVE  f \in Seq(S) /\ Len(f) = n
<1>1. f \in Seq(S)
  BY SeqDef
<1>2. Len(f) \in Nat /\ 1 .. Len(f) = 1 .. n
  BY <1>1, LenProperties
<1> QED
  BY <1>1, <1>2

(* All the fields of an encoding are read back, those that were not sent as *)
(* they were.                                                               *)
LEMMA FieldsReadBack ==
  ASSUME NEW d, Writable(d), NEW c, Typed(c), c.tfcs # "XYB",
         NEW s, s = C!FlattenSeq(C!SentFrom(d))
  PROVE  /\ ReadSoFar(C!ReadFields(c, s), d, c, 10) /\ Typed(C!ReadFields(c, s).c)
         /\ s # <<>>
<1> DEFINE ss == C!SentFrom(d)
<1>0. PICK E : E = {<<FieldAt(k), d[FieldAt(k)]>> : k \in 1 .. 10}
  OBVIOUS
<1>1. \A k \in 1 .. 10 : <<FieldAt(k), d[FieldAt(k)]>> \in E
  BY <1>0
<1>2. Entries(E)
  <2> SUFFICES ASSUME NEW e \in E, e[1] \in DOMAIN C!FieldValues
               PROVE  e[2] \in C!FieldValues[e[1]]
    BY DEF Entries
  <2>1. PICK k \in 1 .. 10 : e = <<FieldAt(k), d[FieldAt(k)]>>
    BY <1>0
  <2>2. e[1] = FieldAt(k) /\ e[2] = d[FieldAt(k)] /\ FieldAt(k) \in DOMAIN C!FieldValues
    BY <2>1, OrderIs DEF FieldAt
  <2>3. FieldAt(k) \in Names \ {"icc"}
    BY <2>2, OrderIs, Names14
  <2>4. TypeOf(FieldAt(k)) = C!FieldValues[FieldAt(k)]
    BY <2>2 DEF TypeOf
  <2> QED
    BY <2>2, <2>3, <2>4 DEF Writable, Typed
<1>3. Len(ss) = 10 /\ \A k \in 1 .. 10 : ss[k] = C!Sent(d, FieldAt(k)) /\ ss[k] \in Seq(E)
  <2>1. ss = [k \in 1 .. 10 |-> C!Sent(d, FieldAt(k))]
    BY OrderIs DEF C!SentFrom, FieldAt
  <2>2. \A k \in 1 .. 10 : C!Sent(d, FieldAt(k)) \in Seq(E)
    <3> SUFFICES ASSUME NEW k \in 1 .. 10 PROVE C!Sent(d, FieldAt(k)) \in Seq(E)
      OBVIOUS
    <3>1. CASE C!Visits(d, FieldAt(k))
      <4>1. PICK x \in E : x = <<FieldAt(k), d[FieldAt(k)]>>
        BY <1>1
      <4>2. C!Sent(d, FieldAt(k)) = <<x>>
        BY <3>1, <4>1 DEF C!Sent
      <4> QED
        BY <4>2
    <3>2. CASE ~C!Visits(d, FieldAt(k))
      BY <3>2, EmptySeq DEF C!Sent
    <3> QED
      BY <3>1, <3>2
  <2> HIDE DEF ss
  <2>3. \A k \in 1 .. 10 : ss[k] = C!Sent(d, FieldAt(k))
    BY <2>1
  <2>4. Len(ss) = 10
    <3>1. \E S : ss \in [1 .. 10 -> S]
      <4>1. ss \in [1 .. 10 -> Seq(E)]
        BY <2>1, <2>2
      <4> QED
        BY <4>1
    <3> QED
      BY <3>1, SeqOfFunction
  <2> QED
    BY <2>2, <2>3, <2>4
<1>4. s = C!FlattenSeq(ss)
  OBVIOUS
<1> HIDE DEF ss
<1>5. PICK g : Joins(g, ss, 10, E, s)
  <2>1. 10 \in Nat \ {0}
    OBVIOUS
  <2>2. Len(ss) = 10 /\ \A k \in 1 .. 10 : ss[k] \in Seq(E)
    BY <1>3
  <2> QED
    BY ONLY <1>4, <2>1, <2>2, Flattened
<1>6. s \in Seq(E)
  BY <1>5 DEF Joins
<1>7. PICK f : Reads(f, c, s, 10) /\ C!ReadFields(c, s) = f[10]
  BY ReadFieldsAre
<1>8. /\ f[0] = [ok |-> TRUE, c |-> c, rest |-> s]
      /\ \A k \in 0 .. 9 : f[k + 1] = C!ReadField(f[k], FieldAt(k + 1))
  <2>1. f[0] = [ok |-> TRUE, c |-> c, rest |-> s]
    BY <1>7 DEF Reads
  <2>2. ASSUME NEW k \in 0 .. 9 PROVE f[k + 1] = C!ReadField(f[k], FieldAt(k + 1))
    <3>1. k + 1 \in 0 .. 10 /\ k + 1 # 0 /\ (k + 1) - 1 = k
      OBVIOUS
    <3> QED
      BY <1>7, <3>1 DEF Reads, FieldAt
  <2> QED
    BY <2>1, <2>2
<1> DEFINE B == {k \in 0 .. 10 : /\ ReadSoFar(f[k], d, c, k) /\ Reading(f[k], c, E)
                                 /\ g[k] \o f[k].rest = s}
<1>9. 0 \in B
  <2>1. f[0].ok /\ f[0].c = c /\ f[0].rest = s /\ f[0] = [ok |-> f[0].ok, c |-> f[0].c, rest |-> f[0].rest]
    BY <1>8
  <2>2. Reading(f[0], c, E)
    BY <1>6, <2>1, TypedFields DEF Reading, Keeps
  <2>3. ReadSoFar(f[0], d, c, 0)
    BY <2>1 DEF ReadSoFar
  <2>4. g[0] \o f[0].rest = s
    BY <1>5, <1>6, <2>1, ConcatEmptySeq DEF Joins
  <2>5. 0 \in 0 .. 10
    OBVIOUS
  <2> QED
    BY ONLY <2>2, <2>3, <2>4, <2>5
<1>10. ASSUME NEW k \in 0 .. 10 - 1, k \in B PROVE k + 1 \in B
  <2>1. PICK q : q = f[k] /\ ReadSoFar(q, d, c, k) /\ Reading(q, c, E) /\ g[k] \o q.rest = s
    BY <1>10
  <2>2. PICK n \in 1 .. 10 : n = k + 1 /\ n - 1 = k /\ k \in 0 .. 9 /\ k \in 0 .. 10 /\ n \in 0 .. 10
    BY <1>10
  <2>3. /\ g[n] = g[k] \o C!Sent(d, FieldAt(n)) /\ C!Sent(d, FieldAt(n)) \in Seq(E)
        /\ g[k] \in Seq(E)
    BY <1>3, <1>5, <2>2 DEF Joins
  <2>4. PICK r \in Seq(E) : g[n] \o r = s
    BY <1>5, <2>2 DEF Joins
  <2>5. PICK a \in Seq(E), b \in Seq(E) : a = g[k] /\ b = C!Sent(d, FieldAt(n))
    BY <2>3
  <2>6. (a \o b) \o r = a \o (b \o r)
    BY ONLY a \in Seq(E), b \in Seq(E), r \in Seq(E), ConcatAssociative
  <2>7. b \o r \in Seq(E)
    BY ONLY b \in Seq(E), r \in Seq(E), ConcatProperties
  <2>8. PICK t \in Seq(E) : t = q.rest
    BY <2>1 DEF Reading
  <2>9. a \o t = a \o (b \o r)
    BY <2>1, <2>3, <2>4, <2>5, <2>6, <2>8
  <2>10. t = b \o r
    <3>1. PICK u \in Seq(E) : u = b \o r
      BY <2>7
    <3>2. a \o t = a \o u
      BY <2>9, <3>1
    <3>3. t = u
      BY ONLY <3>2, a \in Seq(E), t \in Seq(E), u \in Seq(E), ConcatSimplifications
    <3> QED
      BY <3>1, <3>3
  <2>11. q.rest = C!Sent(d, FieldAt(k + 1)) \o r
    BY <2>2, <2>5, <2>8, <2>10
  <2>12. PICK p : p = C!ReadField(q, FieldAt(k + 1))
    OBVIOUS
  <2>13. <<FieldAt(k + 1), d[FieldAt(k + 1)]>> \in E /\ FieldAt(k + 1) \in DOMAIN C!FieldValues
    BY <1>1, <2>2, OrderIs DEF FieldAt
  <2>14. ReadSoFar(p, d, c, k + 1) /\ p.rest = r
    <3>1. ReadOn(C!ReadField(q, FieldAt(k + 1)), r, d, c, k + 1)
      BY <1>2, <2>1, <2>2, <2>11, <2>13, FieldReadBack
    <3> QED
      BY <2>12, <3>1 DEF ReadOn
  <2>15. Reading(p, c, E)
    BY <1>2, <2>1, <2>12, <2>13, FieldRead
  <2>16. f[n] = p
    BY <1>8, <2>1, <2>2, <2>12
  <2>17. /\ ReadSoFar(f[n], d, c, n) /\ Reading(f[n], c, E)
         /\ g[n] \o f[n].rest = s /\ n \in 0 .. 10
    BY <2>2, <2>4, <2>14, <2>15, <2>16
  <2>18. n \in B
    BY ONLY <2>17
  <2> QED
    BY <2>2, <2>18
<1> HIDE DEF B
<1>11. \A k \in 0 .. 10 : k \in B
  BY ONLY <1>9, <1>10, 10 \in Nat, AllUpTo
<1>12. 10 \in B
  BY <1>11
<1>13. s # <<>>
  <2>1. f[1] = C!ReadField(f[0], "want_icc") /\ 1 \in B
    <3>1. f[0 + 1] = C!ReadField(f[0], FieldAt(0 + 1)) /\ 0 + 1 = 1 /\ 1 \in 0 .. 10
      BY <1>8
    <3> QED
      BY <1>11, <3>1, OrderAt
  <2>2. f[1].ok
    BY <2>1 DEF B, ReadSoFar
  <2>3. f[0].ok /\ f[0].rest = s
    BY <1>8
  <2>4. C!Visits(f[0].c, "want_icc")
    BY VisitsAre
  <2> SUFFICES ASSUME s = <<>> PROVE FALSE
    OBVIOUS
  <2>5. PICK q : q = f[0] /\ q = [ok |-> TRUE, c |-> c, rest |-> s]
    BY <1>8
  <2>6. f[1] = [q EXCEPT !.ok = FALSE]
    BY <2>1, <2>3, <2>4, <2>5 DEF C!ReadField
  <2>7. ~f[1].ok
    BY <2>5, <2>6
  <2> QED
    BY <2>2, <2>7
<1>14. ReadSoFar(f[10], d, c, 10) /\ Reading(f[10], c, E)
  BY <1>12 DEF B
<1> QED
  BY <1>7, <1>13, <1>14 DEF Reading

(* Encodings that say the same make the same profile.                       *)
LEMMA SayTheSame ==
  ASSUME NEW a, Typed(a), NEW b, Typed(b), C!SameColorEncoding(a, b), a.ri = b.ri
  PROVE  /\ C!MaybeCreateProfile(a) = C!MaybeCreateProfile(b)
         /\ C!Creatable(a) <=> C!Creatable(b)
<1>1. a.cs = b.cs /\ a.wp = b.wp /\ (a.wp = "Custom" => a.white = b.white)
  BY DEF C!SameColorEncoding, C!SameColorSpace
<1>2. C!GetWhitePoint(a) = C!GetWhitePoint(b)
  BY <1>1 DEF C!GetWhitePoint
<1>3. /\ C!HasPrimaries(a) <=> C!HasPrimaries(b)
      /\ C!HasPrimaries(a) => C!GetPrimaries(a) = C!GetPrimaries(b)
  BY DEF C!SameColorEncoding, C!SameColorSpace, C!HasPrimaries, C!GetPrimaries
<1>4. /\ a.have_gamma = b.have_gamma
      /\ a.have_gamma => a.gamma = b.gamma
      /\ ~a.have_gamma => a.tf = b.tf
  BY DEF C!SameColorEncoding, C!SameTf
<1>5. C!Signature(a) = C!Signature(b)
  <2>1. PICK x1, x2, x3 : /\ x1 = (IF a.have_gamma THEN "Gamma" ELSE a.tf)
                          /\ x2 = (IF C!HasPrimaries(a) THEN C!GetPrimaries(a) ELSE <<>>)
                          /\ x3 = (IF a.have_gamma THEN a.gamma ELSE 0)
    OBVIOUS
  <2>2. /\ x1 = (IF b.have_gamma THEN "Gamma" ELSE b.tf)
        /\ x2 = (IF C!HasPrimaries(b) THEN C!GetPrimaries(b) ELSE <<>>)
        /\ x3 = (IF b.have_gamma THEN b.gamma ELSE 0)
    BY <1>3, <1>4, <2>1
  <2>3. C!Signature(a) = [cs |-> a.cs, wp |-> C!GetWhitePoint(a), tf |-> x1, rgb |-> x2,
                          gamma |-> x3, ri |-> a.ri]
    BY <2>1, Zenon DEF C!Signature
  <2>4. C!Signature(b) = [cs |-> b.cs, wp |-> C!GetWhitePoint(b), tf |-> x1, rgb |-> x2,
                          gamma |-> x3, ri |-> b.ri]
    BY <2>2, Zenon DEF C!Signature
  <2> QED
    BY <1>1, <1>2, <2>3, <2>4
<1>6. C!IsUnknown(a) <=> C!IsUnknown(b)
  BY <1>4 DEF C!IsUnknown
<1>7. C!IsGray(a) <=> C!IsGray(b)
  BY <1>1 DEF C!IsGray
<1>8. a.cs \notin {"Unknown", "XYB"} => (C!Drawable(a) <=> C!Drawable(b))
  <2>1. a.cs \notin {"Unknown", "XYB"} /\ ~C!IsGray(a) => C!HasPrimaries(a)
    BY TypedFields DEF C!Spaces, C!IsGray, C!HasPrimaries
  <2> QED
    BY <1>2, <1>3, <1>7, <2>1 DEF C!Drawable
<1> QED
  BY <1>1, <1>5, <1>6, <1>8 DEF C!MaybeCreateProfile, C!Creatable

(* What two encodings say of the colors, and all that they say it with.     *)
Saying == {"cs", "wp", "white", "pr", "rgb", "have_gamma", "gamma", "tf", "ri"}
SayAlike(a, b) == C!SameColorEncoding(a, b) /\ a.ri = b.ri

(* ... which stays so while these fields do.                                *)
LEMMA StillAlike ==
  ASSUME NEW a, NEW b, SayAlike(a, b), NEW p, NEW q,
         \A f \in Saying : p[f] = a[f] /\ q[f] = b[f]
  PROVE  SayAlike(p, q)
<1>1. /\ p.cs = a.cs /\ p.wp = a.wp /\ p.white = a.white /\ p.pr = a.pr /\ p.rgb = a.rgb
      /\ p.have_gamma = a.have_gamma /\ p.gamma = a.gamma /\ p.tf = a.tf /\ p.ri = a.ri
      /\ q.cs = b.cs /\ q.wp = b.wp /\ q.white = b.white /\ q.pr = b.pr /\ q.rgb = b.rgb
      /\ q.have_gamma = b.have_gamma /\ q.gamma = b.gamma /\ q.tf = b.tf /\ q.ri = b.ri
  BY DEF Saying
<1> QED
  BY <1>1 DEF SayAlike, C!SameColorEncoding, C!SameColorSpace, C!SameTf, C!HasPrimaries

(* Changes of the other fields say nothing.                                 *)
LEMMA KeptSaying ==
  ASSUME NEW a, NEW b, NEW F, Keeps(a, b, F), F \cap Saying = {}
  PROVE  \A f \in Saying : b[f] = a[f]
<1>1. Saying \subseteq Names
  BY DEF Saying, Names
<1> QED
  BY <1>1 DEF Keeps

(* Which are the others.                                                    *)
LEMMA NotSaying ==
  /\ {"icc"} \cap Saying = {} /\ {"tfcs", "have_fields", "cmyk"} \cap Saying = {}
BY DEF Saying

(* What VisitFields leaves of an encoding that can be written.              *)
LEMMA WrittenIs ==
  ASSUME NEW c, Good(c), C!InSync(c), NEW w, w = C!VisitFields(c), C!Serializable(w)
  PROVE  /\ Writable(w.c) /\ w.c.want_icc = c.want_icc /\ w.c.cs = c.cs
         /\ \A f \in Saying : w.c[f] = c[f]
         /\ ~c.want_icc => C!Creatable(c) /\ w.c.icc = C!MaybeCreateProfile(c)
<1> DEFINE v == C!Visited(c)
<1>1. w = C!AfterVisit(v)
  BY DEF C!VisitFields
<1>2. CASE c.want_icc
  <2>1. v = c
    BY <1>2 DEF C!Visited
  <2>2. w = C!Ok(c)
    <3> HIDE DEF v
    <3> QED
      BY <1>1, <1>2, <2>1, SMT DEF C!AfterVisit
  <2>3. w.c = c
    BY <2>2, Results
  <2> QED
    BY <1>2, <2>3 DEF Good, Writable
<1>3. CASE ~c.want_icc
  <2>1. v = C!SetImplicit(C!ImplicitWhitePoint(c))
    BY <1>3 DEF C!Visited
  <2>0. w.ok
    BY DEF C!Serializable
  <2> HIDE DEF v
  <2>2. Typed(v) /\ Keeps(c, v, {"wp", "have_gamma", "gamma", "tf"})
    BY <2>1, ImplicitIs DEF Good
  <2>3. v.want_icc = c.want_icc /\ v.cs = c.cs /\ v.tfcs = c.tfcs
    BY <2>2, Names14 DEF Keeps
  <2> DEFINE bad == v.cs = "Unknown" \/ C!IsUnknown(v) \/ C!BadGamma(v)
  <2>4. ~bad
    <3> SUFFICES ASSUME bad PROVE FALSE
      OBVIOUS
    <3>1. w = C!Failure(v)
      BY <1>1, <1>3, <2>3, SMT DEF C!AfterVisit
    <3> QED
      BY <2>0, <3>1, Results, NotNo
  <2>5. w = C!CreateICC(v)
    BY <1>1, <1>3, <2>3, <2>4, SMT DEF C!AfterVisit
  <2>6. C!Creatable(v) /\ Keeps(v, w.c, {"icc"}) /\ w.c.icc = C!MaybeCreateProfile(v)
    BY <2>0, <2>2, <2>5, CreatedICC
  <2>7. c.cs \in {"RGB", "Gray"} /\ c.tfcs # "XYB"
    <3>1. c.cs \in C!Spaces
      BY TypedFields DEF Good
    <3>2. c.cs \notin {"Unknown", "XYB"}
      BY <2>3, <2>6 DEF C!Creatable
    <3> QED
      BY <3>1, <3>2 DEF C!Spaces, C!InSync
  <2>8. v = c
    <3>1. C!ImplicitWhitePoint(c) = c
      BY <2>7 DEF C!ImplicitWhitePoint
    <3> QED
      BY <2>1, <2>7, <3>1 DEF C!SetImplicit
  <2>9. \A f \in Saying : w.c[f] = c[f]
    BY <2>6, <2>8, KeptSaying, NotSaying
  <2>10. Typed(w.c)
    <3>1. Good(w.c)
      BY <2>2, <2>5, CreatedICC
    <3> QED
      BY <3>1 DEF Good
  <2>11. w.c.want_icc = c.want_icc /\ w.c.cs = c.cs /\ w.c.tfcs = c.tfcs
         /\ w.c.have_gamma = c.have_gamma /\ w.c.gamma = c.gamma
    BY <2>6, <2>8, Names14 DEF Keeps
  <2>12. C!Creatable(w.c)
    <3>1. SayAlike(c, c)
      BY DEF SayAlike, C!SameColorEncoding, C!SameColorSpace, C!SameTf
    <3>2. SayAlike(w.c, c)
      BY <2>9, <3>1, StillAlike
    <3> QED
      BY <2>6, <2>8, <2>10, <3>2, SayTheSame DEF SayAlike, Good
  <2>13. c.have_gamma => C!ValidGamma(c.gamma)
    BY <2>4, <2>7, <2>8 DEF C!BadGamma
  <2>14. Writable(w.c)
    BY <2>7, <2>10, <2>11, <2>12, <2>13 DEF Writable
  <2> QED
    BY <2>6, <2>8, <2>9, <2>11, <2>14
<1> QED
  BY <1>2, <1>3

(* What has been read says what was written.                                *)
LEMMA ReadAlike ==
  ASSUME NEW d, Writable(d), ~d.want_icc, NEW c, c.tfcs # "XYB", NEW q,
         ReadSoFar(q, d, c, 10)
  PROVE  SayAlike(q.c, d) /\ q.c.want_icc = d.want_icc /\ q.c.cs = d.cs
<1>1. \A j \in 1 .. 10 : C!Visits(d, FieldAt(j)) => q.c[FieldAt(j)] = d[FieldAt(j)]
  BY DEF ReadSoFar
<1>2. d.cs \in {"RGB", "Gray"} /\ d.tfcs # "XYB"
  BY DEF Writable
<1>3. q.c.want_icc = d.want_icc /\ q.c.cs = d.cs /\ q.c.wp = d.wp /\ q.c.ri = d.ri
      /\ q.c.have_gamma = d.have_gamma
  BY <1>1, <1>2, OrderAt, VisitsAre
<1>4. d.wp = "Custom" => q.c.white = d.white
  BY <1>1, <1>2, OrderAt, VisitsAre
<1>5. C!HasPrimaries(d) => q.c.pr = d.pr /\ (d.pr = "Custom" => q.c.rgb = d.rgb)
  BY <1>1, <1>2, OrderAt, VisitsAre
<1>6. /\ d.have_gamma => q.c.gamma = d.gamma
      /\ ~d.have_gamma => q.c.tf = d.tf
  BY <1>1, <1>2, OrderAt, VisitsAre
<1>7. C!HasPrimaries(q.c) <=> C!HasPrimaries(d)
  BY <1>3 DEF C!HasPrimaries
<1> QED
  BY <1>3, <1>4, <1>5, <1>6, <1>7 DEF SayAlike, C!SameColorEncoding, C!SameColorSpace, C!SameTf

(* Visiting an encoding that can be made a profile for makes it.            *)
LEMMA VisitedMakes ==
  ASSUME NEW c, Typed(c), ~c.want_icc, c.cs # "XYB", c.tfcs # "XYB", C!Creatable(c),
         c.have_gamma => C!ValidGamma(c.gamma), NEW r, r = C!VisitFields(c)
  PROVE  r.ok /\ Keeps(c, r.c, {"icc"}) /\ r.c.icc = C!MaybeCreateProfile(c)
<1>1. C!Visited(c) = c
  BY DEF C!Visited, C!SetImplicit, C!ImplicitWhitePoint
<1>2. ~(c.cs = "Unknown" \/ C!IsUnknown(c) \/ C!BadGamma(c))
  BY DEF C!Creatable, C!BadGamma
<1>3. r = C!CreateICC(c)
  <2>1. r = C!AfterVisit(c)
    BY <1>1 DEF C!VisitFields
  <2> QED
    BY <1>2, <2>1, SMT DEF C!AfterVisit
<1> QED
  BY <1>3, CreatedICC

(* The default fields, said with nothing.                                   *)
LEMMA DefaultAlike ==
  ASSUME NEW d, Writable(d), C!AllDefault(d)
  PROVE  ~d.want_icc /\ SayAlike(C!Blank, d)
<1> DEFINE b == C!Blank
<1>1. /\ b.cs = "RGB" /\ b.wp = "D65" /\ b.pr = "SRGB" /\ b.have_gamma = No /\ b.tf = "SRGB"
      /\ b.ri = "Rel" /\ b.want_icc = No
  BY Zenon DEF C!Blank, No
<1>2. \A j \in 1 .. 10 : C!Visits(d, FieldAt(j)) => d[FieldAt(j)] = b[FieldAt(j)]
  <2>1. \A j \in 1 .. 10 : FieldAt(j) \in C!ToSet(C!FieldOrder)
    <3>1. C!ToSet(C!FieldOrder) = {C!FieldOrder[i] : i \in DOMAIN C!FieldOrder}
      BY DEF C!ToSet
    <3>2. DOMAIN C!FieldOrder = 1 .. 10
      BY DEF C!FieldOrder
    <3> QED
      BY <3>1, <3>2 DEF FieldAt
  <2> QED
    BY <2>1 DEF C!AllDefault
<1> HIDE DEF b
<1>3. d.want_icc = No /\ d.cs = "RGB"
  BY <1>1, <1>2, OrderAt, VisitsAre
<1>4. ~d.want_icc
  BY <1>3, NotNo
<1>5. d.tfcs # "XYB" /\ C!HasPrimaries(d)
  BY <1>3, <1>4 DEF Writable, C!HasPrimaries
<1>6. d.wp = "D65" /\ d.pr = "SRGB" /\ d.have_gamma = No /\ d.ri = "Rel"
  BY <1>1, <1>2, <1>3, <1>4, <1>5, OrderAt, VisitsAre
<1>7. ~d.have_gamma
  BY <1>6, NotNo
<1>8. d.tf = "SRGB"
  BY <1>1, <1>2, <1>4, <1>5, <1>7, OrderAt, VisitsAre
<1>9. ~b.have_gamma /\ b.have_gamma = d.have_gamma
  BY <1>1, <1>6, NotNo
<1>10. SayAlike(b, d)
  BY <1>1, <1>3, <1>6, <1>7, <1>8, <1>9
     DEF SayAlike, C!SameColorEncoding, C!SameColorSpace, C!SameTf, C!HasPrimaries
<1> QED
  BY <1>4, <1>10 DEF b

(* What is read of a header that was written.                               *)
SentBack(r, w, c) ==
  /\ r.ok /\ r.c.want_icc = c.want_icc /\ r.c.cs = c.cs
  /\ ~c.want_icc => /\ C!SameColorEncoding(r.c, c) /\ r.c.ri = c.ri
                    /\ r.c.icc = w.c.icc

(* A header that was written is read back, all default or not.              *)
LEMMA SerializedBack ==
  ASSUME NEW c, Good(c), C!InSync(c), NEW w, w = C!VisitFields(c), C!Serializable(w),
         NEW r, r = C!Read(C!Fresh, C!Stream(w.c))
  PROVE  SentBack(r, w, c)
<1>1. /\ Writable(w.c) /\ w.c.want_icc = c.want_icc /\ w.c.cs = c.cs
      /\ \A f \in Saying : w.c[f] = c[f]
      /\ ~c.want_icc => C!Creatable(c) /\ w.c.icc = C!MaybeCreateProfile(c)
  BY WrittenIs
<1>2. PICK d : d = w.c
  OBVIOUS
<1>3. PICK h : h = C!Fresh /\ Typed(h) /\ h.tfcs # "XYB"
  BY FreshMade
<1>4. \A a : SayAlike(a, d) => SayAlike(a, c)
  BY <1>1, <1>2, StillAlike
<1>5. CASE C!AllDefault(d)
  <2>1. ~c.want_icc /\ SayAlike(C!Blank, d)
    BY <1>1, <1>2, <1>5, DefaultAlike
  <2>2. r = C!Ok(C!SetDefault(h))
    BY <1>2, <1>3, <1>5 DEF C!Read, C!Stream
  <2>3. PICK v : /\ Typed(v) /\ Keeps(C!Blank, v, {"tfcs", "have_fields", "cmyk"})
                 /\ C!SetDefault(h) = C!CreateICC(v).c /\ v.want_icc = No
    BY <1>3, DefaultMade
  <2>4. SayAlike(C!Blank, c)
    BY <1>4, <2>1
  <2>5. SayAlike(v, c)
    BY <2>3, <2>4, KeptSaying, NotSaying, StillAlike
  <2>6. C!Creatable(v) /\ C!MaybeCreateProfile(v) = C!MaybeCreateProfile(c)
    BY <1>1, <2>1, <2>3, <2>5, SayTheSame DEF Good, SayAlike
  <2>7. PICK p : p = C!CreateICC(v)
    OBVIOUS
  <2>8. Keeps(v, p.c, {"icc"}) /\ p.c.icc = C!MaybeCreateProfile(c)
    BY <2>3, <2>6, <2>7, CreatedICC
  <2>9. SayAlike(p.c, c)
    BY <2>5, <2>8, KeptSaying, NotSaying, StillAlike
  <2>10. p.c.want_icc = c.want_icc
    <3>1. p.c.want_icc = No
      BY <2>3, <2>8, Names14 DEF Keeps
    <3>2. c.want_icc \in BOOLEAN
      BY TypedFields DEF Good
    <3>3. c.want_icc = No
      BY <2>1, <3>2, Zenon DEF No
    <3> QED
      BY <3>1, <3>3
  <2>11. r.ok /\ r.c = p.c
    BY <2>2, <2>3, <2>7, Results, NotNo
  <2>12. p.c.cs = c.cs
    BY <2>9 DEF SayAlike, C!SameColorEncoding, C!SameColorSpace
  <2> QED
    BY <1>1, <2>1, <2>8, <2>9, <2>10, <2>11, <2>12 DEF SentBack, SayAlike
<1>6. CASE ~C!AllDefault(d)
  <2>1. PICK s : s = C!FlattenSeq(C!SentFrom(d)) /\ s = C!Stream(d)
    BY <1>6 DEF C!Stream
  <2>2. PICK q : q = C!ReadFields(h, s)
    OBVIOUS
  <2>3. ReadSoFar(q, d, h, 10) /\ Typed(q.c) /\ s # <<>>
    BY <1>1, <1>2, <1>3, <2>1, <2>2, FieldsReadBack
  <2>4. r = C!ReadEnded(q) /\ q.ok /\ q.c.tfcs # "XYB"
    BY <1>2, <1>3, <2>1, <2>2, <2>3 DEF C!Read, ReadSoFar
  <2>5. CASE c.want_icc
    <3>1. \A j \in 1 .. 10 : C!Visits(d, FieldAt(j)) => q.c[FieldAt(j)] = d[FieldAt(j)]
      BY <2>3 DEF ReadSoFar
    <3>2. q.c.want_icc = c.want_icc /\ q.c.cs = c.cs
      BY <1>1, <1>2, <3>1, OrderAt, VisitsAre
    <3>3. r = C!Ok(q.c)
      BY <2>4, <2>5, <3>2, SMT DEF C!ReadEnded
    <3>4. r.ok /\ r.c = q.c
      BY <3>3, Results, NotNo
    <3> QED
      BY <2>5, <3>2, <3>4 DEF SentBack
  <2>6. CASE ~c.want_icc
    <3>1. SayAlike(q.c, d) /\ q.c.want_icc = c.want_icc /\ q.c.cs = c.cs
      BY <1>1, <1>2, <1>3, <2>3, <2>6, ReadAlike
    <3>2. SayAlike(q.c, c)
      BY <1>4, <3>1
    <3>3. C!Creatable(q.c) /\ C!MaybeCreateProfile(q.c) = C!MaybeCreateProfile(c)
      BY <1>1, <2>3, <2>6, <3>2, SayTheSame DEF Good, SayAlike
    <3>4. q.c.cs # "XYB"
      BY <3>3 DEF C!Creatable
    <3>5. q.c.have_gamma => C!ValidGamma(q.c.gamma)
      <4>1. d.have_gamma => C!ValidGamma(d.gamma)
        BY <1>1, <1>2, <2>6 DEF Writable
      <4>2. q.c.have_gamma = d.have_gamma /\ (q.c.have_gamma => q.c.gamma = d.gamma)
        BY <3>1 DEF SayAlike, C!SameColorEncoding, C!SameTf
      <4> QED
        BY <4>1, <4>2
    <3>6. r = C!VisitFields(q.c)
      BY <2>4, <2>6, <3>1, SMT DEF C!ReadEnded
    <3>7. r.ok /\ Keeps(q.c, r.c, {"icc"}) /\ r.c.icc = C!MaybeCreateProfile(c)
      BY <2>3, <2>4, <2>6, <3>1, <3>3, <3>4, <3>5, <3>6, VisitedMakes
    <3>8. SayAlike(r.c, c)
      BY <3>2, <3>7, KeptSaying, NotSaying, StillAlike
    <3>9. r.c.want_icc = c.want_icc /\ r.c.cs = c.cs
      BY <3>1, <3>7, Names14 DEF Keeps
    <3> QED
      BY <1>1, <2>6, <3>7, <3>8, <3>9 DEF SentBack, SayAlike
  <2> QED
    BY <2>5, <2>6
<1> QED
  BY <1>5, <1>6

(* An encoding that keeps the invariant survives the three forms.           *)
LEMMA ReadsBack == EncodingInv => C!EncodingReadsBack
<1> SUFFICES ASSUME EncodingInv PROVE C!EncodingReadsBack
  OBVIOUS
<1>1. Good(enc) /\ Typed(enc)
  BY DEF EncodingInv, Good
<1>2. C!ExternalReadsBack
  BY <1>1, ExternalBack DEF C!ExternalReadsBack
<1>3. C!SerializedReadsBack
  <2>1. PICK w : w = C!VisitFields(enc)
    OBVIOUS
  <2>2. PICK r : r = C!Read(C!Fresh, C!Stream(w.c))
    OBVIOUS
  <2>3. C!Serializable(w) /\ C!InSync(enc) => SentBack(r, w, enc)
    BY <1>1, <2>1, <2>2, SerializedBack
  <2> QED
    BY <2>1, <2>2, <2>3 DEF C!SerializedReadsBack, SentBack
<1>4. C!StandardReadsBack
  BY <1>1, LineBack DEF C!StandardReadsBack, C!DescriptionReadsBack
<1> QED
  BY <1>2, <1>3, <1>4, HintsAreApplied DEF C!EncodingReadsBack

(* Whatever calls made it, an encoding reads back from the struct of the C  *)
(* API, from the fields of a header and from a line of text, as nearly as   *)
(* each of them can say it; and hints leave what can be used.               *)
THEOREM EncodingsReadBack == Spec => []EncodingReadsBack
<1>1. Init => EncodingInv
  BY EncodingInit
<1>2. EncodingInv /\ [Next]_<<which, encodingVars, profileVars, headerVars>> => EncodingInv'
  BY EncodingStep
<1>3. EncodingInv => EncodingReadsBack
  BY ReadsBack DEF EncodingReadsBack
<1> QED
  BY <1>1, <1>2, <1>3, PTL DEF Spec

-------------------------------------------------------------------------------
(* The layout of a profile: what writing does to a buffer.                  *)
(* What bytes are named after.                                              *)
HeaderMarks ==
  {"size", "cmm", "version", "class", "space", "pcs", "date", "acsp", "platform", "flags",
   "maker", "model", "attributes", "intent", "illuminant", "creator"}
TagNames ==
  {"desc", "cprt", "wtpt", "kTRC", "chad", "rXYZ", "gXYZ", "bXYZ", "rTRC", "gTRC", "bTRC"}
Marks == HeaderMarks \cup TagNames \cup {"zero", "checksum", "table", "pad"}

(* The bytes of a record are named after it, one by one.                    *)
LEMMA BytesAre ==
  ASSUME NEW n \in Nat, NEW mark \in Marks
  PROVE  /\ I!Bytes(n, mark) \in Seq(Marks) /\ Len(I!Bytes(n, mark)) = n
         /\ \A i \in 1 .. n : I!Bytes(n, mark)[i] = mark
<1>1. I!Bytes(n, mark) \in [1 .. n -> Marks] /\ \A i \in 1 .. n : I!Bytes(n, mark)[i] = mark
  BY DEF I!Bytes
<1> HIDE DEF I!Bytes
<1> QED
  BY <1>1, SeqOfFunction

(* WriteICCUint32 and its kin change the bytes they are at and no other.    *)
LEMMA WriteIs ==
  ASSUME NEW b \in Seq(Marks), NEW pos \in Nat, NEW n \in Nat, pos + n <= Len(b),
         NEW mark \in Marks
  PROVE  /\ I!Write(b, pos, n, mark) \in Seq(Marks)
         /\ Len(I!Write(b, pos, n, mark)) = Len(b)
         /\ \A i \in 1 .. Len(b) :
              I!Write(b, pos, n, mark)[i] = IF pos < i /\ i <= pos + n THEN mark ELSE b[i]
<1> DEFINE Value(i) == IF i \in pos + 1 .. pos + n THEN mark
                       ELSE IF i <= Len(b) THEN b[i] ELSE "zero"
<1>0. Len(b) \in Nat /\ \A i \in 1 .. Len(b) : b[i] \in Marks
  BY LenProperties, ElementOfSeq
<1>1. (IF Len(b) < pos + n THEN pos + n ELSE Len(b)) = Len(b)
  BY <1>0
<1>2. I!Write(b, pos, n, mark) = [i \in 1 .. Len(b) |-> Value(i)]
  BY <1>1 DEF I!Write
<1>3. \A i \in 1 .. Len(b) : Value(i) = IF pos < i /\ i <= pos + n THEN mark ELSE b[i]
  <2>1. \A i \in 1 .. Len(b) : /\ i <= Len(b)
                               /\ i \in pos + 1 .. pos + n <=> (pos < i /\ i <= pos + n)
    BY <1>0
  <2> QED
    BY <2>1, Zenon
<1>4. \A i \in 1 .. Len(b) : Value(i) \in Marks
  BY <1>0, <1>3
<1> HIDE DEF Value
<1>5. I!Write(b, pos, n, mark) \in [1 .. Len(b) -> Marks]
  BY <1>4, <1>2
<1>6. I!Write(b, pos, n, mark) \in Seq(Marks) /\ Len(I!Write(b, pos, n, mark)) = Len(b)
  BY <1>0, <1>5, SeqOfFunction
<1>7. \A i \in 1 .. Len(b) : I!Write(b, pos, n, mark)[i] = Value(i)
  BY <1>2
<1> QED
  BY <1>3, <1>6, <1>7

(* The header: fields one after another, the rest zero.                     *)
At(k) == I!HeaderFields[k][1]
Until(k) == I!HeaderFields[k][1] + I!HeaderFields[k][2]
Mark(k) == I!HeaderFields[k][3]

(* The fields of the header do not overlap.                                 *)
LEMMA FieldsApart ==
  /\ Len(I!HeaderFields) = 21 /\ DOMAIN I!HeaderFields = 1 .. 21
  /\ \A k \in 1 .. 21 : /\ At(k) \in Nat /\ I!HeaderFields[k][2] \in Nat /\ Until(k) <= 84
                        /\ Mark(k) \in HeaderMarks
  /\ \A j, k \in 1 .. 21 : j < k => Until(j) <= At(k)
<1>1. Len(I!HeaderFields) = 21 /\ DOMAIN I!HeaderFields = 1 .. 21
  BY SMT DEF I!HeaderFields
<1>2. \A k \in 1 .. 21 : At(k) \in Nat /\ I!HeaderFields[k][2] \in Nat /\ Until(k) <= 84
  BY SMT DEF I!HeaderFields, At, Until
<1>3. \A k \in 1 .. 21 : Mark(k) \in HeaderMarks
  BY SMT DEF I!HeaderFields, Mark, HeaderMarks
<1>4. \A j, k \in 1 .. 21 : j < k => Until(j) <= At(k)
  BY SMTT(100) DEF I!HeaderFields, At, Until
<1> QED
  BY <1>1, <1>2, <1>3, <1>4

(* The functions CreateICCHeader counts with.                               *)
Writes(f, n) ==
  f = [k \in 0 .. n |-> IF k = 0 THEN I!Bytes(128, "zero")
                        ELSE I!Write(f[k - 1], I!HeaderFields[k][1], I!HeaderFields[k][2],
                                     I!HeaderFields[k][3])]

(* The function that CreateICCHeader writes with exists.                    *)
LEMMA WritesExist ==
  ASSUME NEW n \in Nat
  PROVE  \E f : Writes(f, n)
<1> DEFINE Bad == {k \in Nat : ~ \E f : Writes(f, k)}
<1> DEFINE Next1(b, k) == I!Write(b, I!HeaderFields[k][1], I!HeaderFields[k][2],
                                  I!HeaderFields[k][3])
<1>1. SUFFICES ASSUME Bad # {} PROVE FALSE
  BY <1>1
<1>2. PICK j \in Bad : \A k \in Bad : j <= k
  BY <1>1, LeastNatural
<1>3. j # 0
  <2>1. Writes([k \in 0 .. 0 |-> I!Bytes(128, "zero")], 0)
    BY DEF Writes
  <2> QED
    BY <1>2, <2>1
<1>4. j - 1 \in Nat /\ j - 1 \notin Bad
  BY <1>2, <1>3
<1>5. PICK f : Writes(f, j - 1)
  BY <1>4
<1> DEFINE g == [k \in 0 .. j |-> IF k = j THEN Next1(f[k - 1], k) ELSE f[k]]
<1>6. Writes(g, j)
  <2>1. j \in Nat \ {0}
    BY <1>2, <1>3
  <2>2. \A k \in 0 .. j - 1 : g[k] = f[k]
    BY <2>1
  <2>3. \A k \in 0 .. j : g[k] = IF k = 0 THEN I!Bytes(128, "zero") ELSE Next1(g[k - 1], k)
    <3> SUFFICES ASSUME NEW k \in 0 .. j
                 PROVE  g[k] = IF k = 0 THEN I!Bytes(128, "zero") ELSE Next1(g[k - 1], k)
      OBVIOUS
    <3>1. CASE k = j
      <4>1. g[k - 1] = f[k - 1] /\ k # 0
        BY <2>1, <2>2, <3>1
      <4> QED
        BY <3>1, <4>1
    <3>2. CASE k # j /\ k # 0
      <4>1. k \in 0 .. j - 1 /\ k - 1 \in 0 .. j - 1
        BY <2>1, <3>2
      <4>2. f[k] = Next1(f[k - 1], k)
        BY <1>5, <3>2, <4>1 DEF Writes
      <4>3. g[k] = f[k] /\ g[k - 1] = f[k - 1]
        BY <2>2, <4>1
      <4> QED
        BY <3>2, <4>2, <4>3
    <3>3. CASE k # j /\ k = 0
      <4>1. 0 \in 0 .. j - 1
        BY <2>1
      <4>2. f[0] = I!Bytes(128, "zero")
        BY <1>5, <4>1 DEF Writes
      <4> QED
        BY <2>2, <3>3, <4>1, <4>2
    <3> QED
      BY <3>1, <3>2, <3>3
  <2>4. g = [k \in 0 .. j |-> g[k]]
    OBVIOUS
  <2> HIDE DEF g
  <2> QED
    BY <2>3, <2>4 DEF Writes
<1> QED
  BY <1>2, <1>6

(* A header with k of the fields in it.                                     *)
HeaderSoFar(b, k) ==
  /\ b \in Seq(Marks) /\ Len(b) = 128
  /\ \A j \in 1 .. k : \A i \in 1 .. 128 : At(j) < i /\ i <= Until(j) => b[i] = Mark(j)
  /\ \A i \in 85 .. 128 : b[i] = "zero"
  /\ \A i \in 1 .. 128 : b[i] \notin TagNames

(* One field after another is written.                                      *)
LEMMA HeaderWritten ==
  ASSUME NEW k \in 0 .. 20, NEW b, HeaderSoFar(b, k), NEW w,
         w = I!Write(b, I!HeaderFields[k + 1][1], I!HeaderFields[k + 1][2],
                     I!HeaderFields[k + 1][3])
  PROVE  HeaderSoFar(w, k + 1)
<1> DEFINE pos == I!HeaderFields[k + 1][1]  n == I!HeaderFields[k + 1][2]
           mark == I!HeaderFields[k + 1][3]
<1>0. k + 1 \in 1 .. 21 /\ k \in Int
  OBVIOUS
<1>1. /\ pos \in Nat /\ n \in Nat /\ pos + n <= 84 /\ mark \in HeaderMarks /\ mark \in Marks
      /\ pos = At(k + 1) /\ pos + n = Until(k + 1) /\ mark = Mark(k + 1)
      /\ \A j \in 1 .. k : At(j) \in Nat /\ Until(j) \in Int /\ Until(j) <= pos
  <2>1. /\ At(k + 1) \in Nat /\ n \in Nat /\ Until(k + 1) <= 84 /\ Mark(k + 1) \in HeaderMarks
    BY <1>0, FieldsApart
  <2>2. pos = At(k + 1) /\ pos + n = Until(k + 1) /\ mark = Mark(k + 1)
    BY DEF At, Until, Mark
  <2>3. \A x \in HeaderMarks : x \in Marks
    BY DEF Marks
  <2>4. ASSUME NEW j \in 1 .. k
        PROVE  At(j) \in Nat /\ Until(j) \in Int /\ Until(j) <= pos
    <3>1. j \in 1 .. 21 /\ j < k + 1
      OBVIOUS
    <3>2. At(j) \in Nat /\ I!HeaderFields[j][2] \in Nat /\ Until(j) <= At(k + 1)
      BY <1>0, <3>1, FieldsApart
    <3> QED
      BY <2>2, <3>2 DEF At, Until
  <2> QED
    BY <2>1, <2>2, <2>3, <2>4
<1>2. w = I!Write(b, pos, n, mark)
  OBVIOUS
<1> HIDE DEF pos, n, mark
<1>3. pos + n <= Len(b) /\ b \in Seq(Marks) /\ Len(b) = 128
  <2>1. b \in Seq(Marks) /\ Len(b) = 128
    BY DEF HeaderSoFar
  <2> QED
    BY <1>1, <2>1
<1>4. /\ w \in Seq(Marks) /\ Len(w) = 128
      /\ \A i \in 1 .. 128 : w[i] = IF pos < i /\ i <= pos + n THEN mark ELSE b[i]
  <2>1. pos \in Nat /\ n \in Nat /\ mark \in Marks /\ pos + n <= Len(b) /\ b \in Seq(Marks)
    BY <1>1, <1>3
  <2>2. /\ w \in Seq(Marks) /\ Len(w) = Len(b)
        /\ \A i \in 1 .. Len(b) : w[i] = IF pos < i /\ i <= pos + n THEN mark ELSE b[i]
    BY ONLY <1>2, <2>1, WriteIs
  <2> QED
    BY <1>3, <2>2, Zenon
<1>5. \A j \in 1 .. k + 1 : \A i \in 1 .. 128 : At(j) < i /\ i <= Until(j) => w[i] = Mark(j)
  <2> SUFFICES ASSUME NEW j \in 1 .. k + 1, NEW i \in 1 .. 128, At(j) < i, i <= Until(j)
               PROVE  w[i] = Mark(j)
    BY Zenon
  <2>1. CASE j = k + 1
    BY <1>1, <1>4, <2>1, Zenon
  <2>2. CASE j # k + 1
    <3>1. j \in 1 .. k
      BY <2>2
    <3>2. b[i] = Mark(j)
      BY <3>1 DEF HeaderSoFar
    <3>3. ~(pos < i)
      BY <1>1, <3>1
    <3> QED
      BY <1>4, <3>2, <3>3
  <2> QED
    BY <2>1, <2>2
<1>6. \A i \in 85 .. 128 : w[i] = "zero"
  <2> SUFFICES ASSUME NEW i \in 85 .. 128 PROVE w[i] = "zero"
    OBVIOUS
  <2>1. i \in 1 .. 128 /\ ~(i <= pos + n)
    BY <1>1
  <2>2. b[i] = "zero"
    BY DEF HeaderSoFar
  <2> QED
    BY <1>4, <2>1, <2>2, Zenon
<1>7. \A i \in 1 .. 128 : w[i] \notin TagNames
  <2> SUFFICES ASSUME NEW i \in 1 .. 128 PROVE w[i] \notin TagNames
    BY Zenon
  <2>1. w[i] = mark \/ w[i] = b[i]
    BY <1>4, Zenon
  <2>2. mark \notin TagNames
    BY <1>1 DEF HeaderMarks, TagNames
  <2> QED
    BY <2>1, <2>2, Zenon DEF HeaderSoFar
<1> QED
  BY <1>4, <1>5, <1>6, <1>7, Zenon DEF HeaderSoFar

(* The whole header: every field is at its place.                           *)
LEMMA HeaderIs == HeaderSoFar(I!CreateICCHeader, 21)
<1> DEFINE written == CHOOSE f : Writes(f, 21)
<1>1. Writes(written, 21)
  BY WritesExist
<1>2. I!CreateICCHeader = written[21]
  BY FieldsApart DEF I!CreateICCHeader, Writes
<1> HIDE DEF written
<1> DEFINE Bad == {k \in 0 .. 21 : ~HeaderSoFar(written[k], k)}
<1>3. SUFFICES ASSUME Bad # {} PROVE FALSE
  BY <1>2, <1>3
<1>4. PICK j \in Bad : \A k \in Bad : j <= k
  <2>1. Bad \subseteq Nat
    OBVIOUS
  <2> HIDE DEF Bad
  <2> QED
    BY <1>3, <2>1, LeastNatural
<1>5. CASE j = 0
  <2>1. written[0] = I!Bytes(128, "zero")
    BY <1>1 DEF Writes
  <2>2. /\ written[0] \in Seq(Marks) /\ Len(written[0]) = 128
        /\ \A i \in 1 .. 128 : written[0][i] = "zero"
    <3>1. PICK n \in Nat : n = 128
      OBVIOUS
    <3>2. "zero" \in Marks
      BY DEF Marks
    <3>3. /\ I!Bytes(n, "zero") \in Seq(Marks) /\ Len(I!Bytes(n, "zero")) = n
          /\ \A i \in 1 .. n : I!Bytes(n, "zero")[i] = "zero"
      BY <3>2, BytesAre
    <3>4. written[0] = I!Bytes(n, "zero")
      BY <2>1, <3>1
    <3> QED
      BY <3>1, <3>3, <3>4
  <2>3. "zero" \notin TagNames
    BY DEF TagNames
  <2>4. /\ \A i \in 85 .. 128 : written[0][i] = "zero"
        /\ \A i \in 1 .. 128 : written[0][i] \notin TagNames
    <3>1. \A i \in 85 .. 128 : i \in 1 .. 128
      OBVIOUS
    <3> QED
      BY <2>2, <2>3, <3>1
  <2>5. \A q \in 1 .. 0 : FALSE
    OBVIOUS
  <2>6. HeaderSoFar(written[0], 0)
    BY <2>2, <2>4, <2>5, Zenon DEF HeaderSoFar
  <2> QED
    BY <1>4, <1>5, <2>6
<1>6. CASE j # 0
  <2>1. j \in 1 .. 21 /\ j - 1 \in 0 .. 20 /\ j - 1 \notin Bad /\ (j - 1) + 1 = j
    BY <1>4, <1>6
  <2>2. written[j] = I!Write(written[j - 1], I!HeaderFields[j][1], I!HeaderFields[j][2],
                             I!HeaderFields[j][3])
    <3>1. j \in 0 .. 21 /\ j # 0
      BY <2>1
    <3>2. \A k \in 0 .. 21 : k # 0 =>
            written[k] = I!Write(written[k - 1], I!HeaderFields[k][1], I!HeaderFields[k][2],
                                 I!HeaderFields[k][3])
      BY ONLY <1>1 DEF Writes
    <3> QED
      BY <3>1, <3>2
  <2>3. HeaderSoFar(written[j - 1], j - 1)
    BY <2>1
  <2>4. HeaderSoFar(written[j], j)
    BY <2>1, <2>2, <2>3, HeaderWritten
  <2> QED
    BY <1>4, <2>4
<1> QED
  BY <1>5, <1>6

(* The checksum goes where no field is.                                     *)
LEMMA Checksummed ==
  ASSUME NEW w, w = I!Write(I!CreateICCHeader, 84, 16, "checksum")
  PROVE  /\ w \in Seq(Marks) /\ Len(w) = 128
         /\ \A j \in 1 .. 21 : \A i \in 1 .. 128 : At(j) < i /\ i <= Until(j) => w[i] = Mark(j)
         /\ \A i \in 101 .. 128 : w[i] = "zero"
         /\ \A i \in 1 .. 128 : w[i] \notin TagNames
<1> DEFINE b == I!CreateICCHeader
<1>1. HeaderSoFar(b, 21)
  BY HeaderIs
<1>2. PICK pos \in Nat, n \in Nat : pos = 84 /\ n = 16
  OBVIOUS
<1>3. w = I!Write(b, pos, n, "checksum")
  BY <1>2
<1> HIDE DEF b
<1>4. b \in Seq(Marks) /\ Len(b) = 128
  BY <1>1 DEF HeaderSoFar
<1>5. pos + n <= Len(b) /\ "checksum" \in Marks
  <2>1. "checksum" \in Marks
    BY DEF Marks
  <2> QED
    BY <1>2, <1>4, <2>1
<1>6. /\ w \in Seq(Marks) /\ Len(w) = Len(b)
      /\ \A i \in 1 .. Len(b) : w[i] = IF pos < i /\ i <= pos + n THEN "checksum" ELSE b[i]
  <2>1. PICK mark \in Marks : mark = "checksum"
    BY <1>5
  <2>2. /\ pos \in Nat /\ n \in Nat /\ pos + n <= Len(b) /\ b \in Seq(Marks)
        /\ mark \in Marks /\ w = I!Write(b, pos, n, mark)
    BY <1>3, <1>4, <1>5, <2>1
  <2>3. /\ w \in Seq(Marks) /\ Len(w) = Len(b)
        /\ \A i \in 1 .. Len(b) : w[i] = IF pos < i /\ i <= pos + n THEN mark ELSE b[i]
    BY ONLY <2>2, WriteIs
  <2> QED
    BY <2>1, <2>3
<1>7. \A i \in 1 .. 128 : w[i] = IF 84 < i /\ i <= 100 THEN "checksum" ELSE b[i]
  <2>1. \A i \in 1 .. 128 : /\ i \in 1 .. Len(b)
                            /\ (84 < i /\ i <= 100) <=> (pos < i /\ i <= pos + n)
    BY <1>2, <1>4
  <2> QED
    BY <1>6, <2>1
<1>8. ASSUME NEW j \in 1 .. 21, NEW i \in 1 .. 128, At(j) < i, i <= Until(j)
      PROVE  w[i] = Mark(j)
  <2>1. b[i] = Mark(j)
    BY <1>1, <1>8 DEF HeaderSoFar
  <2>2. Until(j) <= 84 /\ Until(j) \in Int
    BY FieldsApart DEF Until, At
  <2> QED
    BY <1>7, <1>8, <2>1, <2>2, SMT
<1>9. ASSUME NEW i \in 101 .. 128 PROVE w[i] = "zero"
  <2>1. i \in 85 .. 128 /\ i \in 1 .. 128 /\ ~(i <= 100)
    OBVIOUS
  <2>2. b[i] = "zero"
    BY <1>1, <2>1 DEF HeaderSoFar
  <2> QED
    BY <1>7, <2>1, <2>2
<1>10. ASSUME NEW i \in 1 .. 128 PROVE w[i] \notin TagNames
  <2>1. b[i] \notin TagNames
    BY <1>1 DEF HeaderSoFar
  <2>2. "checksum" \notin TagNames
    BY DEF TagNames
  <2> QED
    BY <1>7, <2>1, <2>2
<1>11. Len(w) = 128
  BY <1>4, <1>6
<1> QED
  BY <1>6, <1>8, <1>9, <1>10, <1>11, Zenon

-------------------------------------------------------------------------------
(* The tags of an encoding, by what the layout needs to know of them.       *)
Single(x) == <<x>>
Curves3 == <<"rTRC", "gTRC", "bTRC">>
NameLists == {Single(x) : x \in TagNames} \cup {Curves3}
TagsOk(T) ==
  /\ Len(T) \in Nat /\ T \in Seq([names : NameLists, size : Nat \ {0}])
  /\ \A j, k \in 1 .. Len(T) : T[j].names[1] = T[k].names[1] => j = k

(* A group of names that share bytes, as the three curves do.               *)
LEMMA ListsName ==
  ASSUME NEW names \in NameLists
  PROVE  /\ names \in Seq(TagNames) /\ Len(names) \in 1 .. 3 /\ names[1] \in TagNames
         /\ \A q \in 1 .. Len(names) : I!Belongs(names[1], names[q])
<1>1. ASSUME NEW x \in TagNames, names = <<x>>
      PROVE  /\ names \in Seq(TagNames) /\ Len(names) \in 1 .. 3 /\ names[1] \in TagNames
             /\ \A q \in 1 .. Len(names) : I!Belongs(names[1], names[q])
  BY <1>1 DEF I!Belongs
<1>2. ASSUME names = <<"rTRC", "gTRC", "bTRC">>
      PROVE  /\ names \in Seq(TagNames) /\ Len(names) \in 1 .. 3 /\ names[1] \in TagNames
             /\ \A q \in 1 .. Len(names) : I!Belongs(names[1], names[q])
  BY <1>2 DEF I!Belongs, TagNames
<1> QED
  BY <1>1, <1>2 DEF NameLists, Single, Curves3

(* The tags that an encoding asks for.                                      *)
LEMMA TagsAre ==
  ASSUME NEW g \in BOOLEAN, NEW c, NEW n \in TextLengths
  PROVE  TagsOk(I!Tags(g, c, n))
<1> DEFINE R == [names : NameLists, size : Nat \ {0}]
<1>1. PICK a \in Nat \ {0}, b \in Nat \ {0}, curved \in Nat \ {0} :
        /\ a = I!MlucSize(n) /\ b = I!MlucSize(CopyrightLength)
        /\ curved = IF c = "Table" THEN I!CurvSize(CurveEntries) ELSE I!ParaSize
  <2>1. n \in Nat /\ CopyrightLength \in Nat /\ CurveEntries \in Nat
    BY DescriptionsAssumption DEF I!Assumptions
  <2> QED
    BY <2>1 DEF I!MlucSize, I!CurvSize, I!ParaSize
<1>2. PICK xyz \in Nat \ {0}, chad \in Nat \ {0} : xyz = I!XYZSize /\ chad = I!ChadSize
  BY DEF I!XYZSize, I!ChadSize
<1>3. /\ <<"desc">> \in NameLists /\ <<"cprt">> \in NameLists /\ <<"wtpt">> \in NameLists
      /\ <<"kTRC">> \in NameLists /\ <<"chad">> \in NameLists /\ <<"rXYZ">> \in NameLists
      /\ <<"gXYZ">> \in NameLists /\ <<"bXYZ">> \in NameLists
      /\ <<"rTRC", "gTRC", "bTRC">> \in NameLists
  BY DEF NameLists, Single, Curves3, TagNames
<1> DEFINE A == [names |-> <<"desc">>, size |-> a]
           B == [names |-> <<"cprt">>, size |-> b]
           W == [names |-> <<"wtpt">>, size |-> xyz]
<1>4. A \in R /\ B \in R /\ W \in R
  BY <1>3
<1>5. CASE g
  <2> DEFINE K == [names |-> <<"kTRC">>, size |-> curved]
  <2>1. I!Tags(g, c, n) = <<A, B, W>> \o <<K>>
    BY <1>1, <1>2, <1>5, Zenon DEF I!Tags, I!Tag
  <2>2. PICK T : T = I!Tags(g, c, n)
    OBVIOUS
  <2>3. K \in R
    BY <1>3
  <2>4. A.names[1] = "desc" /\ B.names[1] = "cprt" /\ W.names[1] = "wtpt" /\ K.names[1] = "kTRC"
    OBVIOUS
  <2> HIDE DEF A, B, W, K, R
  <2>5. Len(T) = 4 /\ T[1] = A /\ T[2] = B /\ T[3] = W /\ T[4] = K
    BY <2>1, <2>2
  <2>6. T \in Seq(R)
    BY <1>4, <2>1, <2>2, <2>3
  <2>7. \A j, k \in 1 .. 4 : T[j].names[1] = T[k].names[1] => j = k
    BY <2>4, <2>5
  <2> QED
    BY <2>2, <2>5, <2>6, <2>7 DEF TagsOk, R
<1>6. CASE ~g
  <2> DEFINE D == [names |-> <<"chad">>, size |-> chad]
             X == [names |-> <<"rXYZ">>, size |-> xyz]
             Y == [names |-> <<"gXYZ">>, size |-> xyz]
             Z == [names |-> <<"bXYZ">>, size |-> xyz]
             K == [names |-> <<"rTRC", "gTRC", "bTRC">>, size |-> curved]
  <2>1. I!Tags(g, c, n) = <<A, B, W>> \o <<D, X, Y, Z, K>>
    BY <1>1, <1>2, <1>6, Zenon DEF I!Tags, I!Tag
  <2>2. PICK T : T = I!Tags(g, c, n)
    OBVIOUS
  <2>3. D \in R /\ X \in R /\ Y \in R /\ Z \in R /\ K \in R
    BY <1>3
  <2>4. /\ A.names[1] = "desc" /\ B.names[1] = "cprt" /\ W.names[1] = "wtpt"
        /\ D.names[1] = "chad" /\ X.names[1] = "rXYZ" /\ Y.names[1] = "gXYZ"
        /\ Z.names[1] = "bXYZ" /\ K.names[1] = "rTRC"
    OBVIOUS
  <2> HIDE DEF A, B, W, D, X, Y, Z, K, R
  <2>5. /\ Len(T) = 8 /\ T[1] = A /\ T[2] = B /\ T[3] = W /\ T[4] = D
        /\ T[5] = X /\ T[6] = Y /\ T[7] = Z /\ T[8] = K
    BY <2>1, <2>2
  <2>6. T \in Seq(R)
    BY <1>4, <2>1, <2>2, <2>3
  <2>7. \A j, k \in 1 .. 8 : T[j].names[1] = T[k].names[1] => j = k
    BY <2>4, <2>5
  <2> QED
    BY <2>2, <2>5, <2>6, <2>7 DEF TagsOk, R
<1> QED
  BY <1>5, <1>6

-------------------------------------------------------------------------------
(* One tag more: its bytes and its padding come after what is there.        *)
Longer(tg, n, name, p) ==
  /\ p \in Seq(Marks) /\ Len(p) % 4 = 0 /\ Len(tg) + n <= Len(p)
  /\ \A i \in 1 .. Len(tg) : p[i] = tg[i]
  /\ \A i \in Len(tg) + 1 .. Len(tg) + n : p[i] = name
  /\ \A i \in Len(tg) + n + 1 .. Len(p) : p[i] = "pad"

(* FinalizeICCTag: a tag starts where the last one ended, and is padded to  *)
(* four.                                                                    *)
LEMMA PaddedIs ==
  ASSUME NEW tg \in Seq(Marks), NEW n \in Nat \ {0}, NEW name \in TagNames
  PROVE  Longer(tg, n, name, I!Padded(tg \o I!Bytes(n, name)))
<1>0. PICK p : p = I!Padded(tg \o I!Bytes(n, name))
  OBVIOUS
<1> DEFINE u == I!Bytes(n, name)
           v == tg \o u
           gap == (4 - (Len(v) % 4)) % 4
           w == I!Bytes(gap, "pad")
<1>1. u \in Seq(Marks) /\ Len(u) = n /\ \A i \in 1 .. n : u[i] = name
  BY BytesAre DEF Marks
<1>2. Len(tg) \in Nat
  BY LenProperties
<1>3. p = v \o w
  BY <1>0 DEF I!Padded
<1>4. v = tg \o u /\ gap = (4 - (Len(v) % 4)) % 4
  OBVIOUS
<1> HIDE DEF u, v, w
<1>5. /\ v \in Seq(Marks) /\ Len(v) = Len(tg) + n
      /\ \A i \in 1 .. Len(v) : v[i] = IF i <= Len(tg) THEN tg[i] ELSE u[i - Len(tg)]
  BY <1>1, <1>4, ConcatProperties
<1>6. gap \in Nat /\ (Len(v) + gap) % 4 = 0
  BY <1>2, <1>5
<1> HIDE DEF gap
<1>7. w \in Seq(Marks) /\ Len(w) = gap /\ \A i \in 1 .. gap : w[i] = "pad"
  <2>1. "pad" \in Marks
    BY DEF Marks
  <2> QED
    BY <1>6, <2>1, BytesAre DEF w
<1>8. /\ p \in Seq(Marks) /\ Len(p) = Len(v) + gap
      /\ \A i \in 1 .. Len(p) : p[i] = IF i <= Len(v) THEN v[i] ELSE w[i - Len(v)]
  <2>1. p = v \o w /\ v \in Seq(Marks) /\ w \in Seq(Marks) /\ Len(w) = gap
    BY <1>3, <1>5, <1>7
  <2> QED
    BY ONLY <2>1, ConcatProperties
<1>13. /\ Len(tg) \in Nat /\ gap \in Nat /\ Len(v) = Len(tg) + n
       /\ Len(p) = (Len(tg) + n) + gap
  BY <1>2, <1>5, <1>6, <1>8
<1>9. ASSUME NEW i \in 1 .. Len(tg) PROVE p[i] = tg[i]
  <2>1. i \in 1 .. Len(v) /\ i \in 1 .. Len(p) /\ i <= Len(v) /\ i <= Len(tg)
    BY <1>13
  <2> QED
    BY <1>5, <1>8, <2>1
<1>10. ASSUME NEW i \in Len(tg) + 1 .. Len(tg) + n PROVE p[i] = name
  <2>1. /\ i \in 1 .. Len(v) /\ i \in 1 .. Len(p) /\ i <= Len(v) /\ ~(i <= Len(tg))
        /\ i - Len(tg) \in 1 .. n
    BY <1>13
  <2> QED
    BY <1>1, <1>5, <1>8, <2>1
<1>11. ASSUME NEW i \in Len(tg) + n + 1 .. Len(p) PROVE p[i] = "pad"
  <2>1. i \in 1 .. Len(p) /\ ~(i <= Len(v)) /\ i - Len(v) \in 1 .. gap
    BY <1>13
  <2> QED
    BY <1>7, <1>8, <2>1
<1>12. Len(p) % 4 = 0 /\ Len(tg) + n <= Len(p)
  <2>1. Len(p) = Len(v) + gap /\ Len(v) = Len(tg) + n
    BY <1>5, <1>8
  <2>2. Len(p) % 4 = 0
    BY <1>6, <2>1
  <2> QED
    BY <1>2, <1>6, <2>1, <2>2
<1> QED
  BY <1>0, <1>8, <1>9, <1>10, <1>11, <1>12 DEF Longer

(* What has been laid out after d of the tags.                              *)
EntryRecords == [name : TagNames, offset : {0}, size : Nat \ {0}]
Placed(e, o, tg) ==
  /\ o \in Nat /\ o % 4 = 0 /\ o + e.size <= Len(tg)
  /\ \A i \in o + 1 .. o + e.size : I!Belongs(tg[i], e.name)
  /\ tg[o + 1] # "pad"
Filled(t, tg) ==
  \E o \in Nat : /\ o + t.size <= Len(tg)
                 /\ \A i \in 1 .. Len(tg) : tg[i] = t.names[1] <=> (o < i /\ i <= o + t.size)
Listed(t, tt) == \E e \in 1 .. Len(tt) : tt[e].name = t.names[1]
Laid(T, d, tt, tg, of) ==
  /\ d \in 0 .. Len(T)
  /\ tg \in Seq(Marks) /\ Len(tg) % 4 = 0
  /\ \A i \in 1 .. Len(tg) : tg[i] = "pad" \/ \E k \in 1 .. d : tg[i] = T[k].names[1]
  /\ of \in Seq(Nat) /\ tt \in Seq(EntryRecords) /\ Len(of) = Len(tt)
  /\ \A e \in 1 .. Len(tt) : Placed(tt[e], of[e], tg)
  /\ \A k \in 1 .. d : Filled(T[k], tg) /\ Listed(T[k], tt)

(* Before the first tag nothing has been laid out.                          *)
LEMMA LaidNothing ==
  ASSUME NEW T, TagsOk(T)
  PROVE  Laid(T, 0, <<>>, <<>>, <<>>)
BY DEF Laid, TagsOk

LEMMA LaidOn ==
  ASSUME NEW T, TagsOk(T), NEW d, d < Len(T), NEW tt, NEW tg, NEW of, Laid(T, d, tt, tg, of),
         NEW p, p = I!Padded(tg \o I!Bytes(T[d + 1].size, T[d + 1].names[1])),
         NEW tt2, tt2 = tt \o [q \in DOMAIN T[d + 1].names |->
                                 I!Entry(T[d + 1].names[q], Len(p) - Len(tg))],
         NEW of2, of2 = of \o [q \in DOMAIN T[d + 1].names |-> Len(tg)]
  PROVE  Laid(T, d + 1, tt2, p, of2)
<1> DEFINE t == T[d + 1]
           names == t.names
           n == t.size
           L == Len(tg)
           x == [q \in DOMAIN names |-> I!Entry(names[q], Len(p) - L)]
           y == [q \in DOMAIN names |-> L]
<1>1. /\ d \in Nat /\ Len(T) \in Nat /\ d + 1 \in 1 .. Len(T)
  BY DEF TagsOk, Laid
<1>2. t \in [names : NameLists, size : Nat \ {0}]
  <2>1. T \in Seq([names : NameLists, size : Nat \ {0}])
    BY DEF TagsOk
  <2> QED
    BY <1>1, <2>1, ElementOfSeq
<1>3. names \in NameLists /\ n \in Nat \ {0}
  BY <1>2
<1>4. /\ p = I!Padded(tg \o I!Bytes(n, names[1])) /\ tt2 = tt \o x /\ of2 = of \o y
  OBVIOUS
<1>5. names = T[d + 1].names /\ n = T[d + 1].size /\ L = Len(tg)
  OBVIOUS
<1>6. PICK name \in TagNames : name = names[1]
  BY <1>3, ListsName
<1>7. L \in Nat /\ tg \in Seq(Marks) /\ L % 4 = 0
  BY LenProperties DEF Laid
<1> HIDE DEF n, names, t
<1>8. /\ p \in Seq(Marks) /\ Len(p) % 4 = 0 /\ L + n <= Len(p)
      /\ \A i \in 1 .. L : p[i] = tg[i]
      /\ \A i \in L + 1 .. L + n : p[i] = name
      /\ \A i \in L + n + 1 .. Len(p) : p[i] = "pad"
  <2>1. p = I!Padded(tg \o I!Bytes(n, name))
    BY <1>4, <1>6
  <2>2. /\ p \in Seq(Marks) /\ Len(p) % 4 = 0 /\ Len(tg) + n <= Len(p)
        /\ \A i \in 1 .. Len(tg) : p[i] = tg[i]
        /\ \A i \in Len(tg) + 1 .. Len(tg) + n : p[i] = name
        /\ \A i \in Len(tg) + n + 1 .. Len(p) : p[i] = "pad"
    <3>1. n \in Nat \ {0} /\ name \in TagNames /\ tg \in Seq(Marks)
      BY <1>3, <1>7
    <3> QED
      <4>1. Longer(tg, n, name, I!Padded(tg \o I!Bytes(n, name)))
        BY ONLY <3>1, PaddedIs
      <4>2. Longer(tg, n, name, p)
        BY <2>1, <4>1
      <4> QED
        BY ONLY <4>2 DEF Longer
  <2> QED
    BY <1>5, <2>2
<1>9. Len(p) \in Nat /\ L \in Nat /\ n \in Nat \ {0} /\ L + n <= Len(p)
  <2>1. Len(p) \in Nat
    BY <1>8, LenProperties
  <2> QED
    BY <1>3, <1>7, <1>8, <2>1
<1> HIDE DEF L
<1>10. PICK r \in 1 .. 3 : r = Len(names) /\ DOMAIN names = 1 .. r
  BY <1>3, ListsName, LenProperties
<1>11. \A q \in 1 .. r : names[q] \in TagNames /\ I!Belongs(name, names[q])
  <2>1. names \in Seq(TagNames)
    BY <1>3, ListsName
  <2> QED
    BY <1>3, <1>6, <1>10, <2>1, ListsName, ElementOfSeq
<1> DEFINE N == Len(p) - L
<1>12. N \in Nat \ {0} /\ L + N = Len(p)
  BY <1>9
<1>13. /\ x \in Seq(EntryRecords) /\ Len(x) = r
       /\ \A q \in 1 .. r : x[q].name = names[q] /\ x[q].size = N
  <2>1. x = [q \in 1 .. r |-> [name |-> names[q], offset |-> 0, size |-> N]]
    BY <1>10 DEF I!Entry
  <2> HIDE DEF x, N
  <2>2. \A q \in 1 .. r : [name |-> names[q], offset |-> 0, size |-> N] \in EntryRecords
    BY <1>11, <1>12 DEF EntryRecords
  <2>3. x \in [1 .. r -> EntryRecords]
    BY <2>1, <2>2
  <2>4. r \in Nat
    OBVIOUS
  <2> QED
    BY <2>1, <2>3, <2>4, SeqOfFunction
<1>14. y \in Seq(Nat) /\ Len(y) = r /\ \A q \in 1 .. r : y[q] = L
  <2>1. y = [q \in 1 .. r |-> L]
    BY <1>10
  <2> HIDE DEF y
  <2>2. y \in [1 .. r -> Nat]
    BY <1>7, <2>1
  <2>3. r \in Nat
    OBVIOUS
  <2> QED
    BY <2>1, <2>2, <2>3, SeqOfFunction
<1> HIDE DEF x, y, N
<1>15. /\ tt \in Seq(EntryRecords) /\ of \in Seq(Nat) /\ Len(of) = Len(tt) /\ Len(tt) \in Nat
  BY LenProperties DEF Laid
<1>16. /\ tt2 \in Seq(EntryRecords) /\ Len(tt2) = Len(tt) + r
       /\ \A e \in 1 .. Len(tt2) : tt2[e] = IF e <= Len(tt) THEN tt[e] ELSE x[e - Len(tt)]
  <2>1. /\ tt2 = tt \o x /\ tt \in Seq(EntryRecords) /\ x \in Seq(EntryRecords) /\ Len(x) = r
    BY <1>4, <1>13, <1>15
  <2> QED
    BY ONLY <2>1, ConcatProperties
<1>17. /\ of2 \in Seq(Nat) /\ Len(of2) = Len(tt) + r
       /\ \A e \in 1 .. Len(of2) : of2[e] = IF e <= Len(tt) THEN of[e] ELSE y[e - Len(tt)]
  <2>1. /\ of2 = of \o y /\ of \in Seq(Nat) /\ y \in Seq(Nat) /\ Len(y) = r /\ Len(of) = Len(tt)
    BY <1>4, <1>14, <1>15
  <2> QED
    BY ONLY <2>1, ConcatProperties
<1>18. ASSUME NEW e \in 1 .. Len(tt2) PROVE Placed(tt2[e], of2[e], p)
  <2>1. CASE e <= Len(tt)
    <3>1. e \in 1 .. Len(tt) /\ tt2[e] = tt[e] /\ of2[e] = of[e]
      BY <1>15, <1>16, <1>17, <2>1
    <3>2. PICK f \in EntryRecords, o \in Nat : f = tt[e] /\ o = of[e]
      <4>1. e \in 1 .. Len(of)
        BY <1>15, <3>1
      <4> QED
        BY <1>15, <3>1, <4>1, ElementOfSeq
    <3>3. Placed(f, o, tg)
      BY <3>1, <3>2 DEF Laid
    <3>4. PICK s \in Nat \ {0} : s = f.size
      BY DEF EntryRecords
    <3>5. o % 4 = 0 /\ o + s <= L
      BY <1>5, <3>3, <3>4 DEF Placed
    <3>6. ASSUME NEW i \in o + 1 .. o + s PROVE p[i] = tg[i]
      <4>1. i \in 1 .. L
        BY <1>9, <3>5
      <4> QED
        BY <1>8, <4>1
    <3>7. p[o + 1] = tg[o + 1]
      <4>1. o + 1 \in o + 1 .. o + s
        OBVIOUS
      <4> QED
        BY <3>6, <4>1
    <3>8. o + s <= Len(p)
      BY <1>9, <3>5
    <3>9. Placed(f, o, p)
      BY <3>3, <3>4, <3>5, <3>6, <3>7, <3>8 DEF Placed
    <3> QED
      BY <3>1, <3>2, <3>9
  <2>2. CASE ~(e <= Len(tt))
    <3>1. PICK q \in 1 .. r : q = e - Len(tt)
      <4>1. Len(tt2) = Len(tt) + r
        BY <1>16
      <4> QED
        <5>1. Len(tt) \in Nat
          BY <1>15
        <5> QED
          <6>1. e \in Int /\ e <= Len(tt) + r /\ r \in Nat
            BY <4>1, <5>1
          <6>2. e - Len(tt) \in 1 .. r
            BY <2>2, <5>1, <6>1
          <6> QED
            BY <6>2
    <3>2. tt2[e] = x[q] /\ of2[e] = y[q]
      BY <1>15, <1>16, <1>17, <2>2, <3>1
    <3>3. PICK f : f = tt2[e]
      OBVIOUS
    <3>4. f.size = N /\ f.name = names[q] /\ of2[e] = L
      BY <1>13, <1>14, <3>2, <3>3
    <3>5. ASSUME NEW i \in L + 1 .. L + N PROVE I!Belongs(p[i], names[q])
      <4>1. i \in L + 1 .. L + n \/ i \in L + n + 1 .. Len(p)
        BY <1>3, <1>7, <1>9, <1>12
      <4>2. p[i] = name \/ p[i] = "pad"
        BY <1>8, <4>1
      <4> QED
        BY <1>11, <4>2 DEF I!Belongs
    <3>6. p[L + 1] # "pad"
      <4>1. L + 1 \in L + 1 .. L + n
        BY <1>3, <1>7
      <4>2. p[L + 1] = name
        BY <1>8, <4>1
      <4> QED
        BY <4>2 DEF TagNames
    <3>7. L + N <= Len(p)
      BY <1>9, <1>12
    <3>8. Placed(f, L, p)
      BY <1>7, <3>4, <3>5, <3>6, <3>7 DEF Placed
    <3> QED
      BY <3>3, <3>4, <3>8
  <2> QED
    BY <2>1, <2>2
<1>19. ASSUME NEW i \in 1 .. Len(p)
       PROVE  /\ i \in 1 .. L \/ i \in L + 1 .. L + n \/ i \in L + n + 1 .. Len(p)
              /\ p[i] = "pad" \/ \E k \in 1 .. d + 1 : p[i] = T[k].names[1]
  <2>1. i \in 1 .. L \/ i \in L + 1 .. L + n \/ i \in L + n + 1 .. Len(p)
    BY <1>9
  <2>2. CASE i \in 1 .. L
    <3>1. p[i] = tg[i]
      BY <1>8, <2>2
    <3>2. tg[i] = "pad" \/ \E k \in 1 .. d : tg[i] = T[k].names[1]
      BY <1>5, <2>2 DEF Laid
    <3>3. \A k \in 1 .. d : k \in 1 .. d + 1
      BY <1>1
    <3> QED
      BY <2>1, <3>1, <3>2, <3>3
  <2>3. CASE i \in L + 1 .. L + n
    <3>1. p[i] = T[d + 1].names[1]
      BY <1>5, <1>6, <1>8, <2>3
    <3>2. d + 1 \in 1 .. d + 1
      BY <1>1
    <3> QED
      BY <2>1, <3>1, <3>2
  <2>4. CASE i \in L + n + 1 .. Len(p)
    BY <1>8, <2>1, <2>4
  <2> QED
    BY <2>1, <2>2, <2>3, <2>4
<1>20. ASSUME NEW k \in 1 .. d PROVE Filled(T[k], p) /\ Listed(T[k], tt2)
  <2>1. PICK u : u = T[k]
    OBVIOUS
  <2>2. k \in 1 .. Len(T) /\ k # d + 1 /\ u.size \in Nat \ {0}
    <3>1. k \in 1 .. Len(T) /\ k # d + 1
      BY <1>1
    <3>2. u \in [names : NameLists, size : Nat \ {0}]
      BY <2>1, <3>1, ElementOfSeq DEF TagsOk
    <3> QED
      BY <3>1, <3>2
  <2>3. u.names[1] # name
    BY <1>1, <1>5, <1>6, <2>1, <2>2 DEF TagsOk
  <2>4. u.names[1] # "pad"
    <3>1. u \in [names : NameLists, size : Nat \ {0}]
      BY <2>1, <2>2, ElementOfSeq DEF TagsOk
    <3>2. u.names[1] \in TagNames
      BY <3>1, ListsName
    <3> QED
      BY <3>2 DEF TagNames
  <2>5. Filled(u, tg) /\ Listed(u, tt)
    BY <2>1 DEF Laid
  <2>6. PICK o \in Nat : /\ o + u.size <= L
                         /\ \A i \in 1 .. L : tg[i] = u.names[1] <=> (o < i /\ i <= o + u.size)
    BY <1>5, <2>5 DEF Filled
  <2>7. ASSUME NEW i \in 1 .. Len(p)
        PROVE  p[i] = u.names[1] <=> (o < i /\ i <= o + u.size)
    <3>1. CASE i \in 1 .. L
      BY <1>8, <2>6, <3>1
    <3>2. CASE i \in L + 1 .. L + n \/ i \in L + n + 1 .. Len(p)
      <4>1. p[i] = name \/ p[i] = "pad"
        BY <1>8, <3>2
      <4>2. ~(i <= o + u.size)
        <5>1. i \in Nat /\ L < i
          BY <1>9, <3>2
        <5>2. o + u.size <= L /\ u.size \in Nat
          BY <2>2, <2>6
        <5> QED
          BY <1>9, <5>1, <5>2
      <4> QED
        BY <2>3, <2>4, <4>1, <4>2
    <3> QED
      BY <1>19, <3>1, <3>2
  <2>8. o + u.size <= Len(p)
    <3>1. o + u.size <= L
      BY <2>6
    <3> QED
      BY <1>9, <2>2, <3>1
  <2>9. Filled(u, p)
    BY <2>7, <2>8 DEF Filled
  <2>10. Listed(u, tt2)
    <3>1. PICK e \in 1 .. Len(tt) : tt[e].name = u.names[1]
      BY <2>5 DEF Listed
    <3>2. e \in 1 .. Len(tt2) /\ tt2[e] = tt[e]
      BY <1>15, <1>16
    <3> QED
      BY <3>1, <3>2 DEF Listed
  <2> QED
    BY <2>1, <2>9, <2>10
<1>21. Filled(T[d + 1], p) /\ Listed(T[d + 1], tt2)
  <2>1. ASSUME NEW i \in 1 .. Len(p) PROVE p[i] = name <=> (L < i /\ i <= L + n)
    <3>1. CASE i \in 1 .. L
      <4>1. tg[i] = "pad" \/ \E k \in 1 .. d : tg[i] = T[k].names[1]
        BY <1>5, <3>1 DEF Laid
      <4>2. \A k \in 1 .. d : T[k].names[1] # name
        <5>1. \A k \in 1 .. d : k \in 1 .. Len(T) /\ k # d + 1
          BY <1>1
        <5> QED
          BY <1>1, <1>5, <1>6, <5>1 DEF TagsOk
      <4>3. p[i] = tg[i] /\ ~(L < i) /\ name # "pad"
        <5>1. name # "pad"
          BY DEF TagNames
        <5> QED
          <6>1. p[i] = tg[i]
            BY <1>8, <3>1
          <6>2. ~(L < i)
            BY <1>9, <3>1
          <6> QED
            BY <5>1, <6>1, <6>2
      <4> QED
        BY <4>1, <4>2, <4>3
    <3>2. CASE i \in L + 1 .. L + n
      <4>1. L < i /\ i <= L + n
        BY <1>3, <1>7, <3>2
      <4> QED
        BY <1>8, <3>2, <4>1
    <3>3. CASE i \in L + n + 1 .. Len(p)
      <4>1. ~(i <= L + n)
        BY <1>3, <1>7, <1>9, <3>3
      <4>2. p[i] = "pad" /\ name # "pad"
        <5>1. name # "pad"
          BY DEF TagNames
        <5> QED
          BY <1>8, <3>3, <5>1
      <4> QED
        BY <4>1, <4>2
    <3> QED
      BY <1>19, <3>1, <3>2, <3>3
  <2>2. Filled(T[d + 1], p)
    <3> QED
      BY <1>5, <1>6, <1>9, <2>1 DEF Filled
  <2>3. Listed(T[d + 1], tt2)
    <3>1. PICK e \in 1 .. Len(tt2) : e = Len(tt) + 1
      BY <1>15, <1>16
    <3>2. tt2[e] = x[1]
      <4>1. ~(e <= Len(tt)) /\ e - Len(tt) = 1
        BY <1>15, <3>1
      <4> QED
        BY <1>16, <4>1
    <3>3. 1 \in 1 .. r
      OBVIOUS
    <3>4. tt2[e].name = T[d + 1].names[1]
      BY <1>5, <1>13, <3>2, <3>3
    <3> QED
      BY <3>4 DEF Listed
  <2> QED
    BY <2>2, <2>3
<1>22. \A k \in 1 .. d + 1 : Filled(T[k], p) /\ Listed(T[k], tt2)
  <2>1. \A k \in 1 .. d + 1 : k \in 1 .. d \/ k = d + 1
    BY <1>1
  <2> QED
    BY <1>20, <1>21, <2>1
<1>23. d + 1 \in 0 .. Len(T) /\ Len(of2) = Len(tt2)
  BY SMTT(40), <1>1, <1>16, <1>17
<1> QED
  BY <1>8, <1>16, <1>17, <1>18, <1>19, <1>22, <1>23 DEF Laid

-------------------------------------------------------------------------------
(* The three buffers joined.                                                *)
Before(n) == 128 + I!TableSize(n)
Bytes3(n, tg) == I!Write(I!CreateICCHeader, 84, 16, "checksum")
                   \o I!Bytes(I!TableSize(n), "table") \o tg

(* How long the header and the table are.                                   *)
LEMMA BeforeIs ==
  ASSUME NEW n \in Nat
  PROVE  Before(n) \in Nat /\ Before(n) % 4 = 0 /\ Before(n) >= 128 /\ I!TableSize(n) \in Nat
BY DEF Before, I!TableSize

Joint(n, tg, b) ==
  /\ b \in Seq(Marks) /\ Len(b) = Before(n) + Len(tg)
  /\ \A i \in 1 .. 128 : b[i] \notin TagNames
  /\ \A j \in 1 .. 21 : \A i \in 1 .. 128 : At(j) < i /\ i <= Until(j) => b[i] = Mark(j)
  /\ \A i \in 101 .. 128 : b[i] = "zero"
  /\ \A i \in 129 .. Before(n) : b[i] \notin TagNames
  /\ \A i \in 1 .. Len(tg) : b[Before(n) + i] = tg[i]

(* A byte of one buffer is found in the joined profile at its place.        *)
LEMMA JoinedBytes ==
  ASSUME NEW n \in Nat, NEW tg \in Seq(Marks)
  PROVE  Joint(n, tg, Bytes3(n, tg))
<1>0. PICK b : b = Bytes3(n, tg)
  OBVIOUS
<1>1. PICK w : w = I!Write(I!CreateICCHeader, 84, 16, "checksum")
  OBVIOUS
<1>2. /\ w \in Seq(Marks) /\ Len(w) = 128
      /\ \A j \in 1 .. 21 : \A i \in 1 .. 128 : At(j) < i /\ i <= Until(j) => w[i] = Mark(j)
      /\ \A i \in 101 .. 128 : w[i] = "zero"
      /\ \A i \in 1 .. 128 : w[i] \notin TagNames
  BY SMTT(40), <1>1, Checksummed
<1>3. PICK bytes \in Nat : bytes = I!TableSize(n)
  BY BeforeIs
<1>4. PICK t : t = I!Bytes(bytes, "table")
  OBVIOUS
<1>5. t \in Seq(Marks) /\ Len(t) = bytes /\ \A i \in 1 .. bytes : t[i] = "table"
  <2>1. "table" \in Marks
    BY DEF Marks
  <2> QED
    BY <1>4, <2>1, BytesAre
<1>6. PICK h : h = w \o t
  OBVIOUS
<1>7. b = h \o tg
  BY <1>0, <1>1, <1>3, <1>4, <1>6 DEF Bytes3
<1>8. /\ h \in Seq(Marks) /\ Len(h) = 128 + bytes
      /\ \A i \in 1 .. Len(h) : h[i] = IF i <= 128 THEN w[i] ELSE t[i - 128]
  <2>1. /\ h \in Seq(Marks) /\ Len(h) = Len(w) + Len(t)
        /\ \A i \in 1 .. Len(h) : h[i] = IF i <= Len(w) THEN w[i] ELSE t[i - Len(w)]
    <3>1. h = w \o t /\ w \in Seq(Marks) /\ t \in Seq(Marks)
      BY <1>2, <1>5, <1>6
    <3> QED
      BY ONLY <3>1, ConcatProperties
  <2> QED
    BY <1>2, <1>5, <2>1
<1>9. /\ b \in Seq(Marks) /\ Len(b) = Len(h) + Len(tg)
      /\ \A i \in 1 .. Len(b) : b[i] = IF i <= Len(h) THEN h[i] ELSE tg[i - Len(h)]
  <2>1. b = h \o tg /\ h \in Seq(Marks) /\ tg \in Seq(Marks)
    BY <1>7, <1>8
  <2> QED
    BY ONLY <2>1, ConcatProperties
<1>10. Len(h) = Before(n) /\ Before(n) = 128 + bytes /\ Len(tg) \in Nat
       /\ Len(b) = (128 + bytes) + Len(tg)
  BY <1>3, <1>8, <1>9, LenProperties DEF Before
<1>11. ASSUME NEW i \in 1 .. 128 PROVE b[i] = w[i]
  <2>1. i \in 1 .. Len(b) /\ i \in 1 .. Len(h) /\ i <= Len(h) /\ i <= 128
    BY <1>10
  <2> QED
    BY <1>8, <1>9, <2>1
<1>12. ASSUME NEW i \in 129 .. Before(n) PROVE b[i] \notin TagNames
  <2>1. /\ i \in 1 .. Len(b) /\ i \in 1 .. Len(h) /\ i <= Len(h) /\ ~(i <= 128)
        /\ i - 128 \in 1 .. bytes
    BY <1>10
  <2>2. b[i] = "table"
    BY <1>5, <1>8, <1>9, <2>1
  <2> QED
    BY <2>2 DEF TagNames
<1>13. ASSUME NEW i \in 1 .. Len(tg) PROVE b[Before(n) + i] = tg[i]
  <2>1. /\ Before(n) + i \in 1 .. Len(b) /\ ~(Before(n) + i <= Len(h))
        /\ (Before(n) + i) - Len(h) = i
    BY <1>10
  <2> QED
    BY <1>9, <2>1
<1>14. \A i \in 101 .. 128 : i \in 1 .. 128
  OBVIOUS
<1>15. /\ \A i \in 1 .. 128 : b[i] \notin TagNames
       /\ \A i \in 101 .. 128 : b[i] = "zero"
  BY <1>2, <1>11, <1>14, Zenon
<1>16. \A j \in 1 .. 21 : \A i \in 1 .. 128 : At(j) < i /\ i <= Until(j) => b[i] = Mark(j)
  BY <1>2, <1>11
<1>17. Len(b) = Before(n) + Len(tg)
  BY <1>10
<1> QED
  BY <1>0, <1>9, <1>12, <1>13, <1>15, <1>16, <1>17 DEF Joint

-------------------------------------------------------------------------------
(* The making of a profile.                                                 *)
AllTags == I!Tags(gray, curve, text)
ProfileInv ==
  /\ gray \in BOOLEAN /\ text \in TextLengths /\ header = I!CreateICCHeader
  /\ \E d \in 0 .. Len(AllTags) :
       todo = SubSeq(AllTags, d + 1, Len(AllTags)) /\ Laid(AllTags, d, tagtable, tags, offsets)
  /\ tag_offset \in Nat /\ tag_size \in Nat /\ tag_offset + tag_size = Len(tags)
  /\ \/ icc = [status |-> "none"] \/ icc = [status |-> "failed"]
     \/ icc = I!Joined /\ todo = <<>>

(* Nothing of a profile has been made at first.                             *)
LEMMA ProfileInit == Init => ProfileInv
<1> SUFFICES ASSUME Init PROVE ProfileInv
  OBVIOUS
<1>1. I!Init
  BY DEF Init, IdleProfile
<1>2. TagsOk(AllTags)
  BY <1>1, TagsAre DEF I!Init, AllTags
<1>3. Len(AllTags) \in Nat /\ SubSeq(AllTags, 1, Len(AllTags)) = AllTags
  <2>1. AllTags \in Seq([names : NameLists, size : Nat \ {0}])
    BY <1>2 DEF TagsOk
  <2> QED
    BY <2>1, LenProperties, SubSeqProperties, SeqEqual
<1>4. /\ todo = SubSeq(AllTags, 0 + 1, Len(AllTags)) /\ Laid(AllTags, 0, tagtable, tags, offsets)
      /\ 0 \in 0 .. Len(AllTags)
  BY <1>1, <1>2, <1>3, LaidNothing DEF I!Init, AllTags
<1>5. tag_offset + tag_size = Len(tags) /\ tag_offset \in Nat /\ tag_size \in Nat
  BY <1>1 DEF I!Init
<1> QED
  BY <1>1, <1>4, <1>5 DEF I!Init, ProfileInv

(* Adding a tag, ...                                                        *)
LEMMA AddTagStep == ProfileInv /\ I!AddTag => ProfileInv'
<1> SUFFICES ASSUME ProfileInv, I!AddTag PROVE ProfileInv'
  OBVIOUS
<1>1. PICK d \in 0 .. Len(AllTags) :
        todo = SubSeq(AllTags, d + 1, Len(AllTags)) /\ Laid(AllTags, d, tagtable, tags, offsets)
  BY DEF ProfileInv
<1>2. TagsOk(AllTags)
  BY TagsAre DEF ProfileInv, AllTags
<1>3. AllTags \in Seq([names : NameLists, size : Nat \ {0}]) /\ Len(AllTags) \in Nat
  BY <1>2 DEF TagsOk
<1>4. todo # <<>>
  BY DEF I!AddTag
<1>5. d \in Nat /\ d < Len(AllTags)
  <2>1. ~(d + 1 > Len(AllTags))
    BY <1>1, <1>3, <1>4, SubSeqEmpty
  <2> QED
    BY <1>3, <2>1
<1>6. /\ Head(todo) = AllTags[d + 1]
      /\ Tail(todo) = SubSeq(AllTags, (d + 1) + 1, Len(AllTags))
  <2>1. d + 1 \in 1 .. Len(AllTags) /\ Len(AllTags) \in d + 1 .. Len(AllTags)
    BY <1>3, <1>5
  <2> QED
    BY <1>1, <1>3, <2>1, HeadTailOfSubSeq
<1>7. PICK t : t = AllTags[d + 1]
  OBVIOUS
<1>8. Len(tags) \in Nat /\ tag_offset + tag_size = Len(tags)
  <2>1. tags \in Seq(Marks)
    BY <1>1 DEF Laid
  <2> QED
    BY <2>1, LenProperties DEF ProfileInv
<1>9. /\ tags' = I!Padded(tags \o I!Bytes(t.size, t.names[1]))
      /\ tag_offset' = Len(tags) /\ tag_size' = Len(tags') - Len(tags)
      /\ tagtable' = tagtable \o [q \in DOMAIN t.names |->
                                   I!Entry(t.names[q], Len(tags') - Len(tags))]
      /\ offsets' = offsets \o [q \in DOMAIN t.names |-> Len(tags)]
      /\ todo' = Tail(todo) /\ UNCHANGED <<gray, curve, text, header, icc>>
      /\ icc.status = "none"
  <2>1. I!TagOffset(tag_offset, tag_size) = Len(tags)
    BY <1>8 DEF I!TagOffset
  <2>2. t = Head(todo)
    BY <1>6, <1>7
  <2>3. /\ tags' = I!Padded(tags \o I!Bytes(t.size, t.names[1]))
        /\ tag_offset' = Len(tags) /\ tag_size' = Len(tags') - tag_offset'
        /\ tagtable' = tagtable \o [q \in DOMAIN t.names |-> I!Entry(t.names[q], tag_size')]
        /\ offsets' = offsets \o [q \in DOMAIN t.names |-> tag_offset']
    BY <2>1, <2>2, Zenon DEF I!AddTag
  <2>4. /\ todo' = Tail(todo) /\ UNCHANGED <<gray, curve, text, header, icc>>
        /\ icc.status = "none"
    BY Zenon DEF I!AddTag
  <2>5. tag_size' = Len(tags') - Len(tags)
    BY <2>3
  <2> QED
    BY <2>3, <2>4, <2>5, Zenon
<1>10. Laid(AllTags, d + 1, tagtable', tags', offsets')
  BY <1>1, <1>2, <1>5, <1>7, <1>9, LaidOn
<1>11. AllTags' = AllTags
  BY <1>9 DEF AllTags
<1>12. d + 1 \in 0 .. Len(AllTags) /\ todo' = SubSeq(AllTags, (d + 1) + 1, Len(AllTags))
  BY SMTT(40), <1>3, <1>5, <1>6, <1>9
<1>13. tag_offset' \in Nat /\ tag_size' \in Nat /\ tag_offset' + tag_size' = Len(tags')
  <2>1. Longer(tags, t.size, t.names[1], tags') /\ t.size \in Nat
    <3>1. t \in [names : NameLists, size : Nat \ {0}]
      <4>1. d + 1 \in 1 .. Len(AllTags)
        BY <1>3, <1>5
      <4> QED
        BY <1>3, <1>7, <4>1, ElementOfSeq
    <3>2. t.names[1] \in TagNames /\ t.size \in Nat \ {0}
      BY <3>1, ListsName
    <3>3. tags \in Seq(Marks)
      BY <1>1 DEF Laid
    <3> QED
      BY <1>9, <3>2, <3>3, PaddedIs
  <2>2. Len(tags) + t.size <= Len(tags') /\ tags' \in Seq(Marks)
    BY <2>1 DEF Longer
  <2>3. Len(tags') \in Nat
    BY <2>2, LenProperties
  <2> QED
    BY <1>8, <1>9, <2>1, <2>2, <2>3
<1>14. icc = [status |-> "none"]
  BY <1>4, <1>9 DEF ProfileInv
<1>15. /\ gray' \in BOOLEAN /\ text' \in TextLengths /\ header' = I!CreateICCHeader
       /\ icc' = [status |-> "none"]
  BY <1>9, <1>14 DEF ProfileInv
<1> QED
  BY <1>10, <1>11, <1>12, <1>13, <1>15 DEF ProfileInv

(* ... refusing a number, ...                                               *)
LEMMA NumberStep == ProfileInv /\ I!NumberOutOfRange => ProfileInv'
<1> SUFFICES ASSUME ProfileInv, I!NumberOutOfRange PROVE ProfileInv'
  OBVIOUS
<1>1. /\ icc' = [status |-> "failed"]
      /\ UNCHANGED <<gray, curve, text, header, tagtable, tags, offsets, tag_offset, tag_size,
                     todo>>
  BY DEF I!NumberOutOfRange
<1>2. AllTags' = AllTags
  BY <1>1 DEF AllTags
<1> QED
  BY <1>1, <1>2 DEF ProfileInv

(* ... and joining the buffers.                                             *)
LEMMA AssembleStep == ProfileInv /\ I!Assemble => ProfileInv'
<1> SUFFICES ASSUME ProfileInv, I!Assemble PROVE ProfileInv'
  OBVIOUS
<1>1. /\ icc' = I!Joined /\ todo = <<>>
      /\ UNCHANGED <<gray, curve, text, header, tagtable, tags, offsets, tag_offset, tag_size,
                     todo>>
  BY DEF I!Assemble
<1>2. AllTags' = AllTags
  BY <1>1 DEF AllTags
<1>3. (I!Joined)' = I!Joined
  BY <1>1 DEF I!Joined
<1> QED
  BY <1>1, <1>2, <1>3 DEF ProfileInv

(* A step of the composition is one of these or leaves the profile alone.   *)
LEMMA ProfileStep ==
  ProfileInv /\ [Next]_<<which, encodingVars, profileVars, headerVars>> => ProfileInv'
<1> SUFFICES ASSUME ProfileInv, [Next]_<<which, encodingVars, profileVars, headerVars>>
             PROVE  ProfileInv'
  OBVIOUS
<1>1. ASSUME UNCHANGED profileVars PROVE ProfileInv'
  BY <1>1 DEF profileVars, ProfileInv, AllTags, I!Joined
<1>2. CASE I!Next
  BY <1>2, AddTagStep, NumberStep, AssembleStep DEF I!Next
<1>3. I!Next \/ UNCHANGED profileVars
  BY DEF Next
<1> QED
  BY <1>1, <1>2, <1>3

(* Entries of an assembled profile lead to their tags, and apart from each  *)
(* other.                                                                   *)
LEMMA ProfileMeans == ProfileInv => I!TagsLocated
<1> SUFFICES ASSUME ProfileInv, icc.status = "made" PROVE I!TagsLocated
  BY DEF I!TagsLocated
<1>1. icc = I!Joined /\ todo = <<>>
  BY DEF ProfileInv
<1>2. TagsOk(AllTags)
  BY TagsAre DEF ProfileInv, AllTags
<1>3. AllTags \in Seq([names : NameLists, size : Nat \ {0}]) /\ Len(AllTags) \in Nat
  BY <1>2 DEF TagsOk
<1>4. Laid(AllTags, Len(AllTags), tagtable, tags, offsets)
  <2>1. PICK d \in 0 .. Len(AllTags) :
          todo = SubSeq(AllTags, d + 1, Len(AllTags)) /\ Laid(AllTags, d, tagtable, tags, offsets)
    BY DEF ProfileInv
  <2>2. d = Len(AllTags)
    <3>1. SUFFICES ASSUME d # Len(AllTags) PROVE FALSE
      OBVIOUS
    <3>2. d + 1 \in Int /\ d + 1 <= Len(AllTags)
      BY <1>3, <3>1
    <3>3. Len(SubSeq(AllTags, d + 1, Len(AllTags))) = Len(AllTags) - (d + 1) + 1
      <4>1. /\ d + 1 \in 1 .. Len(AllTags) + 1 /\ Len(AllTags) \in d + 1 - 1 .. Len(AllTags)
        BY <1>3, <3>2
      <4> QED
        BY <1>3, <3>2, <4>1, SubSeqProperties
    <3>4. Len(SubSeq(AllTags, d + 1, Len(AllTags))) = 0
      BY <1>1, <2>1, EmptySeq
    <3> QED
      BY <1>3, <3>2, <3>3, <3>4
  <2> QED
    BY <2>1, <2>2
<1>5. /\ tags \in Seq(Marks) /\ Len(tags) \in Nat /\ Len(offsets) \in Nat
      /\ offsets \in Seq(Nat) /\ tagtable \in Seq(EntryRecords)
      /\ Len(tagtable) = Len(offsets) /\ DOMAIN tagtable = 1 .. Len(offsets)
  BY <1>4, LenProperties DEF Laid
<1>6. PICK n \in Nat : n = Len(offsets)
  BY <1>5, Zenon
<1>7. PICK start \in Nat : start = Before(n) /\ start % 4 = 0 /\ start >= 128
  BY BeforeIs
<1>8. Len(header) = 128 /\ header = I!CreateICCHeader
  BY HeaderIs DEF ProfileInv, HeaderSoFar
<1>9. /\ icc.count = n /\ icc.size = start + Len(tags)
      /\ icc.hashed = I!HashedLength(start + Len(tags))
      /\ icc.bytes = Bytes3(n, tags)
      /\ icc.entries = [k \in 1 .. n |-> [tagtable[k] EXCEPT !.offset = offsets[k] + start]]
  BY <1>1, <1>5, <1>6, <1>7, <1>8 DEF I!Joined, Before, Bytes3
<1>10. PICK b : b = icc.bytes
  OBVIOUS
<1>11. /\ b \in Seq(Marks) /\ Len(b) = start + Len(tags)
       /\ \A i \in 1 .. 128 : b[i] \notin TagNames
       /\ \A j \in 1 .. 21 : \A i \in 1 .. 128 : At(j) < i /\ i <= Until(j) => b[i] = Mark(j)
       /\ \A i \in 101 .. 128 : b[i] = "zero"
       /\ \A i \in 129 .. start : b[i] \notin TagNames
       /\ \A i \in 1 .. Len(tags) : b[start + i] = tags[i]
  <2>1. Joint(n, tags, Bytes3(n, tags))
    BY <1>5, JoinedBytes
  <2>2. Joint(n, tags, b)
    BY <1>9, <1>10, <2>1
  <2> QED
    BY <1>7, <2>2 DEF Joint
<1>12. PICK E : E = icc.entries
  OBVIOUS
<1>13. ASSUME NEW k \in 1 .. n
       PROVE  /\ tagtable[k] \in EntryRecords /\ offsets[k] \in Nat
              /\ E[k].name = tagtable[k].name /\ E[k].size = tagtable[k].size
              /\ E[k].offset = offsets[k] + start
  <2>1. tagtable[k] \in EntryRecords /\ offsets[k] \in Nat
    BY <1>5, <1>6, ElementOfSeq
  <2>2. E[k] = [tagtable[k] EXCEPT !.offset = offsets[k] + start]
    BY <1>9, <1>12
  <2> QED
    BY <2>1, <2>2 DEF EntryRecords
<1>14. Len(E) = n /\ DOMAIN E = 1 .. n
  <2>1. E = [k \in 1 .. n |-> [tagtable[k] EXCEPT !.offset = offsets[k] + start]]
    BY <1>9, <1>12
  <2>2. E \in [1 .. n -> {E[k] : k \in 1 .. n}] /\ DOMAIN E = 1 .. n
    BY <2>1
  <2> QED
    BY <2>2, SeqOfFunction
<1>15. ASSUME NEW k \in 1 .. n PROVE I!Located(E[k])
  <2>1. PICK f \in EntryRecords, o \in Nat : f = tagtable[k] /\ o = offsets[k]
    BY <1>13
  <2>2. Placed(f, o, tags)
    BY <1>4, <1>5, <1>6, <2>1 DEF Laid
  <2>3. PICK e : e = E[k]
    OBVIOUS
  <2>4. PICK bytes \in Nat \ {0} : bytes = f.size
    BY DEF EntryRecords
  <2>5. e.name = f.name /\ e.size = bytes /\ e.offset = o + start
    BY <1>13, <2>1, <2>3, <2>4
  <2>6. o % 4 = 0 /\ o + bytes <= Len(tags)
    BY <2>2, <2>4 DEF Placed
  <2>7. ASSUME NEW i \in (o + start) + 1 .. (o + start) + bytes
        PROVE  I!Belongs(b[i], f.name)
    <3>1. PICK h \in o + 1 .. o + bytes : start + h = i
      <4>1. i - start \in o + 1 .. o + bytes /\ start + (i - start) = i
        OBVIOUS
      <4> QED
        BY <4>1
    <3>2. h \in 1 .. Len(tags)
      BY <1>5, <2>6
    <3>3. b[i] = tags[h]
      BY <1>11, <3>1, <3>2
    <3> QED
      BY <2>2, <2>4, <3>3 DEF Placed
  <2>8. b[(o + start) + 1] # "pad"
    <3>1. o + 1 \in 1 .. Len(tags) /\ (o + start) + 1 = start + (o + 1)
      BY <1>5, <2>6
    <3>2. b[(o + start) + 1] = tags[o + 1]
      BY <1>11, <3>1
    <3> QED
      BY <2>2, <3>2 DEF Placed
  <2>9. /\ (o + start) % 4 = 0 /\ o + start >= start /\ (o + start) + bytes <= Len(b)
    <3>1. (o + start) % 4 = 0
      BY <1>7, <2>6
    <3>2. Len(b) = start + Len(tags) /\ Len(tags) \in Nat /\ o + bytes <= Len(tags)
      BY <1>5, <1>11, <2>6
    <3> QED
      BY <3>1, <3>2
  <2>10. 128 + I!TableSize(icc.count) = start
    BY <1>7, <1>9 DEF Before
  <2>11. I!Located(e)
    BY <1>10, <2>5, <2>7, <2>8, <2>9, <2>10 DEF I!Located
  <2> QED
    BY <2>3, <2>11
<1>16. ASSUME NEW t \in I!ToSet(AllTags)
       PROVE  /\ I!Cardinality(I!Data(t.names[1])) = t.size
              /\ \E k \in DOMAIN E : E[k].name = t.names[1]
  <2>1. PICK k \in 1 .. Len(AllTags) : t = AllTags[k]
    BY <1>3, LenProperties DEF I!ToSet
  <2>2. t \in [names : NameLists, size : Nat \ {0}]
    BY <1>3, <2>1, ElementOfSeq
  <2>3. PICK name \in TagNames, bytes \in Nat \ {0} : name = t.names[1] /\ bytes = t.size
    BY <2>2, ListsName
  <2>4. Filled(t, tags) /\ Listed(t, tagtable)
    BY <1>4, <2>1 DEF Laid
  <2>5. PICK o \in Nat : /\ o + bytes <= Len(tags)
                         /\ \A i \in 1 .. Len(tags) : tags[i] = name <=> (o < i /\ i <= o + bytes)
    BY <2>3, <2>4 DEF Filled
  <2>6. ASSUME NEW i \in 1 .. Len(b)
        PROVE  b[i] = name <=> i \in (start + o) + 1 .. (start + o) + bytes
    <3>0. Len(b) = start + Len(tags) /\ o + bytes <= Len(tags)
      BY <1>11, <2>5
    <3>1. CASE i <= start
      <4>1. i \in 1 .. 128 \/ i \in 129 .. start
        BY <3>1
      <4>2. b[i] \notin TagNames
        BY <1>11, <4>1
      <4>3. ~(i \in (start + o) + 1 .. (start + o) + bytes)
        BY <3>1
      <4> QED
        BY <4>2, <4>3
    <3>2. CASE i > start
      <4>1. PICK h \in 1 .. Len(tags) : start + h = i
        <5>1. i - start \in 1 .. Len(tags) /\ start + (i - start) = i
          BY <1>5, <3>0, <3>2
        <5> QED
          BY <5>1
      <4>2. b[i] = tags[h]
        BY <1>11, <4>1
      <4>3. (o < h /\ h <= o + bytes) <=> i \in (start + o) + 1 .. (start + o) + bytes
        BY <4>1
      <4> QED
        BY <2>5, <4>2, <4>3
    <3> QED
      BY <3>1, <3>2
  <2>7. I!Data(name) = (start + o) + 1 .. (start + o) + bytes
    <3>1. DOMAIN b = 1 .. Len(b)
      BY <1>11, LenProperties
    <3>2. (start + o) + 1 .. (start + o) + bytes \subseteq 1 .. Len(b)
      <4>1. Len(b) = start + Len(tags) /\ o + bytes <= Len(tags)
        BY <1>11, <2>5
      <4> QED
        BY <1>5, <4>1
    <3>3. I!Data(name) = {i \in 1 .. Len(b) : b[i] = name}
      BY <1>10, <3>1 DEF I!Data
    <3> QED
      BY <2>6, <3>2, <3>3
  <2>8. Cardinality((start + o) + 1 .. (start + o) + bytes) = bytes
    <3>1. PICK from \in Int, to \in Int : from = (start + o) + 1 /\ to = (start + o) + bytes
      OBVIOUS
    <3>2. Cardinality(from .. to) = IF from > to THEN 0 ELSE to - from + 1
      BY FS_Interval
    <3>3. ~(from > to) /\ to - from + 1 = bytes
      BY <3>1
    <3> QED
      BY <3>1, <3>2, <3>3
  <2>9. I!Cardinality(I!Data(name)) = Cardinality(I!Data(name))
    BY DEF Cardinality, I!Cardinality
  <2>10. PICK e \in 1 .. Len(tagtable) : tagtable[e].name = name
    BY <2>3, <2>4 DEF Listed
  <2>11. e \in 1 .. n /\ E[e].name = name
    <3>1. e \in 1 .. n
      BY <1>5, <1>6
    <3> QED
      BY <1>13, <2>10, <3>1
  <2> QED
    BY <1>14, <2>3, <2>7, <2>8, <2>9, <2>11
<1>17. I!HeaderIntact
  <2>1. ASSUME NEW k \in 1 .. 21, NEW i \in At(k) + 1 .. Until(k)
        PROVE  b[i] = Mark(k)
    <3>1. At(k) \in Nat /\ Until(k) <= 84 /\ Until(k) \in Int
      BY FieldsApart DEF At, Until
    <3>2. i \in 1 .. 128 /\ At(k) < i /\ i <= Until(k)
      BY <3>1
    <3> QED
      BY <1>11, <3>2
  <2>2. \A k \in DOMAIN I!HeaderFields :
          \A i \in I!HeaderFields[k][1] + 1 .. I!HeaderFields[k][1] + I!HeaderFields[k][2] :
             b[i] = I!HeaderFields[k][3]
    BY <2>1, FieldsApart DEF At, Until, Mark
  <2> QED
    BY <1>8, <1>10, <1>11, <2>2, ZenonT(40) DEF I!HeaderIntact
<1>18. icc.hashed % 64 = 0 /\ icc.hashed - icc.size \in 9 .. 72
  <2>1. PICK bytes \in Nat : bytes = start + Len(tags)
    BY <1>5
  <2>2. icc.size = bytes /\ icc.hashed = I!HashedLength(bytes)
    BY <1>9, <2>1
  <2>3. I!HashedLength(bytes) % 64 = 0 /\ I!HashedLength(bytes) - bytes \in 9 .. 72
    BY DEF I!HashedLength
  <2> QED
    BY <2>2, <2>3
<1>19. icc.size = Len(icc.bytes) /\ icc.count = Len(icc.entries)
  BY <1>9, <1>10, <1>11, <1>12, <1>14
<1> QED
  BY <1>10, <1>12, <1>14, <1>15, <1>16, <1>17, <1>18, <1>19 DEF I!TagsLocated, AllTags

(* MaybeCreateProfile: while tags are added, the table and the data they    *)
(* are in agree; an assembled profile is the header, the table and the      *)
(* data, its checksum over the rest.                                        *)
THEOREM ProfilesLaidOut == Spec => []ProfileInv
<1>1. Init => ProfileInv
  BY ProfileInit
<1>2. ProfileInv /\ [Next]_<<which, encodingVars, profileVars, headerVars>> => ProfileInv'
  BY ProfileStep
<1> QED
  BY <1>1, <1>2, PTL DEF Spec

-------------------------------------------------------------------------------
(* What the runs check of profiles, for every value of the constants.       *)
THEOREM ProfilesDescribeFields == Spec => []ProfileDescribesFields
<1>1. Init => EncodingInv /\ ProfileInv
  BY EncodingInit, ProfileInit
<1>2. /\ EncodingInv /\ ProfileInv
      /\ [Next]_<<which, encodingVars, profileVars, headerVars>>
      => EncodingInv' /\ ProfileInv'
  BY EncodingStep, ProfileStep
<1>3. EncodingInv /\ ProfileInv => ProfileDescribesFields
  BY EncodingMeans, ProfileMeans DEF ProfileDescribesFields
<1> QED
  BY <1>1, <1>2, <1>3, PTL DEF Spec
================================================================================
