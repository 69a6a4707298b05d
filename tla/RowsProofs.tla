------------------------------ MODULE RowsProofs ------------------------------
(***************************************************************************)
(* The two conversions of rows that the threads of a pool share, for any   *)
(* number of threads, any size and any order of the rows.  ColorTransform: *)
(* a row that was converted means in the target color space what it meant  *)
(* in the source.  ExternalImage: a row that was sent is, in the buffer or *)
(* with the callback, the row of the picture as it is meant to be seen.    *)
(***************************************************************************)
EXTENDS Foundations, Sequences, SequenceTheorems, TLAPS

-------------------------------------------------------------------------------
(***************************************************************************)
(* ColorTransform.                                                         *)
(***************************************************************************)
(* Truth values as members of records, which the provers tell from formulas. *)
Yes == TRUE
No == FALSE

LEMMA NotNo == (~No) = Yes /\ Yes /\ ~No /\ Yes # No
BY Zenon DEF Yes, No

Numbers(c, y, light, percent) ==
  [kind |-> "pixels", row |-> y, c |-> c, light |-> light, percent |-> percent]

LEMMA NumbersFields ==
  ASSUME NEW c, NEW y, NEW l, NEW p, NEW v, v = Numbers(c, y, l, p)
  PROVE  /\ v.c = c /\ v.light = l /\ v.percent = p
         /\ \A d : [v EXCEPT !.c = d] = Numbers(d, y, l, p)
         /\ \A m : [v EXCEPT !.light = m] = Numbers(c, y, m, p)
         /\ \A q : [v EXCEPT !.percent = q] = Numbers(c, y, l, q)
BY DEF Numbers

LEMMA MeaningIs ==
  ASSUME NEW c, NEW y
  PROVE  T!Meaning(c, y) = Numbers(c, y, T!LightOf(c), No)
BY Zenon DEF T!Meaning, Numbers, No

LEMMA EncodingFields ==
  \A g, s, f, k :
    LET c == T!Encoding(g, s, f, k)
    IN  /\ c.gray = g /\ c.space = s /\ c.tf = f /\ c.cmyk = k
        /\ \A h : [c EXCEPT !.tf = h] = T!Encoding(g, s, h, k)
BY DEF T!Encoding

LEMMA Recurved ==
  ASSUME NEW y, NEW l, NEW p, NEW c, NEW f, NEW v, v = Numbers(c, y, l, p)
  PROVE  [v EXCEPT !.c.tf = f] = Numbers([c EXCEPT !.tf = f], y, l, p)
<1>1. v.c = c
  BY NumbersFields
<1>2. [v EXCEPT !.c.tf = f] = [v EXCEPT !.c = [v.c EXCEPT !.tf = f]]
  BY Zenon
<1>3. [v EXCEPT !.c = [v.c EXCEPT !.tf = f]] = Numbers([v.c EXCEPT !.tf = f], y, l, p)
  BY NumbersFields
<1> QED
  BY <1>1, <1>2, <1>3, Zenon

LEMMA Curved ==
  ASSUME NEW y, NEW l, NEW p, NEW f, NEW g, NEW s, NEW k, NEW c, c = T!Encoding(g, s, f, k)
  PROVE  /\ T!Decoded(Numbers(c, y, l, p), f) = Numbers(T!Linear(c), y, l, p)
         /\ T!Encoded(Numbers(T!Linear(c), y, l, p), f) = Numbers(c, y, l, p)
<1>1. c.tf = f /\ T!Linear(c) = T!Encoding(g, s, "Linear", k)
  BY EncodingFields DEF T!Linear
<1>2. T!Linear(c).tf = "Linear" /\ [T!Linear(c) EXCEPT !.tf = f] = c
  BY <1>1, EncodingFields
<1> DEFINE v == Numbers(c, y, l, p)
<1>3. v.c = c /\ [v EXCEPT !.c.tf = "Linear"] = Numbers(T!Linear(c), y, l, p)
  BY NumbersFields, Recurved DEF T!Linear
<1> DEFINE w == Numbers(T!Linear(c), y, l, p)
<1>4. w.c = T!Linear(c) /\ [w EXCEPT !.c.tf = f] = Numbers(c, y, l, p)
  <2>1. w.c = T!Linear(c)
    BY NumbersFields
  <2>2. [w EXCEPT !.c.tf = f] = Numbers([T!Linear(c) EXCEPT !.tf = f], y, l, p)
    BY Recurved
  <2> QED
    BY <2>1, <2>2, <1>2
<1> HIDE DEF v, w
<1> QED
  BY <1>1, <1>2, <1>3, <1>4, Zenon DEF T!Decoded, T!Encoded, v, w

PlanRecord(src, dst, ootf, hlg, pre, post, first, last, skip, from, to) ==
  [kind |-> "cms", src |-> src, dst |-> dst, apply_hlg_ootf |-> ootf, hlg |-> hlg,
   preprocess |-> pre, postprocess |-> post, profile_src |-> first, profile_dst |-> last,
   skip_lcms |-> skip, channels_src |-> from, channels_dst |-> to]

LEMMA PlanRecordFields ==
  \A src, dst, ootf, hlg, pre, post, first, last, skip, from, to :
    LET p == PlanRecord(src, dst, ootf, hlg, pre, post, first, last, skip, from, to)
    IN  /\ p.apply_hlg_ootf = ootf /\ p.hlg = hlg /\ p.preprocess = pre /\ p.postprocess = post
        /\ p.profile_src = first /\ p.profile_dst = last /\ p.skip_lcms = skip
        /\ p.channels_src = from /\ p.channels_dst = to /\ p.kind = "cms" /\ p.src = src
BY DEF PlanRecord

LEMMA PlanFields ==
  ASSUME NEW src, NEW dst, NEW first, NEW linear, NEW last, NEW p,
         p = T!Plan(src, dst, first, linear, last)
  PROVE  /\ p.apply_hlg_ootf = T!AppliesOotf(src, dst)
         /\ p.hlg = IF src.tf = "HLG" THEN src ELSE dst
         /\ p.preprocess = IF first # src THEN src.tf ELSE "None"
         /\ p.postprocess = IF last # dst THEN dst.tf ELSE "None"
         /\ p.profile_src = first /\ p.profile_dst = last
         /\ p.skip_lcms = (T!SameColorEncoding(src, dst) \/ T!SameColorEncoding(first, last))
         /\ p.channels_src = IF src.cmyk THEN 4 ELSE T!Channels(src)
         /\ p.kind = "cms" /\ p.src = src
<1> DEFINE ootf == T!AppliesOotf(src, dst)
<1> DEFINE hlg == IF src.tf = "HLG" THEN src ELSE dst
<1> DEFINE pre == IF first # src THEN src.tf ELSE "None"
<1> DEFINE post == IF last # dst THEN dst.tf ELSE "None"
<1> DEFINE skip == T!SameColorEncoding(src, dst) \/ T!SameColorEncoding(first, last)
<1> DEFINE from == IF src.cmyk THEN 4 ELSE T!Channels(src)
<1> DEFINE to == T!Channels(dst)
<1>1. p = PlanRecord(src, dst, ootf, hlg, pre, post, first, last, skip, from, to)
  BY Zenon DEF T!Plan, PlanRecord
<1> HIDE DEF ootf, hlg, pre, post, skip, from, to
<1>2. /\ p.apply_hlg_ootf = ootf /\ p.hlg = hlg /\ p.preprocess = pre /\ p.postprocess = post
      /\ p.profile_src = first /\ p.profile_dst = last /\ p.skip_lcms = skip
      /\ p.channels_src = from /\ p.kind = "cms" /\ p.src = src
  BY <1>1, PlanRecordFields
<1> QED
  BY <1>2, Zenon DEF ootf, hlg, pre, post, skip, from

(* The encodings that the profiles of a plan describe.                      *)
FirstOf(src, dst) == IF T!Special(src, dst, dst.tf = "Linear") THEN T!Linear(src) ELSE src
LastOf(src, dst) ==
  IF T!Special(dst, FirstOf(src, dst), src.tf = "Linear" \/ FirstOf(src, dst) # src)
  THEN T!Linear(dst) ELSE dst

LEMMA PlanIs ==
  ASSUME NEW src, NEW dst, t = T!JxlCmsInit(src, dst)
  PROVE  /\ t.apply_hlg_ootf = T!AppliesOotf(src, dst)
         /\ t.hlg = IF src.tf = "HLG" THEN src ELSE dst
         /\ t.preprocess = IF FirstOf(src, dst) # src THEN src.tf ELSE "None"
         /\ t.postprocess = IF LastOf(src, dst) # dst THEN dst.tf ELSE "None"
         /\ t.profile_src = FirstOf(src, dst) /\ t.profile_dst = LastOf(src, dst)
         /\ t.skip_lcms = (T!SameColorEncoding(src, dst)
                           \/ T!SameColorEncoding(FirstOf(src, dst), LastOf(src, dst)))
         /\ t.channels_src = IF src.cmyk THEN 4 ELSE T!Channels(src)
         /\ t.kind = "cms" /\ t.src = src
<1>1. t = T!Plan(src, dst, FirstOf(src, dst), src.tf = "Linear" \/ FirstOf(src, dst) # src,
                 LastOf(src, dst))
  BY Zenon DEF T!JxlCmsInit, T!PlanFrom, T!PlanTo, FirstOf, LastOf
<1> QED
  BY <1>1, PlanFields

LEMMA EncodingType ==
  ASSUME NEW c, NEW Gray, NEW Cmyk, c \in [gray : Gray, space : Spaces, tf : Curves, cmyk : Cmyk]
  PROVE  /\ c = T!Encoding(c.gray, c.space, c.tf, c.cmyk)
         /\ c.gray \in Gray /\ c.tf \in Curves /\ c.cmyk \in Cmyk
BY DEF T!Encoding

LEMMA EncodingsAre ==
  ASSUME NEW c \in T!Encodings
  PROVE  \/ c = T!CMYK
         \/ c = T!Encoding(c.gray, c.space, c.tf, No) /\ c.cmyk = No
<1> DEFINE Described == [gray : BOOLEAN, space : Spaces, tf : Curves, cmyk : {FALSE}]
<1>1. c \in Described \cup {T!CMYK}
  BY DEF T!Encodings
<1>2. c \in Described => c = T!Encoding(c.gray, c.space, c.tf, No) /\ c.cmyk = No
  <2>1. \A x : x \in {FALSE} => x = No
    BY Zenon DEF No
  <2>2. c \in Described => c = T!Encoding(c.gray, c.space, c.tf, c.cmyk) /\ c.cmyk \in {FALSE}
    BY EncodingType, Zenon
  <2> QED
    BY <2>1, <2>2, Zenon
<1> HIDE DEF Described
<1>3. c \in Described \/ c = T!CMYK
  BY <1>1
<1> QED
  BY <1>2, <1>3, Zenon

LEMMA CMYKIs == T!CMYK = T!Encoding(No, "709", "Unknown", Yes)
BY Zenon DEF T!CMYK, No, Yes

LEMMA AnyEncoding == ASSUME NEW c \in T!Encodings PROVE \E g, s, f, k : c = T!Encoding(g, s, f, k)
BY EncodingsAre, CMYKIs

(* What can be converted.                                                   *)
Convertible(src, dst) ==
  /\ src \in T!Encodings /\ dst \in T!Encodings
  /\ ~dst.cmyk /\ dst.tf # "Unknown"

(* HLG on both sides stays light of the scene.                              *)
Between(src, dst) ==
  IF src.tf = "HLG" /\ dst.tf = "HLG" /\ ~T!NearUnity THEN "scene" ELSE "display"

LEMMA LitNumbers ==
  ASSUME NEW c, NEW y, NEW p, NEW l, NEW m, c.tf = "Linear", T!SameColorSpace(c, t.hlg)
  PROVE  T!Lit(Numbers(c, y, l, p), l, m) = Numbers(c, y, m, p)
<1> DEFINE v == Numbers(c, y, l, p)
<1>1. v.c = c /\ v.light = l /\ [v EXCEPT !.light = m] = Numbers(c, y, m, p)
  BY NumbersFields
<1> HIDE DEF v
<1>2. T!Lit(v, l, m) = Numbers(c, y, m, p)
  BY <1>1, Zenon DEF T!Lit
<1> QED
  BY <1>2 DEF v

LEMMA FirstStage ==
  ASSUME NEW src, NEW dst, t = T!JxlCmsInit(src, dst), src \in T!Encodings, NEW y, NEW p
  PROVE  T!BeforeTransform(Numbers(src, y, T!LightOf(src), p))
           = Numbers(FirstOf(src, dst), y, Between(src, dst), p)
<1>1. PICK g, s, f, k : src = T!Encoding(g, s, f, k)
  <2>1. src \in T!Encodings
    BY DEF Convertible
  <2> QED
    BY <2>1, AnyEncoding, Zenon
<1>2. src.tf = f /\ T!Linear(src) = T!Encoding(g, s, "Linear", k) /\ src.gray = g /\ src.space = s
      /\ T!Linear(src).tf = "Linear" /\ T!Linear(src).gray = g /\ T!Linear(src).space = s
  BY <1>1, EncodingFields DEF T!Linear
<1> DEFINE first == FirstOf(src, dst)
<1>3. t.apply_hlg_ootf <=> ~(src.tf = "HLG" <=> dst.tf = "HLG")
  <2>1. T!AppliesOotf(src, dst) <=> ~(src.tf = "HLG" <=> dst.tf = "HLG")
    BY DEF T!AppliesOotf
  <2>2. t.apply_hlg_ootf = T!AppliesOotf(src, dst)
    BY PlanIs, Zenon
  <2> QED
    BY <2>1, <2>2, Zenon
<1>4. t.preprocess = (IF first # src THEN src.tf ELSE "None") /\ (src.tf = "HLG" => t.hlg = src)
  BY PlanIs
<1>5. first # src => first = T!Linear(src) /\ src.tf \in {"PQ", "HLG", "SRGB"}
  BY DEF FirstOf, T!Special
<1>6. src.tf = "HLG" => first # src
  BY <1>2 DEF FirstOf, T!Special
<1> DEFINE v == Numbers(src, y, T!LightOf(src), p)
<1>7. CASE first = src
  <2>1. t.preprocess = "None" /\ src.tf # "HLG"
    BY <1>4, <1>6, <1>7
  <2>2. T!BeforeTransform(v) = v
    BY <2>1, Zenon DEF T!BeforeTransform
  <2>3. T!LightOf(src) = Between(src, dst)
    BY <2>1 DEF T!LightOf, Between
  <2> QED
    BY <2>2, <2>3, <1>7
<1>8. CASE first # src /\ src.tf # "HLG"
  <2>1. t.preprocess = f /\ f \notin {"None", "HLG"} /\ first = T!Linear(src)
    BY <1>2, <1>4, <1>5, <1>8
  <2>2. T!BeforeTransform(v) = T!Decoded(v, f)
    BY <2>1, Zenon DEF T!BeforeTransform
  <2>3. T!LightOf(src) = Between(src, dst)
    BY <1>8 DEF T!LightOf, Between
  <2>4. T!Decoded(v, f) = Numbers(T!Linear(src), y, T!LightOf(src), p)
    BY <1>1, Curved
  <2> QED
    BY <2>1, <2>2, <2>3, <2>4
<1>9. CASE first # src /\ src.tf = "HLG" /\ dst.tf = "HLG"
  <2>1. t.preprocess = "HLG" /\ f = "HLG" /\ first = T!Linear(src)
    BY <1>2, <1>4, <1>5, <1>9
  <2>2. T!BeforeTransform(v) = T!Decoded(v, f)
    BY <1>3, <1>9, <2>1, Zenon DEF T!BeforeTransform
  <2>3. T!LightOf(src) = Between(src, dst)
    BY <1>9 DEF T!LightOf, Between
  <2>4. T!Decoded(v, f) = Numbers(T!Linear(src), y, T!LightOf(src), p)
    BY <1>1, Curved
  <2> QED
    BY <2>1, <2>2, <2>3, <2>4
<1>10. CASE first # src /\ src.tf = "HLG" /\ dst.tf # "HLG"
  <2>1. t.preprocess = "HLG" /\ f = "HLG" /\ first = T!Linear(src) /\ t.hlg = src
    BY <1>2, <1>4, <1>5, <1>10
  <2>2. T!BeforeTransform(v) = T!ApplyHlgOotf(T!Decoded(v, f), TRUE)
    BY <1>3, <1>10, <2>1, Zenon DEF T!BeforeTransform
  <2>3. T!Decoded(v, f) = Numbers(T!Linear(src), y, T!LightOf(src), p)
    BY <1>1, Curved
  <2>4. Between(src, dst) = "display"
    BY <1>10 DEF Between
  <2>5. CASE T!NearUnity
    <3>1. T!LightOf(src) = "display"
      BY <2>5 DEF T!LightOf
    <3>2. T!BeforeTransform(v) = T!Decoded(v, f)
      BY <2>2, <2>5, Zenon DEF T!ApplyHlgOotf
    <3> QED
      BY <2>1, <2>3, <2>4, <3>1, <3>2
  <2>6. CASE ~T!NearUnity
    <3>1. T!LightOf(src) = "scene"
      BY <1>10, <2>6 DEF T!LightOf
    <3>2. T!BeforeTransform(v) = T!Lit(Numbers(T!Linear(src), y, "scene", p), "scene", "display")
      BY <2>2, <2>3, <2>6, <3>1, Zenon DEF T!ApplyHlgOotf
    <3>3. T!SameColorSpace(T!Linear(src), t.hlg)
      BY <1>2, <2>1 DEF T!SameColorSpace
    <3>4. T!Lit(Numbers(T!Linear(src), y, "scene", p), "scene", "display")
            = Numbers(T!Linear(src), y, "display", p)
      BY <1>2, <3>3, NumbersFields, LitNumbers
    <3> QED
      BY <2>1, <2>4, <3>2, <3>4
  <2> QED
    BY <2>5, <2>6
<1> QED
  BY <1>7, <1>8, <1>9, <1>10

LEMMA SecondStage ==
  ASSUME NEW src, NEW dst, t = T!JxlCmsInit(src, dst), Convertible(src, dst), NEW y, NEW l
  PROVE  T!Transform(T!InkPercent(Numbers(FirstOf(src, dst), y, l, No)))
           = Numbers(LastOf(src, dst), y, l, No)
<1> DEFINE first == FirstOf(src, dst)
<1> DEFINE last == LastOf(src, dst)
<1> DEFINE v == Numbers(first, y, l, No)
<1>1. /\ t.profile_src = first /\ t.profile_dst = last
      /\ t.channels_src = IF src.cmyk THEN 4 ELSE T!Channels(src)
  BY PlanIs
<1>2. t.skip_lcms <=> T!SameColorEncoding(src, dst) \/ T!SameColorEncoding(first, last)
  <2>1. t.skip_lcms = (T!SameColorEncoding(src, dst) \/ T!SameColorEncoding(first, last))
    BY PlanIs
  <2> QED
    BY <2>1, Zenon
<1>3. dst = T!Encoding(dst.gray, dst.space, dst.tf, No) /\ dst.cmyk = No /\ dst.tf # "Unknown"
  <2>1. T!CMYK.cmyk = Yes
    BY CMYKIs, EncodingFields
  <2>2. T!CMYK.cmyk
    BY <2>1, Zenon DEF Yes
  <2> QED
    BY <2>2, EncodingsAre, Zenon DEF Convertible
<1>4. ASSUME NEW p, NEW w, w = Numbers(first, y, l, p), t.profile_src.cmyk = p
      PROVE  T!cmsDoTransform(w) = Numbers(last, y, l, No)
  <2>1. w.c = first /\ w.percent = p
    BY <1>4, NumbersFields
  <2>2. T!cmsDoTransform(w) = [w EXCEPT !.c = last, !.percent = No]
    BY <1>1, <1>4, <2>1, Zenon DEF T!cmsDoTransform, No
  <2>3. [w EXCEPT !.c = last, !.percent = No] = Numbers(last, y, l, No)
    <3>1. [w EXCEPT !.c = last, !.percent = No] = [[w EXCEPT !.c = last] EXCEPT !.percent = No]
      BY Zenon
    <3>2. [w EXCEPT !.c = last] = Numbers(last, y, l, p)
      BY <1>4, NumbersFields
    <3>3. [Numbers(last, y, l, p) EXCEPT !.percent = No] = Numbers(last, y, l, No)
      BY NumbersFields
    <3> QED
      BY <3>1, <3>2, <3>3, Zenon
  <2> QED
    BY <2>2, <2>3, Zenon
<1>5. CASE src = T!CMYK
  <2>1. src.tf = "Unknown" /\ src.cmyk = Yes
    BY <1>5, CMYKIs, EncodingFields
  <2>2. first = src
    BY <2>1 DEF FirstOf, T!Special
  <2>3. last = dst \/ last = T!Linear(dst)
    BY DEF LastOf
  <2>4. T!Linear(dst).tf = "Linear"
    BY <1>3, EncodingFields DEF T!Linear
  <2>5. ~ T!SameColorEncoding(src, dst) /\ ~ T!SameColorEncoding(first, last)
    BY <1>3, <2>1, <2>2, <2>3, <2>4 DEF T!SameColorEncoding
  <2>6. t.channels_src = 4
    BY <1>1, <2>1, Zenon DEF Yes
  <2> DEFINE w == Numbers(first, y, l, Yes)
  <2>7. T!InkPercent(v) = w
    <3>1. v.percent = No
      BY NumbersFields
    <3>2. T!InkPercent(v) = [v EXCEPT !.percent = ~v.percent]
      BY <1>2, <2>5, <2>6, Zenon DEF T!InkPercent
    <3>3. (~v.percent) = Yes
      BY <3>1, NotNo, Zenon
    <3>4. [v EXCEPT !.percent = Yes] = w
      BY NumbersFields
    <3> QED
      BY <3>2, <3>3, <3>4, Zenon
  <2>8. t.profile_src.cmyk = Yes
    BY <1>1, <2>1, <2>2
  <2>9. T!cmsDoTransform(w) = Numbers(last, y, l, No)
    BY <1>4, <2>8
  <2>10. T!Transform(w) = T!cmsDoTransform(w)
    BY <1>2, <2>5, Zenon DEF T!Transform
  <2> QED
    BY <2>7, <2>9, <2>10, Zenon
<1>6. CASE src # T!CMYK
  <2>1. src = T!Encoding(src.gray, src.space, src.tf, No) /\ src.cmyk = No
    BY <1>6, EncodingsAre DEF Convertible
  <2>2. t.channels_src # 4
    <3>1. ~src.cmyk
      BY <2>1, Zenon DEF No
    <3> QED
      BY <1>1, <3>1 DEF T!Channels
  <2>3. T!InkPercent(v) = v
    BY <2>2, Zenon DEF T!InkPercent
  <2>4. /\ first = src \/ first = T!Linear(src)
        /\ last = dst \/ last = T!Linear(dst)
    BY DEF FirstOf, LastOf
  <2>5. /\ T!Linear(src) = T!Encoding(src.gray, src.space, "Linear", No)
        /\ T!Linear(dst) = T!Encoding(dst.gray, dst.space, "Linear", No)
    BY <1>3, <2>1, EncodingFields DEF T!Linear
  <2>6. /\ first = T!Encoding(first.gray, first.space, first.tf, No) /\ first.cmyk = No
        /\ last = T!Encoding(last.gray, last.space, last.tf, No)
    <3> HIDE DEF first, last
    <3> QED
      BY <1>3, <2>1, <2>4, <2>5, EncodingFields
  <2>7. T!SameColorEncoding(first, last) => first = last
    BY <2>6, Zenon DEF T!SameColorEncoding, T!SameColorSpace
  <2>8. T!SameColorEncoding(src, dst) => first = last
    <3>1. T!SameColorEncoding(src, dst) => src = dst
      BY <1>3, <2>1, Zenon DEF T!SameColorEncoding, T!SameColorSpace
    <3>2. src = dst => FirstOf(src, src) = LastOf(src, src)
      BY DEF FirstOf, LastOf, T!Special, T!SameColorSpace
    <3> QED
      BY <3>1, <3>2
  <2>9. CASE t.skip_lcms
    <3>1. T!Transform(v) = v
      BY <2>9, Zenon DEF T!Transform
    <3>2. first = last
      BY <1>2, <2>7, <2>8, <2>9, Zenon
    <3> QED
      BY <2>3, <3>1, <3>2, Zenon
  <2>10. CASE ~t.skip_lcms
    <3>1. T!Transform(v) = T!cmsDoTransform(v)
      BY <2>10, Zenon DEF T!Transform
    <3>2. t.profile_src.cmyk = No
      BY <1>1, <2>6
    <3>3. T!cmsDoTransform(v) = Numbers(last, y, l, No)
      BY <1>4, <3>2
    <3> QED
      BY <2>3, <3>1, <3>3, Zenon
  <2> QED
    BY <2>9, <2>10
<1> QED
  BY <1>5, <1>6

LEMMA ThirdStage ==
  ASSUME NEW src, NEW dst, t = T!JxlCmsInit(src, dst), Convertible(src, dst), NEW y, NEW p
  PROVE  T!AfterTransform(Numbers(LastOf(src, dst), y, Between(src, dst), p))
           = Numbers(dst, y, T!LightOf(dst), p)
<1>1. PICK g, s, f, k : dst = T!Encoding(g, s, f, k)
  <2>1. dst \in T!Encodings
    BY DEF Convertible
  <2> QED
    BY <2>1, AnyEncoding, Zenon
<1>2. dst.tf = f /\ T!Linear(dst) = T!Encoding(g, s, "Linear", k) /\ dst.gray = g /\ dst.space = s
      /\ T!Linear(dst).tf = "Linear" /\ T!Linear(dst).gray = g /\ T!Linear(dst).space = s
  BY <1>1, EncodingFields DEF T!Linear
<1> DEFINE last == LastOf(src, dst)
<1>3. t.apply_hlg_ootf <=> ~(src.tf = "HLG" <=> dst.tf = "HLG")
  <2>1. T!AppliesOotf(src, dst) <=> ~(src.tf = "HLG" <=> dst.tf = "HLG")
    BY DEF T!AppliesOotf
  <2>2. t.apply_hlg_ootf = T!AppliesOotf(src, dst)
    BY PlanIs, Zenon
  <2> QED
    BY <2>1, <2>2, Zenon
<1>4. t.postprocess = (IF last # dst THEN dst.tf ELSE "None") /\ (src.tf # "HLG" => t.hlg = dst)
  BY PlanIs
<1>5. last # dst => last = T!Linear(dst) /\ dst.tf \in {"PQ", "HLG", "SRGB"}
  BY DEF LastOf, T!Special
<1>6. dst.tf = "HLG" => last # dst
  BY <1>2 DEF LastOf, T!Special
<1> DEFINE v == Numbers(last, y, Between(src, dst), p)
<1>7. CASE last = dst
  <2>1. t.postprocess = "None" /\ dst.tf # "HLG"
    BY <1>4, <1>6, <1>7
  <2>2. T!AfterTransform(v) = v
    BY <2>1, Zenon DEF T!AfterTransform
  <2>3. T!LightOf(dst) = Between(src, dst)
    BY <2>1 DEF T!LightOf, Between
  <2> QED
    BY <2>2, <2>3, <1>7
<1>8. CASE last # dst /\ dst.tf # "HLG"
  <2>1. t.postprocess = f /\ f \notin {"None", "HLG"} /\ last = T!Linear(dst)
    BY <1>2, <1>4, <1>5, <1>8
  <2>2. T!AfterTransform(v) = T!Encoded(v, f)
    BY <2>1, Zenon DEF T!AfterTransform
  <2>3. T!LightOf(dst) = Between(src, dst)
    BY <1>8 DEF T!LightOf, Between
  <2>4. T!Encoded(v, f) = Numbers(dst, y, Between(src, dst), p)
    BY <1>1, <2>1, Curved
  <2> QED
    BY <2>2, <2>3, <2>4
<1>9. CASE last # dst /\ src.tf = "HLG" /\ dst.tf = "HLG"
  <2>1. t.postprocess = "HLG" /\ f = "HLG" /\ last = T!Linear(dst)
    BY <1>2, <1>4, <1>5, <1>9
  <2>2. T!AfterTransform(v) = T!Encoded(v, f)
    BY <1>3, <1>9, <2>1, Zenon DEF T!AfterTransform
  <2>3. T!LightOf(dst) = Between(src, dst)
    BY <1>9 DEF T!LightOf, Between
  <2>4. T!Encoded(v, f) = Numbers(dst, y, Between(src, dst), p)
    BY <1>1, <2>1, Curved
  <2> QED
    BY <2>2, <2>3, <2>4
<1>10. CASE last # dst /\ src.tf # "HLG" /\ dst.tf = "HLG"
  <2>1. t.postprocess = "HLG" /\ f = "HLG" /\ last = T!Linear(dst) /\ t.hlg = dst
    BY <1>2, <1>4, <1>5, <1>10
  <2>2. T!AfterTransform(v) = T!Encoded(T!ApplyHlgOotf(v, FALSE), f)
    BY <1>3, <1>10, <2>1, Zenon DEF T!AfterTransform
  <2>3. Between(src, dst) = "display"
    BY <1>10 DEF Between
  <2>4. T!ApplyHlgOotf(v, FALSE) = Numbers(T!Linear(dst), y, T!LightOf(dst), p)
    <3>1. CASE T!NearUnity
      <4>1. T!LightOf(dst) = "display"
        BY <3>1 DEF T!LightOf
      <4>2. T!ApplyHlgOotf(v, FALSE) = v
        BY <3>1, Zenon DEF T!ApplyHlgOotf
      <4> QED
        BY <2>1, <2>3, <4>1, <4>2
    <3>2. CASE ~T!NearUnity
      <4>1. T!LightOf(dst) = "scene"
        BY <1>10, <3>2 DEF T!LightOf
      <4>2. T!ApplyHlgOotf(v, FALSE) = T!Lit(v, "display", "scene")
        BY <3>2, Zenon DEF T!ApplyHlgOotf
      <4>3. T!SameColorSpace(T!Linear(dst), t.hlg)
        BY <1>2, <2>1 DEF T!SameColorSpace
      <4>4. T!Lit(Numbers(T!Linear(dst), y, "display", p), "display", "scene")
              = Numbers(T!Linear(dst), y, "scene", p)
        BY <1>2, <4>3, LitNumbers
      <4> QED
        BY <2>1, <2>3, <4>1, <4>2, <4>4
    <3> QED
      BY <3>1, <3>2
  <2>5. T!Encoded(Numbers(T!Linear(dst), y, T!LightOf(dst), p), f) = Numbers(dst, y, T!LightOf(dst), p)
    BY <1>1, Curved
  <2> QED
    BY <2>2, <2>4, <2>5
<1> QED
  BY <1>6, <1>7, <1>8, <1>9, <1>10

LEMMA RowConverted ==
  ASSUME NEW src, NEW dst, t = T!JxlCmsInit(src, dst), Convertible(src, dst), NEW y
  PROVE  T!DoColorSpaceTransform(T!Meaning(src, y)) = T!Meaning(dst, y)
<1>1. T!Meaning(src, y) = Numbers(src, y, T!LightOf(src), No)
      /\ T!Meaning(dst, y) = Numbers(dst, y, T!LightOf(dst), No)
  BY MeaningIs
<1>2. src \in T!Encodings
  BY DEF Convertible
<1> QED
  <2>1. T!BeforeTransform(Numbers(src, y, T!LightOf(src), No))
          = Numbers(FirstOf(src, dst), y, Between(src, dst), No)
    BY <1>2, FirstStage
  <2>2. T!Transform(T!InkPercent(Numbers(FirstOf(src, dst), y, Between(src, dst), No)))
          = Numbers(LastOf(src, dst), y, Between(src, dst), No)
    BY SecondStage
  <2>3. T!AfterTransform(Numbers(LastOf(src, dst), y, Between(src, dst), No))
          = Numbers(dst, y, T!LightOf(dst), No)
    BY ThirdStage
  <2> QED
    BY <1>1, <2>1, <2>2, <2>3, Zenon DEF T!DoColorSpaceTransform

-------------------------------------------------------------------------------
(* The state of a conversion.  A row that a thread holds is as it was.      *)
Means(c, y, intensity) ==
  Numbers(c, y, IF c.tf = "HLG" /\ intensity # 300 THEN "scene" ELSE "display", No)

LEMMA MeansIt == ASSUME NEW c, NEW y PROVE T!Meaning(c, y) = Means(c, y, target)
BY MeaningIs DEF Means, T!LightOf, T!NearUnity

AllMean(rows, c, intensity) == \A y \in 0 .. Rows - 1 : rows[y] = Means(c, y, intensity)
BlackMissing == c_current.cmyk /\ ~(metadataBlack /\ hasBlack)
Held(y) == \E th \in RowThread : step[th] # "free" /\ row[th] = y

AskedInv ==
  /\ c_current \in T!Encodings /\ desired \in T!Encodings
  /\ call \in {"TransformTo", "ToXYB"}
  /\ call = "ToXYB" => desired.tf = "Linear" /\ desired.space = "709" /\ ~desired.cmyk
  /\ ~desired.cmyk => desired.tf # "Unknown"

ThreadsInv ==
  /\ nextRow \in 0 .. Rows
  /\ step \in [RowThread -> {"free", "run", "copy"}]
  /\ row = [th \in RowThread |-> row[th]]
  /\ color = [y \in 0 .. Rows - 1 |-> color[y]]
  /\ buf_src = [th \in RowThread |-> buf_src[th]]
  /\ buf_dst = [th \in RowThread |-> buf_dst[th]]
  /\ \A th \in RowThread : step[th] # "free" => row[th] \in 0 .. nextRow - 1
  /\ \A th, u \in RowThread :
       step[th] # "free" /\ step[u] # "free" /\ row[th] = row[u] => th = u

RunningInv ==
  /\ Convertible(c_current, desired)
  /\ t = T!JxlCmsInit(c_current, desired)
  /\ BlackMissing =>
       /\ \A th \in RowThread : step[th] = "free"
       /\ AllMean(color, c_current, target)
       /\ nextRow > 0 => ~ok
  /\ ~BlackMissing =>
       /\ ok
       /\ \A y \in 0 .. Rows - 1 :
            color[y] = IF y < nextRow /\ ~Held(y) THEN Means(desired, y, target)
                       ELSE Means(c_current, y, target)
  /\ \A th \in RowThread :
       /\ step[th] = "run" /\ ~c_current.gray => buf_src[th] = Means(c_current, row[th], target)
       /\ step[th] = "copy" => buf_dst[th] = Means(desired, row[th], target)

RowsInv ==
  /\ AskedInv /\ ThreadsInv
  /\ rowStatus \in {"begin", "running", "done", "failed", "aborted"}
  /\ rowStatus = "begin" => /\ nextRow = 0 /\ ok /\ t = T!None
                            /\ \A th \in RowThread : step[th] = "free"
  /\ rowStatus = "running" => RunningInv
  /\ rowStatus # "running" => AllMean(color, c_current, target)
  /\ rowStatus = "failed" => t = T!None \/ BlackMissing
  /\ rowStatus = "aborted" => BlackMissing
  /\ rowStatus = "done" =>
       /\ call = "TransformTo" => c_current = desired
       /\ t # T!None /\ t.src.cmyk => hasBlack
       /\ call = "ToXYB" => xyb = c_current.tf /\ c_current.space = "709"

LEMMA RowsConstants == Rows \in Nat \ {0}
BY FoundationsAssumption DEF T!Assumptions

LEMMA RowsInit == T!Init => RowsInv
<1> SUFFICES ASSUME T!Init PROVE RowsInv
  OBVIOUS
<1>1. AskedInv
  <2>1. c_current \in T!Encodings /\ desired \in T!Encodings /\ call \in {"TransformTo", "ToXYB"}
    BY DEF T!Init
  <2>2. ~desired.cmyk => desired.tf # "Unknown"
    BY DEF T!Init
  <2>3. ASSUME call = "ToXYB" PROVE desired.tf = "Linear" /\ desired.space = "709" /\ ~desired.cmyk
    <3>1. desired = T!Encoding(c_current.gray, "709", "Linear", No)
      <4>1. desired = T!LinearSRGB(c_current.gray)
        BY <2>3 DEF T!Init
      <4> QED
        BY <4>1, Zenon DEF T!LinearSRGB, No
    <3>2. desired.tf = "Linear" /\ desired.space = "709" /\ desired.cmyk = No
      BY <3>1, EncodingFields
    <3> QED
      BY <3>2, NotNo, Zenon
  <2> QED
    BY <2>1, <2>2, <2>3 DEF AskedInv
<1>2. ThreadsInv
  BY RowsConstants DEF T!Init, ThreadsInv, T!NoRows
<1>3. AllMean(color, c_current, target)
  BY MeansIt DEF T!Init, AllMean
<1> QED
  BY <1>1, <1>2, <1>3 DEF T!Init, RowsInv

LEMMA RowsStep == RowsInv /\ [T!Next]_rowVars => RowsInv'
<1> SUFFICES ASSUME RowsInv, [T!Next]_rowVars PROVE RowsInv'
  OBVIOUS
<1> USE RowsConstants
<1>1. ASSUME c_current' = c_current, desired' = desired, call' = call PROVE AskedInv'
  BY <1>1 DEF RowsInv, AskedInv
<1>2. CASE T!ToXYBDirectly
  <2>1. ThreadsInv'
    BY <1>2 DEF T!ToXYBDirectly, T!Threads, RowsInv, ThreadsInv
  <2>2. AskedInv'
    BY <1>1, <1>2 DEF T!ToXYBDirectly, T!Asked
  <2>3. AllMean(color, c_current, target)'
    BY <1>2 DEF T!ToXYBDirectly, T!Asked, RowsInv, AllMean
  <2>4. xyb' = c_current.tf /\ c_current.space = "709"
    BY <1>2 DEF T!ToXYBDirectly, T!SameColorEncoding, T!SameColorSpace, T!IsSRGB, RowsInv, AskedInv
  <2> QED
    BY <1>2, <2>1, <2>2, <2>3, <2>4 DEF T!ToXYBDirectly, T!Asked, RowsInv
<1>3. CASE T!TransformRefused
  <2>1. ThreadsInv'
    BY <1>3 DEF T!TransformRefused, T!Threads, RowsInv, ThreadsInv
  <2>2. AskedInv'
    BY <1>1, <1>3 DEF T!TransformRefused, T!Asked
  <2>3. AllMean(color, c_current, target)'
    BY <1>3 DEF T!TransformRefused, T!Asked, RowsInv, AllMean
  <2> QED
    BY <1>3, <2>1, <2>2, <2>3 DEF T!TransformRefused, T!Asked, RowsInv
<1>4. CASE T!TransformInit
  <2>1. ThreadsInv'
    BY <1>4 DEF T!TransformInit, T!Threads, RowsInv, ThreadsInv
  <2>2. AskedInv'
    BY <1>1, <1>4 DEF T!TransformInit, T!Asked
  <2>3. Convertible(c_current, desired)'
    BY <1>4 DEF T!TransformInit, T!Asked, Convertible, RowsInv, AskedInv
  <2>4. t' = T!JxlCmsInit(c_current', desired')
    BY <1>4 DEF T!TransformInit, T!Asked
  <2>5. /\ nextRow' = 0 /\ ok' /\ color' = color /\ target' = target /\ c_current' = c_current
        /\ \A th \in RowThread : step'[th] = "free"
        /\ AllMean(color, c_current, target) /\ rowStatus' = "running"
    BY <1>4 DEF T!TransformInit, T!Asked, T!Threads, RowsInv
  <2>6. RunningInv'
    BY <2>3, <2>4, <2>5 DEF RunningInv, AllMean
  <2> QED
    BY <2>1, <2>2, <2>5, <2>6 DEF RowsInv
<1>5. ASSUME rowStatus = "running", rowStatus' = "running",
             AskedInv', ThreadsInv', RunningInv'
      PROVE  RowsInv'
  BY <1>5 DEF RowsInv
<1>6. ASSUME NEW th \in RowThread, T!Interleave(th) PROVE RowsInv'
  <2>1. /\ c_current' = c_current /\ desired' = desired /\ call' = call /\ target' = target
        /\ metadataBlack' = metadataBlack /\ hasBlack' = hasBlack /\ color' = color /\ t' = t
        /\ buf_dst' = buf_dst /\ (ok' <=> ok) /\ rowStatus' = "running" /\ rowStatus = "running"
        /\ buf_src' = [buf_src EXCEPT ![th] = color[nextRow]]
        /\ row' = [row EXCEPT ![th] = nextRow] /\ nextRow' = nextRow + 1
        /\ step' = [step EXCEPT ![th] = "run"] /\ step[th] = "free" /\ nextRow < Rows
        /\ ~BlackMissing
    BY <1>6 DEF T!Interleave, T!Asked, T!Buf, BlackMissing
  <2>2. AskedInv'
    BY <1>1, <2>1
  <2>3. ThreadsInv'
    <3>1. ThreadsInv
      BY DEF RowsInv
    <3>2. /\ \A u \in RowThread : row'[u] = IF u = th THEN nextRow ELSE row[u]
          /\ \A u \in RowThread : step'[u] = IF u = th THEN "run" ELSE step[u]
      BY <2>1, <3>1 DEF ThreadsInv
    <3>3. \A u \in RowThread : step[u] # "free" => row[u] \in Nat /\ row[u] < nextRow
      BY <3>1 DEF ThreadsInv
    <3>4. /\ nextRow' \in 0 .. Rows
          /\ step' \in [RowThread -> {"free", "run", "copy"}]
          /\ row' = [u \in RowThread |-> row'[u]]
          /\ color' = [y \in 0 .. Rows - 1 |-> color'[y]]
          /\ buf_src' = [u \in RowThread |-> buf_src'[u]]
          /\ buf_dst' = [u \in RowThread |-> buf_dst'[u]]
      <4>1. nextRow \in Nat /\ nextRow' = nextRow + 1 /\ nextRow < Rows
        BY <2>1, <3>1 DEF ThreadsInv
      <4>2. nextRow' \in 0 .. Rows
        BY <4>1
      <4>3. step' \in [RowThread -> {"free", "run", "copy"}]
        BY <2>1, <3>1 DEF ThreadsInv
      <4>4. row' = [u \in RowThread |-> row'[u]]
        BY <2>1, <3>1 DEF ThreadsInv
      <4>5. /\ color' = [y \in 0 .. Rows - 1 |-> color'[y]]
            /\ buf_src' = [u \in RowThread |-> buf_src'[u]]
            /\ buf_dst' = [u \in RowThread |-> buf_dst'[u]]
        BY <2>1, <3>1 DEF ThreadsInv
      <4> QED
        BY <4>2, <4>3, <4>4, <4>5
    <3>5. \A u \in RowThread : step'[u] # "free" => row'[u] \in 0 .. nextRow' - 1
      BY <2>1, <3>1, <3>2, <3>3 DEF ThreadsInv
    <3>6. \A u, v \in RowThread :
            step'[u] # "free" /\ step'[v] # "free" /\ row'[u] = row'[v] => u = v
      <4>1. \A u, v \in RowThread :
              step[u] # "free" /\ step[v] # "free" /\ row[u] = row[v] => u = v
        BY <3>1 DEF ThreadsInv
      <4>2. \A u \in RowThread : step[u] # "free" => row[u] # nextRow
        BY <3>1, <3>3 DEF ThreadsInv
      <4> QED
        BY <2>1, <3>2, <4>1, <4>2
    <3> QED
      BY <3>4, <3>5, <3>6 DEF ThreadsInv
  <2>4. RunningInv
    BY <2>1 DEF RowsInv
  <2>5. \A y \in 0 .. Rows - 1 : (y < nextRow' /\ ~Held(y)') <=> (y < nextRow /\ ~Held(y))
    BY <2>1 DEF Held, RowsInv, ThreadsInv
  <2>6. color[nextRow] = Means(c_current, nextRow, target)
    BY <2>1, <2>4 DEF RunningInv, RowsInv, ThreadsInv
  <2>7. RunningInv'
    <3>1. ~BlackMissing' /\ ok' /\ Convertible(c_current', desired') /\ t' = T!JxlCmsInit(c_current', desired')
      BY <2>1, <2>4 DEF RunningInv, BlackMissing
    <3>2. \A y \in 0 .. Rows - 1 :
            color'[y] = IF y < nextRow' /\ ~Held(y)' THEN Means(desired, y, target)
                        ELSE Means(c_current, y, target)
      BY <2>1, <2>4, <2>5 DEF RunningInv
    <3>3. \A u \in RowThread :
            /\ step'[u] = "run" /\ ~c_current.gray => buf_src'[u] = Means(c_current, row'[u], target)
            /\ step'[u] = "copy" => buf_dst'[u] = Means(desired, row'[u], target)
      BY <2>1, <2>4, <2>6 DEF RunningInv, RowsInv, ThreadsInv
    <3> QED
      BY <2>1, <3>1, <3>2, <3>3 DEF RunningInv
  <2> QED
    BY <1>5, <2>1, <2>2, <2>3, <2>7
<1>7. ASSUME NEW th \in RowThread, T!InterleaveFails(th) PROVE RowsInv'
  <2>1. /\ c_current' = c_current /\ desired' = desired /\ call' = call /\ target' = target
        /\ metadataBlack' = metadataBlack /\ hasBlack' = hasBlack /\ color' = color /\ t' = t
        /\ buf_dst' = buf_dst /\ ~ok' /\ rowStatus' = "running" /\ rowStatus = "running"
        /\ buf_src' = buf_src /\ row' = row /\ nextRow' = nextRow + 1
        /\ step' = step /\ nextRow < Rows /\ BlackMissing
    BY <1>7 DEF T!InterleaveFails, T!Asked, BlackMissing
  <2>2. AskedInv'
    BY <1>1, <2>1
  <2>3. ThreadsInv'
    BY <2>1 DEF RowsInv, ThreadsInv
  <2>4. RunningInv
    BY <2>1 DEF RowsInv
  <2>5. RunningInv'
    BY <2>1, <2>4 DEF RunningInv, BlackMissing, AllMean
  <2> QED
    BY <1>5, <2>1, <2>2, <2>3, <2>5
<1>8. ASSUME NEW th \in RowThread, T!BlackAborts(th) PROVE RowsInv'
  <2>1. /\ rowStatus = "running" /\ rowStatus' = "aborted" /\ BlackMissing /\ BlackMissing'
        /\ UNCHANGED <<c_current, desired, call, target, color>>
    BY <1>8 DEF T!BlackAborts, T!Asked, BlackMissing
  <2>2. ThreadsInv'
    BY <1>8 DEF T!BlackAborts, T!Threads, RowsInv, ThreadsInv
  <2>3. AskedInv'
    BY <1>1, <2>1
  <2>4. AllMean(color, c_current, target)'
    BY <2>1 DEF RowsInv, RunningInv, AllMean
  <2> QED
    BY <2>1, <2>2, <2>3, <2>4 DEF RowsInv
<1>9. ASSUME NEW th \in RowThread, T!RunRow(th) PROVE RowsInv'
  <2> DEFINE r == row[th]
  <2>1. /\ c_current' = c_current /\ desired' = desired /\ call' = call /\ target' = target
        /\ metadataBlack' = metadataBlack /\ hasBlack' = hasBlack /\ color' = color /\ t' = t
        /\ (ok' <=> ok) /\ rowStatus' = "running" /\ rowStatus = "running"
        /\ buf_src' = [buf_src EXCEPT ![th] = T!BeforeTransform(T!Source(th))]
        /\ buf_dst' = [buf_dst EXCEPT ![th] = T!DoColorSpaceTransform(T!Source(th))]
        /\ row' = row /\ nextRow' = nextRow
        /\ step' = [step EXCEPT ![th] = "copy"] /\ step[th] = "run"
    BY <1>9 DEF T!RunRow, T!Asked, T!Buf
  <2>2. AskedInv'
    BY <1>1, <2>1
  <2>3. ThreadsInv'
    BY <2>1 DEF RowsInv, ThreadsInv
  <2>4. RunningInv /\ ~BlackMissing
    BY <2>1 DEF RowsInv, RunningInv
  <2>5. Held(r) /\ r \in 0 .. Rows - 1
    BY <2>1 DEF Held, RowsInv, ThreadsInv
  <2>6. T!Source(th) = T!Meaning(c_current, r)
    <3>1. color[r] = Means(c_current, r, target)
      BY <2>4, <2>5 DEF RunningInv
    <3>2. ~c_current.gray => buf_src[th] = Means(c_current, r, target)
      BY <2>1, <2>4 DEF RunningInv
    <3> QED
      BY <3>1, <3>2, MeansIt DEF T!Source, T!Buf
  <2>7. T!DoColorSpaceTransform(T!Source(th)) = Means(desired, r, target)
    BY <2>4, <2>6, RowConverted, MeansIt DEF RunningInv
  <2>8. \A y \in 0 .. Rows - 1 : Held(y)' <=> Held(y)
    BY <2>1 DEF Held, RowsInv, ThreadsInv
  <2>9. RunningInv'
    <3>1. ~BlackMissing' /\ ok' /\ Convertible(c_current', desired') /\ t' = T!JxlCmsInit(c_current', desired')
      BY <2>1, <2>4 DEF RunningInv, BlackMissing
    <3>2. \A y \in 0 .. Rows - 1 :
            color'[y] = IF y < nextRow' /\ ~Held(y)' THEN Means(desired, y, target)
                        ELSE Means(c_current, y, target)
      BY <2>1, <2>4, <2>8 DEF RunningInv
    <3>3. \A u \in RowThread :
            /\ step'[u] = "run" /\ ~c_current.gray => buf_src'[u] = Means(c_current, row'[u], target)
            /\ step'[u] = "copy" => buf_dst'[u] = Means(desired, row'[u], target)
      BY <2>1, <2>4, <2>7 DEF RunningInv, RowsInv, ThreadsInv
    <3> QED
      BY <2>1, <3>1, <3>2, <3>3 DEF RunningInv
  <2> QED
    BY <1>5, <2>1, <2>2, <2>3, <2>9
<1>10. ASSUME NEW th \in RowThread, T!Deinterleave(th) PROVE RowsInv'
  <2> DEFINE r == row[th]
  <2>1. /\ c_current' = c_current /\ desired' = desired /\ call' = call /\ target' = target
        /\ metadataBlack' = metadataBlack /\ hasBlack' = hasBlack /\ t' = t
        /\ (ok' <=> ok) /\ rowStatus' = "running" /\ rowStatus = "running"
        /\ buf_src' = buf_src /\ buf_dst' = buf_dst /\ color' = [color EXCEPT ![r] = buf_dst[th]]
        /\ row' = row /\ nextRow' = nextRow
        /\ step' = [step EXCEPT ![th] = "free"] /\ step[th] = "copy"
    BY <1>10 DEF T!Deinterleave, T!Asked, T!Buf
  <2>2. AskedInv'
    BY <1>1, <2>1
  <2>3. ThreadsInv'
    BY <2>1 DEF RowsInv, ThreadsInv
  <2>4. RunningInv /\ ~BlackMissing
    BY <2>1 DEF RowsInv, RunningInv
  <2>5. r \in 0 .. nextRow - 1 /\ r \in 0 .. Rows - 1 /\ ~Held(r)'
    BY <2>1 DEF Held, RowsInv, ThreadsInv
  <2>6. \A y \in 0 .. Rows - 1 : y # r => (Held(y)' <=> Held(y))
    BY <2>1 DEF Held, RowsInv, ThreadsInv
  <2>7. buf_dst[th] = Means(desired, r, target)
    BY <2>1, <2>4 DEF RunningInv
  <2>8. \A y \in 0 .. Rows - 1 : color'[y] = IF y = r THEN Means(desired, r, target) ELSE color[y]
    BY <2>1, <2>7 DEF RowsInv, ThreadsInv
  <2>9. RunningInv'
    <3>1. ~BlackMissing' /\ ok' /\ Convertible(c_current', desired') /\ t' = T!JxlCmsInit(c_current', desired')
      BY <2>1, <2>4 DEF RunningInv, BlackMissing
    <3>2. \A y \in 0 .. Rows - 1 :
            color'[y] = IF y < nextRow' /\ ~Held(y)' THEN Means(desired, y, target)
                        ELSE Means(c_current, y, target)
      BY <2>1, <2>4, <2>5, <2>6, <2>8 DEF RunningInv, RowsInv, ThreadsInv
    <3>3. \A u \in RowThread :
            /\ step'[u] = "run" /\ ~c_current.gray => buf_src'[u] = Means(c_current, row'[u], target)
            /\ step'[u] = "copy" => buf_dst'[u] = Means(desired, row'[u], target)
      BY <2>1, <2>4 DEF RunningInv, RowsInv, ThreadsInv
    <3> QED
      BY <2>1, <3>1, <3>2, <3>3 DEF RunningInv
  <2> QED
    BY <1>5, <2>1, <2>2, <2>3, <2>9
<1>11. CASE T!Finish
  <2>1. /\ rowStatus = "running" /\ nextRow = Rows /\ \A th \in RowThread : step[th] = "free"
        /\ rowStatus' = IF ok THEN "done" ELSE "failed"
        /\ c_current' = IF ok THEN desired ELSE c_current
        /\ (ok /\ call = "ToXYB" => xyb' = "Linear")
        /\ UNCHANGED <<desired, call, target, metadataBlack, hasBlack, color, t>>
    BY <1>11 DEF T!Finish
  <2>2. RunningInv
    BY <2>1 DEF RowsInv
  <2>3. ThreadsInv'
    BY <1>11 DEF T!Finish, T!Threads, RowsInv, ThreadsInv
  <2>4. AskedInv'
    BY <2>1 DEF RowsInv, AskedInv
  <2>5. CASE ok
    <3>1. ~BlackMissing
      BY <2>1, <2>2, <2>5 DEF RunningInv
    <3>2. \A y \in 0 .. Rows - 1 : ~Held(y) /\ y < nextRow
      BY <2>1 DEF Held
    <3>3. AllMean(color, c_current, target)'
      BY <2>1, <2>2, <2>5, <3>1, <3>2 DEF RunningInv, AllMean
    <3>4. t.src = c_current
      BY <2>2, PlanIs DEF RunningInv
    <3>5. t.src.cmyk => hasBlack'
      BY <2>1, <3>1, <3>4 DEF BlackMissing
    <3>6. call = "ToXYB" => xyb' = desired.tf /\ desired.space = "709"
      BY <2>1, <2>5 DEF RowsInv, AskedInv
    <3> QED
      BY <2>1, <2>3, <2>4, <2>5, <3>3, <3>5, <3>6 DEF RowsInv
  <2>6. CASE ~ok
    <3>1. BlackMissing
      BY <2>2, <2>6 DEF RunningInv
    <3>2. AllMean(color, c_current, target)' /\ BlackMissing'
      BY <2>1, <2>2, <2>6, <3>1 DEF RunningInv, AllMean, BlackMissing
    <3> QED
      BY <2>1, <2>3, <2>4, <2>6, <3>2 DEF RowsInv
  <2> QED
    BY <2>5, <2>6
<1>12. CASE UNCHANGED rowVars
  <2>1. AskedInv' /\ ThreadsInv' /\ (RunningInv' <=> RunningInv)
        /\ (AllMean(color, c_current, target)' <=> AllMean(color, c_current, target))
        /\ (BlackMissing' <=> BlackMissing)
    BY <1>12 DEF rowVars, RowsInv, AskedInv, ThreadsInv, RunningInv, AllMean, BlackMissing, Held
  <2> QED
    BY <1>12, <2>1 DEF rowVars, RowsInv
<1> QED
  BY <1>2, <1>3, <1>4, <1>6, <1>7, <1>8, <1>9, <1>10, <1>11, <1>12 DEF T!Next

LEMMA RowsSound == RowsInv => T!ConversionExact
BY MeansIt DEF RowsInv, AllMean, BlackMissing, T!LacksBlack, T!ConversionExact

-------------------------------------------------------------------------------
(***************************************************************************)
(* ExternalImage: what a call is given.                                    *)
(***************************************************************************)
LEMMA RequestIs ==
  ASSUME NEW r \in X!RequestShape
  PROVE  /\ r.xsize \in Nat \ {0} /\ r.ysize \in Nat \ {0}
         /\ r.num_channels \in 1 .. 4 /\ r.orientation \in 1 .. 8
         /\ r.align \in Nat /\ r.slack \in Int /\ r.missing \in Nat
         /\ r.bits \in 1 .. 32
         /\ X!Width(r) \in Nat \ {0} /\ X!Height(r) \in Nat \ {0}
         /\ X!BytesOf(r.bits) \in 1 .. 4
         /\ X!Stored(r).bits = r.bits
<1>1. /\ r.xsize \in Nat \ {0} /\ r.ysize \in Nat \ {0}
      /\ r.num_channels \in 1 .. 4 /\ r.orientation \in 1 .. 8
      /\ r.align \in Nat /\ r.slack \in Int /\ r.missing \in Nat
      /\ r.bits \in 1 .. 32
  BY DEF X!RequestShape
<1>2. X!BytesOf(r.bits) \in 1 .. 4
  BY <1>1 DEF X!BytesOf, X!DivCeil
<1>3. X!Stored(r).bits = r.bits
  BY DEF X!Stored, X!Scale
<1>4. X!Width(r) \in Nat \ {0} /\ X!Height(r) \in Nat \ {0}
  BY <1>1 DEF X!Width, X!Height
<1> QED
  BY <1>1, <1>2, <1>3, <1>4

(* A sample is where an orientation says that it belongs.                   *)
LEMMA Oriented ==
  ASSUME NEW o \in 1 .. 8, NEW w \in Nat \ {0}, NEW h \in Nat \ {0},
         NEW q \in X!Positions(w, h), NEW p \in X!Positions(w, h)
  PROVE  X!Undone(o, w, h, p[1], p[2]) = X!Undone(o, w, h, q[1], q[2]) <=> p = q
<1>1. PICK y \in 0 .. h - 1, x \in 0 .. w - 1 : q = <<y, x>>
  BY DEF X!Positions
<1>2. PICK v \in 0 .. h - 1, u \in 0 .. w - 1 : p = <<v, u>>
  BY DEF X!Positions
<1>3. o = 1 \/ o = 2 \/ o = 3 \/ o = 4 \/ o = 5 \/ o = 6 \/ o = 7 \/ o = 8
  OBVIOUS
<1> QED
  BY <1>1, <1>2, <1>3 DEF X!Undone

LEMMA SeenIsUndone ==
  ASSUME NEW r \in X!RequestShape, NEW y \in X!Lines(r), NEW x \in 0 .. X!Width(r) - 1
  PROVE  /\ X!Seen(r, y, x) \in X!Positions(r.xsize, r.ysize)
         /\ X!Undone(r.orientation, r.xsize, r.ysize, X!Seen(r, y, x)[1], X!Seen(r, y, x)[2])
              = <<y, x>>
<1>1. /\ r.xsize \in Nat \ {0} /\ r.ysize \in Nat \ {0}
      /\ y \in 0 .. X!Height(r) - 1
  BY RequestIs DEF X!Lines
<1>2. ASSUME r.orientation = 1
      PROVE  /\ X!Seen(r, y, x) = <<y, x>>
             /\ y \in 0 .. r.ysize - 1 /\ x \in 0 .. r.xsize - 1
  BY <1>1, <1>2 DEF X!Seen, X!FirstRowAt, X!FirstColumnAt, X!Width, X!Height, X!Transposed
<1>3. ASSUME r.orientation = 2
      PROVE  /\ X!Seen(r, y, x) = <<y, r.xsize - 1 - x>>
             /\ y \in 0 .. r.ysize - 1 /\ x \in 0 .. r.xsize - 1
  BY <1>1, <1>3 DEF X!Seen, X!FirstRowAt, X!FirstColumnAt, X!Width, X!Height, X!Transposed
<1>4. ASSUME r.orientation = 3
      PROVE  /\ X!Seen(r, y, x) = <<r.ysize - 1 - y, r.xsize - 1 - x>>
             /\ y \in 0 .. r.ysize - 1 /\ x \in 0 .. r.xsize - 1
  BY <1>1, <1>4 DEF X!Seen, X!FirstRowAt, X!FirstColumnAt, X!Width, X!Height, X!Transposed
<1>5. ASSUME r.orientation = 4
      PROVE  /\ X!Seen(r, y, x) = <<r.ysize - 1 - y, x>>
             /\ y \in 0 .. r.ysize - 1 /\ x \in 0 .. r.xsize - 1
  BY <1>1, <1>5 DEF X!Seen, X!FirstRowAt, X!FirstColumnAt, X!Width, X!Height, X!Transposed
<1>6. ASSUME r.orientation = 5
      PROVE  /\ X!Seen(r, y, x) = <<x, y>>
             /\ y \in 0 .. r.xsize - 1 /\ x \in 0 .. r.ysize - 1
  BY <1>1, <1>6 DEF X!Seen, X!FirstRowAt, X!FirstColumnAt, X!Width, X!Height, X!Transposed
<1>7. ASSUME r.orientation = 6
      PROVE  /\ X!Seen(r, y, x) = <<r.ysize - 1 - x, y>>
             /\ y \in 0 .. r.xsize - 1 /\ x \in 0 .. r.ysize - 1
  BY <1>1, <1>7 DEF X!Seen, X!FirstRowAt, X!FirstColumnAt, X!Width, X!Height, X!Transposed
<1>8. ASSUME r.orientation = 7
      PROVE  /\ X!Seen(r, y, x) = <<r.ysize - 1 - x, r.xsize - 1 - y>>
             /\ y \in 0 .. r.xsize - 1 /\ x \in 0 .. r.ysize - 1
  BY <1>1, <1>8 DEF X!Seen, X!FirstRowAt, X!FirstColumnAt, X!Width, X!Height, X!Transposed
<1>9. ASSUME r.orientation = 8
      PROVE  /\ X!Seen(r, y, x) = <<x, r.xsize - 1 - y>>
             /\ y \in 0 .. r.xsize - 1 /\ x \in 0 .. r.ysize - 1
  BY <1>1, <1>9 DEF X!Seen, X!FirstRowAt, X!FirstColumnAt, X!Width, X!Height, X!Transposed
<1>10. \/ r.orientation = 1 \/ r.orientation = 2 \/ r.orientation = 3 \/ r.orientation = 4
       \/ r.orientation = 5 \/ r.orientation = 6 \/ r.orientation = 7 \/ r.orientation = 8
  BY RequestIs
<1> QED
  BY <1>1, <1>2, <1>3, <1>4, <1>5, <1>6, <1>7, <1>8, <1>9, <1>10 DEF X!Undone, X!Positions

LEMMA Reoriented ==
  ASSUME NEW r \in X!RequestShape, NEW plane,
         NEW y \in X!Lines(r), NEW x \in 0 .. X!Width(r) - 1
  PROVE  X!UndoOrientation(r.orientation, plane, r.xsize, r.ysize)[<<y, x>>]
           = plane[X!Seen(r, y, x)]
<1> DEFINE w == r.xsize
           h == r.ysize
           o == r.orientation
           size == IF X!Transposed(o) THEN <<h, w>> ELSE <<w, h>>
           from(p) == CHOOSE q \in X!Positions(w, h) : X!Undone(o, w, h, q[1], q[2]) = p
<1>1. w \in Nat \ {0} /\ h \in Nat \ {0} /\ o \in 1 .. 8
  BY RequestIs
<1>2. <<y, x>> \in X!Positions(size[1], size[2])
  BY DEF X!Positions, X!Lines, X!Width, X!Height
<1>3. X!UndoOrientation(o, plane, w, h)[<<y, x>>] = plane[from(<<y, x>>)]
  BY <1>2 DEF X!UndoOrientation
<1>4. PICK s \in X!Positions(w, h) :
        s = X!Seen(r, y, x) /\ X!Undone(o, w, h, s[1], s[2]) = <<y, x>>
  BY SeenIsUndone
<1>5. from(<<y, x>>) = s
  <2>1. \A q \in X!Positions(w, h) :
          X!Undone(o, w, h, q[1], q[2]) = <<y, x>> => q = s
    BY <1>1, <1>4, Oriented
  <2> QED
    BY <1>4, <2>1
<1> QED
  BY <1>3, <1>4, <1>5

(* What the planes hold before their orientation is undone.                 *)
LEMMA ChosenPlane ==
  ASSUME NEW r \in X!RequestShape, NEW k \in 1 .. r.num_channels,
         NEW p \in X!Positions(r.xsize, r.ysize)
  PROVE  X!Chosen(r)[k][p] =
           IF k <= X!ColorChannels(r)
           THEN <<k - 1, p[1], p[2],
                  IF r.premultiplied /\ ~(r.alpha /\ r.unpremul) THEN 1 ELSE 0>>
           ELSE IF r.alpha THEN <<3, p[1], p[2], 0>> ELSE X!One
<1>1. X!Chosen(r)[k] = IF k <= X!ColorChannels(r) THEN X!Color(r, k - 1) ELSE X!Alpha(r)
  BY DEF X!Chosen
<1>2. ASSUME NEW m PROVE /\ X!Plane(k - 1, r.xsize, r.ysize, m)[p] = <<k - 1, p[1], p[2], m>>
                         /\ p \in DOMAIN X!Plane(k - 1, r.xsize, r.ysize, m)
  BY DEF X!Plane
<1>3. CASE k <= X!ColorChannels(r)
  <2>1. CASE r.premultiplied /\ r.alpha /\ r.unpremul
    <3>1. X!Color(r, k - 1) = X!UnpremultiplyAlpha(X!Plane(k - 1, r.xsize, r.ysize, 1))
      BY <2>1 DEF X!Color
    <3>2. X!UnpremultiplyAlpha(X!Plane(k - 1, r.xsize, r.ysize, 1))[p]
            = [X!Plane(k - 1, r.xsize, r.ysize, 1)[p] EXCEPT ![4] = @ - 1]
      BY <1>2 DEF X!UnpremultiplyAlpha
    <3>3. ASSUME NEW a, NEW b, NEW c PROVE [<<a, b, c, 1>> EXCEPT ![4] = @ - 1] = <<a, b, c, 0>>
      OBVIOUS
    <3>4. X!Color(r, k - 1)[p] = <<k - 1, p[1], p[2], 0>>
      BY <1>2, <3>1, <3>2, <3>3
    <3> QED
      BY <1>1, <1>3, <2>1, <3>4
  <2>2. CASE ~(r.premultiplied /\ r.alpha /\ r.unpremul)
    <3>1. X!Color(r, k - 1) = X!Plane(k - 1, r.xsize, r.ysize, IF r.premultiplied THEN 1 ELSE 0)
      BY <2>2 DEF X!Color
    <3>2. (IF r.premultiplied THEN 1 ELSE 0)
            = (IF r.premultiplied /\ ~(r.alpha /\ r.unpremul) THEN 1 ELSE 0)
      BY <2>2
    <3> QED
      BY <1>1, <1>2, <1>3, <3>1, <3>2
  <2> QED
    BY <2>1, <2>2
<1>4. CASE ~(k <= X!ColorChannels(r))
  BY <1>1, <1>4 DEF X!Alpha, X!Plane
<1> QED
  BY <1>3, <1>4

(* What they hold afterwards is the picture as it is meant to be seen.      *)
LEMMA OrientedPlane ==
  ASSUME NEW r \in X!RequestShape, NEW k \in 1 .. r.num_channels,
         NEW y \in X!Lines(r), NEW x \in 0 .. X!Width(r) - 1
  PROVE  X!UndoOrientation(r.orientation, X!Chosen(r)[k], r.xsize, r.ysize)[<<y, x>>]
           = X!SeenSample(r, k, y, x)
<1>1. X!Seen(r, y, x) \in X!Positions(r.xsize, r.ysize)
  BY SeenIsUndone
<1>2. PICK plane : plane = X!Chosen(r)[k]
  OBVIOUS
<1>3. X!UndoOrientation(r.orientation, plane, r.xsize, r.ysize)[<<y, x>>]
        = plane[X!Seen(r, y, x)]
  BY Reoriented
<1>4. X!ColorChannels(r) \in Nat
  BY DEF X!ColorChannels
<1> QED
  BY <1>1, <1>2, <1>3, <1>4, ChosenPlane DEF X!SeenSample

(* Channels, and the rows of the cache, by their numbers.                   *)
LEMMA Interleaving ==
  ASSUME NEW n \in 1 .. 4, NEW w \in Nat, NEW k \in 0 .. (w * n) - 1
  PROVE  /\ k % n \in 0 .. n - 1
         /\ k \div n \in 0 .. w - 1
         /\ k = ((k \div n) * n) + (k % n)
<1>1. n = 1 \/ n = 2 \/ n = 3 \/ n = 4
  OBVIOUS
<1> QED
  BY <1>1

LEMMA Interleaved ==
  ASSUME NEW n \in 1 .. 4, NEW w \in Nat, NEW x \in 0 .. w - 1, NEW c \in 0 .. n - 1
  PROVE  /\ (x * n) + c \in 0 .. (w * n) - 1
         /\ ((x * n) + c) % n = c
         /\ ((x * n) + c) \div n = x
<1>1. n = 1 \/ n = 2 \/ n = 3 \/ n = 4
  OBVIOUS
<1> QED
  BY <1>1

LEMMA CacheRows ==
  ASSUME NEW n \in 1 .. 4, NEW m \in Nat \ {0},
         NEW th \in 0 .. m - 1, NEW u \in 0 .. m - 1, NEW c \in 0 .. n - 1
  PROVE  /\ c + (u * n) \in 0 .. (n * m) - 1
         /\ u = th => (c + (u * n)) - (0 + (th * n)) = c
         /\ u # th => (c + (u * n)) - (0 + (th * n)) \notin 0 .. n - 1
<1>1. n = 1 \/ n = 2 \/ n = 3 \/ n = 4
  OBVIOUS
<1> QED
  BY <1>1

(* Rows of the buffer do not overlap.                                       *)
LEMMA RowsApart ==
  ASSUME NEW s \in Nat, NEW y \in Nat, NEW v \in Nat, y < v
  PROVE  (s * y) + s <= s * v
<1>1. PICK d \in Nat : v = y + 1 + d
  <2>1. v - y - 1 \in Nat /\ v = y + 1 + (v - y - 1)
    OBVIOUS
  <2> QED
    BY <2>1
<1>2. s * v = (s * y) + s + (s * d)
  BY <1>1
<1>3. s * d \in Nat /\ s * y \in Nat
  OBVIOUS
<1> QED
  BY <1>2, <1>3

(* The samples of a row make up its bytes.                                  *)
SeenSamples(r, y) ==
  [k \in 0 .. (X!Width(r) * r.num_channels) - 1 |->
     X!SeenSample(r, (k % r.num_channels) + 1, y, k \div r.num_channels)]

LEMMA SeenRowIs ==
  ASSUME NEW r \in X!RequestShape, NEW y
  PROVE  /\ X!SeenRow(r, y) = X!StoreRow(SeenSamples(r, y), X!Width(r) * r.num_channels,
                                         X!Stored(r), X!Little(r))
         /\ DOMAIN X!SeenRow(r, y) = 1 .. X!RowBytes(r)
         /\ X!RowBytes(r) \in Nat \ {0}
<1>1. X!SeenRow(r, y) = X!StoreRow(SeenSamples(r, y), X!Width(r) * r.num_channels,
                                   X!Stored(r), X!Little(r))
  BY DEF X!SeenRow, SeenSamples
<1>2. DOMAIN X!SeenRow(r, y) = 1 .. X!RowBytes(r)
  BY <1>1, RequestIs DEF X!StoreRow, X!RowBytes
<1>3. ASSUME NEW a \in Nat \ {0}, NEW b \in Nat \ {0}, NEW c \in Nat \ {0}
      PROVE (a * b) * c \in Nat \ {0}
  <2>1. a * b \in Nat \ {0}
    OBVIOUS
  <2>2. PICK d \in Nat \ {0} : d = a * b
    BY <2>1
  <2>3. d * c \in Nat \ {0}
    OBVIOUS
  <2> QED
    BY <2>2, <2>3
<1>4. X!RowBytes(r) \in Nat \ {0}
  BY <1>3, RequestIs DEF X!RowBytes
<1> QED
  BY <1>1, <1>2, <1>4

-------------------------------------------------------------------------------
(***************************************************************************)
(* A row no thread has taken, or one that a thread holds, has not been      *)
(* delivered; a thread that holds one has its samples in its own rows of    *)
(* the cache.                                                               *)
(***************************************************************************)
Sent(y) == y \notin left /\ \A th \in X!Threads : task[th] # y

Pixel(planes, k, y, x) == planes[k][<<y, x>>]
PlanesInv ==
  \A k \in 1 .. request.num_channels, y \in X!Lines(request),
     x \in 0 .. X!Width(request) - 1 :
       Pixel(channels, k, y, x) = X!SeenSample(request, k, y, x)

Sampled(th) ==
  \A c \in 0 .. request.num_channels - 1, x \in 0 .. X!Width(request) - 1 :
    cache[c + (th * request.num_channels)][x] = X!SeenSample(request, c + 1, task[th], x)

CacheInv ==
  /\ DOMAIN cache = 0 .. (request.num_channels * NumThreads) - 1
  /\ \A th \in X!Threads : task[th] # -1 => task[th] \notin left /\ Sampled(th)
  /\ \A th, u \in X!Threads : task[th] # -1 /\ task[th] = task[u] => th = u

BufferInv ==
  /\ pixels = [k \in 1 .. X!OutSize(request) |-> pixels[k]]
  /\ \A y \in X!Lines(request), k \in 1 .. X!Stride(request) :
       (X!Stride(request) * y) + k \in DOMAIN pixels =>
         pixels[(X!Stride(request) * y) + k] =
           IF Sent(y) /\ k <= X!RowBytes(request) THEN X!SeenRow(request, y)[k] ELSE X!Unset

CallbackInv ==
  /\ DOMAIN delivered = X!Lines(request)
  /\ \A y \in X!Lines(request) :
       delivered[y] = IF Sent(y) THEN <<X!SeenRow(request, y)>> ELSE <<>>

ReadInv ==
  extPhase = "reread" =>
    /\ request.buffer
    /\ X!Stride(request) = X!Aligned(X!RowBytes(request), request.align)
    /\ reread = X!FromExternal(pixels, X!Width(request), X!Height(request),
                  X!ColorChannels(request), request.num_channels, X!Stored(request),
                  X!Little(request), request.align, request.alpha)

ExternalInv ==
  /\ request \in X!RequestShape
  /\ X!TypeOK
  /\ extPhase # "rows" => left = {} /\ \A th \in X!Threads : task[th] = -1
  /\ extPhase \in {"rows", "done", "reread"} =>
       /\ ~X!Refused(request)
       /\ PlanesInv /\ CacheInv
       /\ IF request.callback THEN CallbackInv ELSE BufferInv
  /\ ReadInv

LEMMA ExternalConstants ==
  /\ Requests \subseteq X!RequestShape /\ NumThreads \in Nat \ {0}
  /\ X!Threads = 0 .. NumThreads - 1 /\ X!Threads # {}
BY FoundationsAssumption DEF X!Assumptions, X!Threads

LEMMA ExternalInit == X!Init => ExternalInv
BY ExternalConstants DEF X!Init, ExternalInv, X!TypeOK, ReadInv

(* What the call is given, and what is refused of it.                       *)
LEMMA StrideIs ==
  ASSUME NEW r \in X!RequestShape, ~X!Refused(r)
  PROVE  /\ X!Stride(r) \in Nat \ {0} /\ X!RowBytes(r) <= X!Stride(r)
         /\ X!OutSize(r) \in Int
         /\ r.buffer = ~r.callback
         /\ ~r.callback => X!OutSize(r) >= ((X!Height(r) - 1) * X!Stride(r)) + X!RowBytes(r)
<1>1. X!RowBytes(r) \in Nat \ {0}
  BY SeenRowIs
<1>2. X!Stride(r) \in Int
  <2>1. \A size \in Int, align \in Nat : X!Aligned(size, align) \in Int
    BY DEF X!Aligned, X!DivCeil
  <2>2. X!BitsPerChannel(r.data_type) \in Nat
    BY DEF X!BitsPerChannel, X!RequestShape
  <2>3. X!Width(r) * ((X!BitsPerChannel(r.data_type) * r.num_channels) \div 8) \in Int
    BY <2>2, RequestIs
  <2>4. PICK size \in Int :
          size = X!Width(r) * ((X!BitsPerChannel(r.data_type) * r.num_channels) \div 8)
    BY <2>3
  <2>5. X!Stride(r) = X!Aligned(size, r.align) + r.slack
    BY <2>4 DEF X!Stride, X!CalcStride
  <2>6. PICK align \in Nat, slack \in Int : align = r.align /\ slack = r.slack
    BY RequestIs
  <2>7. X!Aligned(size, align) + slack \in Int
    BY <2>1
  <2> QED
    BY <2>5, <2>6, <2>7
<1>3. X!RowBytes(r) <= X!Stride(r)
  BY <1>1, <1>2 DEF X!Refused
<1>4. X!OutSize(r) \in Int
  BY <1>2, RequestIs DEF X!OutSize
<1>5. ~r.callback => X!OutSize(r) >= ((X!Height(r) - 1) * X!Stride(r)) + X!RowBytes(r)
  <2>1. (X!Height(r) - 1) * X!Stride(r) \in Int
    BY <1>2, RequestIs
  <2> QED
    BY <1>1, <1>4, <2>1 DEF X!Refused
<1>6. r.buffer = ~r.callback
  BY DEF X!Refused, X!RequestShape
<1> QED
  BY <1>1, <1>2, <1>3, <1>4, <1>5, <1>6

LEMMA BeginStep == ExternalInv /\ X!Begin => ExternalInv'
<1> SUFFICES ASSUME ExternalInv, X!Begin PROVE ExternalInv'
  OBVIOUS
<1>1. PICK r \in X!RequestShape : r = request /\ request' = r
  BY DEF ExternalInv, X!Begin
<1>2. /\ extPhase' = "rows" /\ task' = task /\ left' = X!Lines(r) /\ reread' = reread
      /\ ~X!Refused(r)
      /\ \A th \in X!Threads : task[th] = -1
  BY <1>1 DEF X!Begin, ExternalInv
<1>3. \A y \in X!Lines(r) : ~Sent(y)'
  BY <1>2 DEF Sent
<1>4. X!TypeOK'
  BY <1>1, <1>2 DEF ExternalInv, X!TypeOK
<1>5. PlanesInv'
  <2> SUFFICES ASSUME NEW k \in 1 .. r.num_channels, NEW y \in X!Lines(r),
                      NEW x \in 0 .. X!Width(r) - 1
               PROVE  Pixel(channels', k, y, x) = X!SeenSample(r, k, y, x)
    BY <1>1 DEF PlanesInv
  <2>1. channels'[k] = X!UndoOrientation(r.orientation, X!Chosen(r)[k], r.xsize, r.ysize)
    BY <1>1 DEF X!Begin
  <2> QED
    BY <2>1, OrientedPlane DEF Pixel
<1>6. CacheInv'
  <2>1. DOMAIN cache' = 0 .. (r.num_channels * NumThreads) - 1
    BY <1>1 DEF X!Begin
  <2> QED
    BY <1>1, <1>2, <2>1 DEF CacheInv
<1>7. CASE request.callback
  <2>1. delivered' = [y \in X!Lines(r) |-> <<>>]
    BY <1>1 DEF X!Begin
  <2>2. CallbackInv'
    BY <1>1, <1>3, <2>1 DEF CallbackInv
  <2> QED
    BY <1>1, <1>2, <1>4, <1>5, <1>6, <1>7, <2>2 DEF ExternalInv, ReadInv
<1>8. CASE ~request.callback
  <2>1. pixels' = [k \in 1 .. X!OutSize(r) |-> X!Unset]
    BY <1>1, <1>2, <1>8, StrideIs DEF X!Begin
  <2>2. BufferInv'
    BY <1>1, <1>3, <2>1 DEF BufferInv
  <2> QED
    BY <1>1, <1>2, <1>4, <1>5, <1>6, <1>8, <2>2 DEF ExternalInv, ReadInv
<1> QED
  BY <1>7, <1>8

LEMMA TakeRowStep ==
  ASSUME ExternalInv, NEW th \in X!Threads, X!TakeRow(th) PROVE ExternalInv'
<1>1. PICK r \in X!RequestShape : r = request /\ request' = r
  BY DEF ExternalInv, X!TakeRow
<1>2. PICK y \in left :
        /\ task' = [task EXCEPT ![th] = y]
        /\ left' = left \ {y}
        /\ cache' = [k \in DOMAIN cache |->
                       IF k - X!CacheRow(0, th) \in 0 .. r.num_channels - 1
                       THEN X!Row(channels[(k - X!CacheRow(0, th)) + 1], y)
                       ELSE cache[k]]
  BY <1>1 DEF X!TakeRow
<1>3. /\ extPhase = "rows" /\ extPhase' = "rows" /\ task[th] = -1
      /\ channels' = channels /\ pixels' = pixels /\ delivered' = delivered
      /\ reread' = reread
  BY DEF X!TakeRow
<1>4. /\ task \in [X!Threads -> X!Lines(r) \cup {-1}] /\ left \subseteq X!Lines(r)
      /\ ~X!Refused(r) /\ PlanesInv /\ CacheInv
      /\ IF r.callback THEN CallbackInv ELSE BufferInv
  BY <1>1, <1>3 DEF ExternalInv, X!TypeOK
<1>5. y \in X!Lines(r) /\ y # -1
  BY <1>4, RequestIs DEF X!Lines
<1>6. \A v \in X!Lines(r) : Sent(v)' = Sent(v)
  <2> SUFFICES ASSUME NEW v \in X!Lines(r) PROVE Sent(v)' <=> Sent(v)
    BY DEF Sent
  <2>1. v # -1
    BY RequestIs DEF X!Lines
  <2> QED
    BY <1>2, <1>3, <1>4, <2>1 DEF Sent
<1>7. X!TypeOK'
  BY <1>1, <1>2, <1>3, <1>4, <1>5 DEF X!TypeOK
<1>8. PlanesInv'
  BY <1>1, <1>3, <1>4 DEF PlanesInv
<1>9. CacheInv'
  <2>1. PICK n \in 1 .. 4, m \in Nat \ {0} :
          n = r.num_channels /\ m = NumThreads /\ X!Threads = 0 .. m - 1
    BY RequestIs, ExternalConstants
  <2>2. DOMAIN cache = 0 .. (r.num_channels * NumThreads) - 1
    BY <1>1, <1>4 DEF CacheInv
  <2>3. ASSUME NEW u \in X!Threads, NEW c \in 0 .. r.num_channels - 1
        PROVE  cache'[c + (u * r.num_channels)] =
                 IF u = th THEN X!Row(channels[c + 1], y)
                           ELSE cache[c + (u * r.num_channels)]
    <3>1. /\ c + (u * n) \in 0 .. (n * m) - 1
          /\ u = th => (c + (u * n)) - (0 + (th * n)) = c
          /\ u # th => (c + (u * n)) - (0 + (th * n)) \notin 0 .. n - 1
      <4>1. /\ n \in 1 .. 4 /\ m \in Nat \ {0} /\ c \in 0 .. n - 1
            /\ th \in 0 .. m - 1 /\ u \in 0 .. m - 1
        BY <2>1
      <4> QED
        BY ONLY <4>1, CacheRows
    <3>2. X!CacheRow(0, th) = 0 + (th * r.num_channels)
      BY <1>1 DEF X!CacheRow
    <3> QED
      BY <1>2, <2>1, <2>2, <3>1, <3>2
  <2>4. ASSUME NEW c \in 0 .. r.num_channels - 1, NEW x \in 0 .. X!Width(r) - 1
        PROVE  X!Row(channels[c + 1], y)[x] = X!SeenSample(r, c + 1, y, x)
    <3>1. c + 1 \in 1 .. r.num_channels
      BY <2>1
    <3>2. X!Row(channels[c + 1], y)[x] = channels[c + 1][<<y, x>>]
      BY <1>1 DEF X!Row
    <3> QED
      BY <1>1, <1>4, <1>5, <3>1, <3>2 DEF PlanesInv, Pixel
  <2>5. ASSUME NEW u \in X!Threads, task'[u] # -1 PROVE Sampled(u)'
    <3>1. CASE u = th
      <4>1. task'[u] = y
        BY <1>2, <1>4, <3>1
      <4>2. ASSUME NEW c \in 0 .. r.num_channels - 1, NEW x \in 0 .. X!Width(r) - 1
            PROVE  cache'[c + (u * r.num_channels)][x] = X!SeenSample(r, c + 1, y, x)
        BY <2>3, <2>4, <3>1
      <4> QED
        BY <1>1, <4>1, <4>2 DEF Sampled
    <3>2. CASE u # th
      <4>1. task'[u] = task[u]
        BY <1>2, <1>4, <3>2
      <4>2. Sampled(u)
        BY <1>4, <2>5, <4>1 DEF CacheInv
      <4> QED
        BY <1>1, <2>3, <3>2, <4>1, <4>2 DEF Sampled
    <3> QED
      BY <3>1, <3>2
  <2>6. DOMAIN cache' = DOMAIN cache
    BY <1>2
  <2> QED
    BY <1>1, <1>2, <1>4, <1>5, <2>2, <2>5, <2>6 DEF CacheInv
<1>10. IF r.callback THEN CallbackInv' ELSE BufferInv'
  BY <1>1, <1>3, <1>4, <1>6 DEF CallbackInv, BufferInv
<1> QED
  BY <1>1, <1>3, <1>4, <1>7, <1>8, <1>9, <1>10 DEF ExternalInv, ReadInv

(* The bytes a thread delivers are those of its row, whichever way its      *)
(* samples took.                                                            *)
LEMMA BytesOfRow ==
  ASSUME ExternalInv, NEW th \in X!Threads, extPhase = "rows", task[th] # -1
  PROVE  X!Interleaved(th) = X!SeenRow(request, task[th])
<1>0. PICK r \in X!RequestShape : r = request /\ \E y \in X!Lines(r) : y = task[th]
  BY DEF ExternalInv, X!TypeOK
<1>1. PICK y \in X!Lines(r) : y = task[th]
  BY <1>0
<1>2. PlanesInv /\ Sampled(th)
  BY DEF ExternalInv, CacheInv
<1>3. PICK n \in 1 .. 4, w \in Nat \ {0} : n = r.num_channels /\ w = X!Width(r)
  BY RequestIs
<1>4. ASSUME NEW k \in 0 .. (w * n) - 1
      PROVE  X!SampleRow(th, k % n)[k \div n] = SeenSamples(r, y)[k]
  <2>1. PICK c \in 0 .. n - 1, x \in 0 .. w - 1 : c = k % n /\ x = k \div n
    BY Interleaving
  <2>2. SeenSamples(r, y)[k] = X!SeenSample(r, c + 1, y, x)
    BY <1>3, <2>1 DEF SeenSamples
  <2>3. CASE r.data_type = "float"
    <3>1. X!SampleRow(th, c)[x] = Pixel(channels, c + 1, y, x)
      BY <1>0, <1>1, <1>3, <2>3 DEF X!SampleRow, X!Row, Pixel
    <3>2. c + 1 \in 1 .. n
      OBVIOUS
    <3> QED
      BY <1>0, <1>1, <1>2, <1>3, <2>1, <2>2, <3>1, <3>2 DEF PlanesInv
  <2>4. CASE r.data_type # "float"
    <3>1. X!SampleRow(th, c) = cache[c + (th * n)]
      BY <1>0, <1>1, <1>3, <2>4 DEF X!SampleRow, X!CacheRow
    <3> QED
      BY <1>0, <1>1, <1>2, <1>3, <2>1, <2>2, <3>1 DEF Sampled
  <2> QED
    BY <2>3, <2>4
<1>5. [k \in 0 .. (X!Width(request) * n) - 1 |-> X!SampleRow(th, k % n)[k \div n]]
        = SeenSamples(r, y)
  BY <1>0, <1>1, <1>3, <1>4 DEF SeenSamples
<1>6. X!Interleaved(th) = X!StoreRow(SeenSamples(r, y), w * n, X!Stored(r), X!Little(r))
  BY <1>0, <1>1, <1>3, <1>5 DEF X!Interleaved
<1> QED
  BY <1>0, <1>1, <1>3, <1>6, SeenRowIs

LEMMA EmitRowStep ==
  ASSUME ExternalInv, NEW th \in X!Threads, X!EmitRow(th) PROVE ExternalInv'
<1>0. PICK r \in X!RequestShape :
        r = request /\ request' = r /\ \E y \in X!Lines(r) : y = task[th]
  BY DEF ExternalInv, X!TypeOK, X!EmitRow
<1>1. PICK y \in X!Lines(r) : y = task[th]
  BY <1>0
<1>2. /\ extPhase = "rows" /\ extPhase' = "rows" /\ task[th] # -1
      /\ task' = [task EXCEPT ![th] = -1] /\ left' = left
      /\ channels' = channels /\ cache' = cache /\ reread' = reread
  BY DEF X!EmitRow
<1>3. /\ task \in [X!Threads -> X!Lines(r) \cup {-1}] /\ left \subseteq X!Lines(r)
      /\ ~X!Refused(r) /\ PlanesInv /\ CacheInv
      /\ IF r.callback THEN CallbackInv ELSE BufferInv
  BY <1>0, <1>1, <1>2 DEF ExternalInv, X!TypeOK
<1>4. PICK bytes : bytes = X!Interleaved(th) /\ bytes = X!SeenRow(r, y)
  BY <1>0, <1>1, <1>2, BytesOfRow
<1>5. ~Sent(y) /\ Sent(y)' /\ \A v \in X!Lines(r) : v # y => (Sent(v)' <=> Sent(v))
  <2>1. \A u \in X!Threads : task[u] = y => u = th
    BY <1>0, <1>1, <1>2, <1>3 DEF CacheInv
  <2>2. y \notin left
    BY <1>0, <1>1, <1>2, <1>3 DEF CacheInv
  <2>3. y # -1 /\ \A v \in X!Lines(r) : v # -1
    BY RequestIs DEF X!Lines
  <2> QED
    BY <1>0, <1>1, <1>2, <1>3, <2>1, <2>2, <2>3 DEF Sent
<1>6. X!TypeOK'
  BY <1>0, <1>1, <1>2, <1>3 DEF X!TypeOK
<1>7. PlanesInv'
  BY <1>0, <1>1, <1>2, <1>3 DEF PlanesInv
<1>8. CacheInv'
  <2>1. \A u \in X!Threads : task'[u] # -1 => u # th /\ task'[u] = task[u]
    BY <1>2, <1>3
  <2>2. ASSUME NEW u \in X!Threads, task'[u] # -1 PROVE task'[u] \notin left' /\ Sampled(u)'
    BY <1>0, <1>1, <1>2, <1>3, <2>1, <2>2 DEF CacheInv, Sampled
  <2> QED
    BY <1>0, <1>1, <1>2, <1>3, <2>1, <2>2 DEF CacheInv
<1>9. CASE r.callback
  <2>1. delivered' = [delivered EXCEPT ![y] = Append(@, bytes)]
    BY <1>0, <1>1, <1>4, <1>9 DEF X!EmitRow
  <2>2. delivered[y] = <<>>
    BY <1>0, <1>1, <1>3, <1>5, <1>9 DEF CallbackInv
  <2>3. Append(<<>>, bytes) = <<bytes>>
    OBVIOUS
  <2>4. DOMAIN delivered = X!Lines(r)
    BY <1>0, <1>1, <1>3, <1>9 DEF CallbackInv
  <2>5. ASSUME NEW v \in X!Lines(r)
        PROVE  delivered'[v] = IF Sent(v)' THEN <<X!SeenRow(r, v)>> ELSE <<>>
    <3>1. CASE v = y
      BY <1>4, <1>5, <2>1, <2>2, <2>3, <2>4, <3>1
    <3>2. CASE v # y
      <4>1. delivered'[v] = delivered[v]
        BY <2>1, <2>4, <3>2
      <4> QED
        BY <1>0, <1>1, <1>3, <1>5, <1>9, <3>2, <4>1 DEF CallbackInv
    <3> QED
      BY <3>1, <3>2
  <2>6. DOMAIN delivered' = X!Lines(r)
    BY <2>1, <2>4
  <2>7. CallbackInv'
    BY <1>0, <1>1, <2>5, <2>6 DEF CallbackInv
  <2> QED
    BY <1>0, <1>1, <1>2, <1>3, <1>6, <1>7, <1>8, <1>9, <2>7 DEF ExternalInv, ReadInv
<1>10. CASE ~r.callback
  <2>1. PICK s \in Nat \ {0}, b \in Nat \ {0} :
          s = X!Stride(r) /\ b = X!RowBytes(r) /\ b <= s /\ DOMAIN bytes = 1 .. b
    BY <1>3, <1>4, StrideIs, SeenRowIs
  <2>2. pixels' = [k \in DOMAIN pixels |->
                     IF k - (s * y) \in DOMAIN bytes THEN bytes[k - (s * y)] ELSE pixels[k]]
    BY <1>0, <1>1, <1>4, <1>10, <2>1 DEF X!EmitRow
  <2>3. DOMAIN pixels = 1 .. X!OutSize(r) /\ DOMAIN pixels' = DOMAIN pixels
    BY <1>0, <1>1, <1>3, <1>10, <2>2 DEF BufferInv
  <2>4. ASSUME NEW v \in X!Lines(r), NEW k \in 1 .. s, (s * v) + k \in DOMAIN pixels
        PROVE  pixels'[(s * v) + k] =
                 IF Sent(v)' /\ k <= b THEN X!SeenRow(r, v)[k] ELSE X!Unset
    <3>1. v \in Nat /\ y \in Nat /\ s * v \in Nat /\ s * y \in Nat
      BY RequestIs DEF X!Lines
    <3>2. pixels[(s * v) + k] = IF Sent(v) /\ k <= b THEN X!SeenRow(r, v)[k] ELSE X!Unset
      BY <1>0, <1>1, <1>3, <1>10, <2>1, <2>4 DEF BufferInv
    <3>3. pixels'[(s * v) + k] =
            IF ((s * v) + k) - (s * y) \in 1 .. b THEN bytes[((s * v) + k) - (s * y)]
                                                  ELSE pixels[(s * v) + k]
      BY <2>1, <2>2, <2>4
    <3>4. CASE v = y
      <4>1. ((s * v) + k) - (s * y) = k
        BY <3>1, <3>4
      <4> QED
        BY <1>4, <1>5, <2>1, <3>2, <3>3, <3>4, <4>1
    <3>5. CASE v # y
      <4>1. v < y => (s * v) + s <= s * y
        BY <3>1, RowsApart
      <4>2. y < v => (s * y) + s <= s * v
        BY <3>1, RowsApart
      <4>3. v < y \/ y < v
        BY <3>1, <3>5
      <4>4. PICK p \in Nat, q \in Nat : p = s * v /\ q = s * y
        BY <3>1
      <4>5. (p + k) - q \notin 1 .. b
        BY <2>1, <4>1, <4>2, <4>3, <4>4
      <4> QED
        BY <1>5, <3>2, <3>3, <3>5, <4>4, <4>5
    <3> QED
      BY <3>4, <3>5
  <2>5. pixels' = [k \in 1 .. X!OutSize(r) |-> pixels'[k]]
    BY <2>2, <2>3
  <2>6. BufferInv'
    <3>1. X!Stride(r) = s /\ X!RowBytes(r) = b /\ request' = r
      BY <1>0, <2>1
    <3>2. \A v \in X!Lines(r), k \in 1 .. s :
            (s * v) + k \in DOMAIN pixels' =>
              pixels'[(s * v) + k] =
                IF Sent(v)' /\ k <= b THEN X!SeenRow(r, v)[k] ELSE X!Unset
      BY <2>3, <2>4
    <3> QED
      BY <2>5, <3>1, <3>2 DEF BufferInv
  <2> QED
    BY <1>0, <1>1, <1>2, <1>3, <1>6, <1>7, <1>8, <1>10, <2>6 DEF ExternalInv, ReadInv
<1> QED
  BY <1>9, <1>10

LEMMA ExternalStep == ExternalInv /\ [X!Next]_externalVars => ExternalInv'
<1> SUFFICES ASSUME ExternalInv, [X!Next]_externalVars PROVE ExternalInv'
  OBVIOUS
<1>1. PICK r \in X!RequestShape : r = request /\ request' = r
  BY DEF ExternalInv, externalVars, X!Next, X!Refuse, X!Begin, X!Finish, X!ReadBack,
         X!TakeRow, X!EmitRow
<1>2. ASSUME NEW th \in X!Threads, X!TakeRow(th) \/ X!EmitRow(th) PROVE ExternalInv'
  BY <1>2, TakeRowStep, EmitRowStep
<1>3. ASSUME /\ task' = task /\ left' = left /\ channels' = channels /\ cache' = cache
             /\ pixels' = pixels /\ delivered' = delivered
      PROVE  /\ X!TypeOK /\ extPhase' \in {"begin", "rows", "done", "refused", "reread"}
                  => X!TypeOK'
             /\ PlanesInv => PlanesInv'
             /\ CacheInv => CacheInv'
             /\ CallbackInv => CallbackInv'
             /\ BufferInv => BufferInv'
  <2>1. \A y : Sent(y)' = Sent(y)
    BY <1>3 DEF Sent
  <2>2. \A th \in X!Threads : Sampled(th) => Sampled(th)'
    BY <1>1, <1>3 DEF Sampled
  <2>3. X!TypeOK /\ extPhase' \in {"begin", "rows", "done", "refused", "reread"} => X!TypeOK'
    BY <1>1, <1>3 DEF X!TypeOK
  <2>4. PlanesInv => PlanesInv'
    BY <1>1, <1>3 DEF PlanesInv
  <2>5. CacheInv => CacheInv'
    BY <1>1, <1>3, <2>2 DEF CacheInv
  <2>6. CallbackInv => CallbackInv'
    BY <1>1, <1>3, <2>1 DEF CallbackInv
  <2>7. BufferInv => BufferInv'
    BY <1>1, <1>3, <2>1 DEF BufferInv
  <2> QED
    BY <2>3, <2>4, <2>5, <2>6, <2>7
<1>4. CASE X!Refuse
  BY <1>1, <1>3, <1>4 DEF X!Refuse, ExternalInv, ReadInv
<1>5. CASE X!Begin
  BY <1>5, BeginStep
<1>6. CASE X!Finish
  BY <1>1, <1>3, <1>6 DEF X!Finish, ExternalInv, ReadInv
<1>7. CASE X!ReadBack
  <2>1. ReadInv'
    BY <1>1, <1>7 DEF X!ReadBack, ReadInv
  <2> QED
    BY <1>1, <1>3, <1>7, <2>1 DEF X!ReadBack, ExternalInv
<1>8. CASE UNCHANGED externalVars
  <2>1. ReadInv'
    BY <1>1, <1>8 DEF externalVars, ExternalInv, ReadInv
  <2>2. extPhase' = extPhase /\ extPhase \in {"begin", "rows", "done", "refused", "reread"}
    BY <1>8 DEF externalVars, ExternalInv, X!TypeOK
  <2> QED
    BY <1>1, <1>3, <1>8, <2>1, <2>2 DEF externalVars, ExternalInv
<1> QED
  BY <1>2, <1>4, <1>5, <1>6, <1>7, <1>8 DEF X!Next

(* Reading a row back gives its samples.                                    *)
LEMMA SamplesLoad ==
  ASSUME NEW sample, NEW scale, NEW little, X!BytesOf(scale.bits) \in 1 .. 4
  PROVE  X!LoadSample(X!StoreSample(sample, scale, little), scale, little) = sample
<1>1. X!StoreSample(sample, scale, little)[1].sample = sample
  BY DEF X!StoreSample
<1> QED
  BY <1>1 DEF X!LoadSample

LEMMA PartOfRow ==
  ASSUME NEW r \in X!RequestShape, NEW y \in X!Lines(r),
         NEW x \in 0 .. X!Width(r) - 1, NEW c \in 0 .. r.num_channels - 1,
         NEW n, n = X!BytesOf(r.bits), NEW b \in 1 .. n
  PROVE  /\ (((x * r.num_channels) + c) * n) + b \in 1 .. X!RowBytes(r)
         /\ X!SeenRow(r, y)[(((x * r.num_channels) + c) * n) + b]
              = X!StoreSample(X!SeenSample(r, c + 1, y, x), X!Stored(r), X!Little(r))[b]
<1>1. PICK m \in 1 .. 4, w \in Nat \ {0} : m = r.num_channels /\ w = X!Width(r)
  BY RequestIs
<1>2. n \in 1 .. 4 /\ X!Stored(r).bits = r.bits
  BY RequestIs
<1>3. PICK k \in 0 .. (w * m) - 1 :
        k = (x * m) + c /\ k % m = c /\ k \div m = x
  <2>1. m \in 1 .. 4 /\ w \in Nat /\ x \in 0 .. w - 1 /\ c \in 0 .. m - 1
    BY <1>1
  <2>2. /\ (x * m) + c \in 0 .. (w * m) - 1
        /\ ((x * m) + c) % m = c
        /\ ((x * m) + c) \div m = x
    BY ONLY <2>1, Interleaved
  <2> QED
    BY <2>2
<1>4. PICK size \in Nat : size = w * m
  BY <1>1
<1>5. /\ (k * n) + b \in 1 .. size * n
      /\ (((k * n) + b) - 1) \div n = k
      /\ (((k * n) + b) - 1) % n = b - 1
  <2>1. n = 1 \/ n = 2 \/ n = 3 \/ n = 4
    BY <1>2
  <2>2. k \in 0 .. size - 1
    BY <1>4
  <2> QED
    BY <2>1, <2>2
<1>6. SeenSamples(r, y)[k] = X!SeenSample(r, c + 1, y, x)
  BY <1>1, <1>3 DEF SeenSamples
<1>7. X!SeenRow(r, y)[(k * n) + b]
        = X!StoreSample(SeenSamples(r, y)[k], X!Stored(r), X!Little(r))[b]
  <2>1. X!SeenRow(r, y) = X!StoreRow(SeenSamples(r, y), size, X!Stored(r), X!Little(r))
    BY <1>1, <1>4, SeenRowIs
  <2>2. PICK samples, scale, little :
          samples = SeenSamples(r, y) /\ scale = X!Stored(r) /\ little = X!Little(r)
          /\ X!BytesOf(scale.bits) = n
    BY <1>2
  <2>3. X!StoreRow(samples, size, scale, little)[(k * n) + b]
          = X!StoreSample(samples[(((k * n) + b) - 1) \div n], scale, little)
              [((((k * n) + b) - 1) % n) + 1]
    BY <1>5, <2>2 DEF X!StoreRow
  <2>4. ((((k * n) + b) - 1) % n) + 1 = b
    BY <1>2, <1>5
  <2> QED
    BY <1>5, <2>1, <2>2, <2>3, <2>4
<1>8. X!RowBytes(r) = size * n
  BY <1>1, <1>4 DEF X!RowBytes
<1> QED
  BY <1>1, <1>3, <1>5, <1>6, <1>7, <1>8

(* A sample is found in the buffer where it was stored.                     *)
LEMMA SampleFound ==
  ASSUME ExternalInv, extPhase \in {"done", "reread"}, ~request.callback,
         NEW y \in X!Lines(request), NEW x \in 0 .. X!Width(request) - 1,
         NEW c \in 0 .. request.num_channels - 1,
         NEW n, n = X!BytesOf(request.bits),
         NEW first, first = (X!Stride(request) * y) + (((x * request.num_channels) + c) * n)
  PROVE  X!LoadSample(SubSeq(pixels, first + 1, first + n), X!Stored(request),
                      X!Little(request))
           = X!SeenSample(request, c + 1, y, x)
<1>1. PICK r \in X!RequestShape : r = request
  BY DEF ExternalInv
<1>2. n \in 1 .. 4 /\ X!Stored(r).bits = r.bits
  BY <1>1, RequestIs
<1>3. PICK s \in Nat \ {0}, size \in Nat \ {0}, length \in Int :
        /\ s = X!Stride(r) /\ size = X!RowBytes(r) /\ size <= s
        /\ length = X!OutSize(r) /\ length >= ((X!Height(r) - 1) * s) + size
  BY <1>1, StrideIs, SeenRowIs DEF ExternalInv
<1>4. BufferInv /\ Sent(y)
  BY <1>1, RequestIs DEF ExternalInv, Sent, X!Lines
<1>5. PICK at \in Nat : at = ((x * r.num_channels) + c) * n
  <2>1. ASSUME NEW a \in Nat, NEW m \in Nat, NEW d \in Nat PROVE ((a * m) + d) * n \in Nat
    <3>1. PICK k \in Nat : k = (a * m) + d
      OBVIOUS
    <3> QED
      BY <1>2, <3>1
  <2>2. x \in Nat /\ r.num_channels \in Nat /\ c \in Nat
    BY <1>1, RequestIs
  <2> QED
    BY <2>1, <2>2
<1>6. PICK base \in Nat : base = s * y /\ base + size <= length
  <2>1. y \in Nat /\ X!Height(r) \in Nat /\ y <= X!Height(r) - 1
    BY <1>1, RequestIs DEF X!Lines
  <2>2. PICK h \in Nat : h = X!Height(r) - 1
    BY <2>1
  <2>3. s * y <= h * s
    <3>1. PICK d \in Nat : h = y + d
      <4>1. h - y \in Nat /\ h = y + (h - y)
        BY <2>1, <2>2
      <4> QED
        BY <4>1
    <3>2. h * s = (s * y) + (s * d) /\ s * d \in Nat /\ s * y \in Nat
      BY <3>1, <2>1
    <3> QED
      BY <3>2
  <2>4. s * y \in Nat /\ h * s \in Nat
    BY <2>1
  <2> QED
    BY <1>3, <2>2, <2>3, <2>4
<1>7. first = base + at
  BY <1>1, <1>3, <1>5, <1>6
<1>8. ASSUME NEW b \in 1 .. n
      PROVE  /\ at + b \in 1 .. size
             /\ first + b \in 1 .. length
             /\ pixels[first + b] =
                  X!StoreSample(X!SeenSample(r, c + 1, y, x), X!Stored(r), X!Little(r))[b]
  <2>1. /\ at + b \in 1 .. size
        /\ X!SeenRow(r, y)[at + b] =
             X!StoreSample(X!SeenSample(r, c + 1, y, x), X!Stored(r), X!Little(r))[b]
    BY <1>1, <1>3, <1>5, PartOfRow
  <2>2. first + b \in 1 .. length
    BY <1>2, <1>3, <1>6, <1>7, <2>1
  <2>3. at + b \in 1 .. s
    BY <1>3, <2>1
  <2>4. (s * y) + (at + b) = first + b
    BY <1>6, <1>7
  <2>5. (s * y) + (at + b) \in DOMAIN pixels
    BY <1>1, <1>3, <1>4, <2>2, <2>4 DEF BufferInv
  <2>6. pixels[(s * y) + (at + b)] = X!SeenRow(r, y)[at + b]
    BY <1>1, <1>3, <1>4, <2>1, <2>3, <2>5 DEF BufferInv
  <2> QED
    BY <2>1, <2>2, <2>4, <2>6
<1>9. SubSeq(pixels, first + 1, first + n)
        = X!StoreSample(X!SeenSample(r, c + 1, y, x), X!Stored(r), X!Little(r))
  <2> DEFINE stored == X!StoreSample(X!SeenSample(r, c + 1, y, x), X!Stored(r), X!Little(r))
  <2> DEFINE part == SubSeq(pixels, first + 1, first + n)
  <2>1. stored = [b \in 1 .. n |-> stored[b]]
    BY <1>1, <1>2 DEF X!StoreSample
  <2> HIDE DEF stored
  <2>2. PICK V : V = {pixels[k] : k \in first + 1 .. first + n}
    OBVIOUS
  <2>3. first + 1 \in Int /\ first + n \in Int /\ first \in Nat
    BY <1>2, <1>7
  <2>4. \A k \in first + 1 .. first + n : pixels[k] \in V
    BY <2>2
  <2>5. /\ part \in Seq(V)
        /\ Len(part) = IF first + 1 <= first + n THEN (first + n) - (first + 1) + 1 ELSE 0
        /\ \A k \in 1 .. (first + n) - (first + 1) + 1 : part[k] = pixels[(first + 1) + k - 1]
    BY ONLY <2>3, <2>4, SubSeqProperties
  <2> HIDE DEF part
  <2>6. Len(part) = n
    BY <1>2, <2>3, <2>5
  <2>7. part = [b \in 1 .. n |-> part[b]]
    BY <2>5, <2>6, LenProperties
  <2>8. ASSUME NEW b \in 1 .. n PROVE part[b] = stored[b]
    <3>1. b \in 1 .. (first + n) - (first + 1) + 1 /\ (first + 1) + b - 1 = first + b
      BY <1>2, <2>3
    <3> QED
      BY ZenonT(30), <1>8, <2>5, <3>1 DEF stored
  <2> QED
    BY <2>1, <2>7, <2>8 DEF part, stored
<1>10. PICK scale, little, sample :
         /\ scale = X!Stored(r) /\ little = X!Little(r)
         /\ sample = X!SeenSample(r, c + 1, y, x)
         /\ X!BytesOf(scale.bits) \in 1 .. 4
  BY <1>1, <1>2
<1>11. X!LoadSample(X!StoreSample(sample, scale, little), scale, little) = sample
  BY <1>10, SamplesLoad
<1> QED
  BY <1>1, <1>9, <1>10, <1>11

(* Once every row has been sent, the buffer or the callback has them all.   *)
LEMMA AllDelivered == ExternalInv => X!RowsDelivered
<1> SUFFICES ASSUME ExternalInv, extPhase \in {"done", "reread"}, NEW y \in X!Lines(request)
             PROVE  IF request.callback THEN delivered[y] = <<X!SeenRow(request, y)>>
                                        ELSE X!Placed(y)
  BY DEF X!RowsDelivered
<1>1. PICK r \in X!RequestShape : r = request
  BY DEF ExternalInv
<1>2. ~X!Refused(r) /\ (IF r.callback THEN CallbackInv ELSE BufferInv)
  BY <1>1 DEF ExternalInv
<1>3. Sent(y)
  BY <1>1, RequestIs DEF ExternalInv, Sent, X!Lines
<1>4. CASE r.callback
  BY <1>1, <1>2, <1>3, <1>4 DEF CallbackInv
<1>5. CASE ~r.callback
  <2>1. PICK s \in Nat \ {0}, size \in Nat \ {0}, length \in Int :
          /\ s = X!Stride(r) /\ size = X!RowBytes(r) /\ size <= s
          /\ length = X!OutSize(r) /\ length >= ((X!Height(r) - 1) * s) + size
    BY <1>2, <1>5, StrideIs, SeenRowIs
  <2>2. BufferInv /\ DOMAIN pixels = 1 .. length
    BY <1>1, <1>2, <1>5, <2>1 DEF BufferInv
  <2>3. (s * y) + size \in DOMAIN pixels
    <3>1. PICK h \in Nat : h = X!Height(r) - 1 /\ y \in 0 .. h
      BY <1>1, RequestIs DEF X!Lines
    <3>2. PICK d \in Nat : h = y + d
      <4>1. h - y \in Nat /\ h = y + (h - y)
        BY <3>1
      <4> QED
        BY <4>1
    <3>3. h * s = (s * y) + (s * d) /\ s * d \in Nat /\ s * y \in Nat
      <4>1. y \in Nat /\ s \in Nat
        BY <3>1
      <4> QED
        BY <3>2, <4>1
    <3>4. PICK p \in Nat, q \in Nat : p = s * y /\ q = s * d
      BY <3>3
    <3>5. p + size \in 1 .. length
      BY <2>1, <3>1, <3>3, <3>4
    <3> QED
      BY <2>2, <3>4, <3>5
  <2>4. \A k \in 1 .. s :
          (s * y) + k \in DOMAIN pixels =>
            pixels[(s * y) + k] = IF k <= size THEN X!SeenRow(r, y)[k] ELSE X!Unset
    BY <1>1, <1>3, <2>1, <2>2 DEF BufferInv
  <2> QED
    BY <1>1, <1>5, <2>1, <2>3, <2>4 DEF X!Placed
<1> QED
  BY <1>4, <1>5

(* A plane as the reader finds it in rows that are s bytes apart, and the   *)
(* planes it returns unless a check fails.                                  *)
LoadedPlane(r, s, c) ==
  [p \in X!Positions(X!Width(r), X!Height(r)) |->
     LET n == X!BytesOf(X!Stored(r).bits)
         first == (s * p[1]) + (((p[2] * r.num_channels) + c) * n)
     IN  X!LoadSample(SubSeq(pixels, first + 1, first + n), X!Stored(r), X!Little(r))]
LoadedColor(r, s, c) ==
  IF X!ColorChannels(r) = 1 THEN LoadedPlane(r, s, 0) ELSE LoadedPlane(r, s, c)
LoadedAlpha(r, s) ==
  IF X!HasAlphaChannel(r.num_channels) THEN LoadedPlane(r, s, r.num_channels - 1)
  ELSE [p \in X!Positions(X!Width(r), X!Height(r)) |-> X!One]

LEMMA PlaneFound ==
  ASSUME ExternalInv, extPhase = "reread", NEW c \in 0 .. request.num_channels - 1
  PROVE  /\ DOMAIN LoadedPlane(request, X!Stride(request), c)
              = X!Positions(X!Width(request), X!Height(request))
         /\ \A p \in X!Positions(X!Width(request), X!Height(request)) :
              LoadedPlane(request, X!Stride(request), c)[p]
                = X!SeenSample(request, c + 1, p[1], p[2])
<1>1. PICK r \in X!RequestShape : r = request
  BY DEF ExternalInv
<1>2. ~r.callback /\ X!Stored(r).bits = r.bits
  BY <1>1, StrideIs, RequestIs DEF ExternalInv, ReadInv
<1>3. ASSUME NEW y \in X!Lines(r), NEW x \in 0 .. X!Width(r) - 1,
             NEW p, p = <<y, x>>
      PROVE  LoadedPlane(r, X!Stride(r), c)[p] = X!SeenSample(r, c + 1, y, x)
  <2>1. p \in X!Positions(X!Width(r), X!Height(r)) /\ p[1] = y /\ p[2] = x
    BY <1>3 DEF X!Positions, X!Lines
  <2>2. PICK n, first :
          /\ n = X!BytesOf(r.bits)
          /\ first = (X!Stride(r) * y) + (((x * r.num_channels) + c) * X!BytesOf(r.bits))
    OBVIOUS
  <2>3. X!LoadSample(SubSeq(pixels, first + 1, first + n), X!Stored(r), X!Little(r))
          = X!SeenSample(r, c + 1, y, x)
    BY <1>1, <1>2, <2>2, SampleFound
  <2>4. LoadedPlane(r, X!Stride(r), c)[p]
          = X!LoadSample(SubSeq(pixels, first + 1, first + n), X!Stored(r), X!Little(r))
    BY <1>2, <2>1, <2>2 DEF LoadedPlane
  <2> QED
    BY <2>3, <2>4
<1>4. ASSUME NEW p \in X!Positions(X!Width(r), X!Height(r))
      PROVE  LoadedPlane(r, X!Stride(r), c)[p] = X!SeenSample(r, c + 1, p[1], p[2])
  <2>1. PICK y \in X!Lines(r), x \in 0 .. X!Width(r) - 1 : p = <<y, x>>
    BY <1>4 DEF X!Positions, X!Lines
  <2> QED
    BY <1>3, <2>1
<1>5. DOMAIN LoadedPlane(r, X!Stride(r), c) = X!Positions(X!Width(r), X!Height(r))
  BY DEF LoadedPlane
<1> QED
  BY <1>1, <1>4, <1>5

LEMMA ReadPlanes ==
  ASSUME ExternalInv, extPhase = "reread"
  PROVE  reread = <<LoadedColor(request, X!Stride(request), 0),
                    LoadedColor(request, X!Stride(request), 1),
                    LoadedColor(request, X!Stride(request), 2)>>
                    \o (IF request.alpha
                        THEN <<LoadedAlpha(request, X!Stride(request))>> ELSE <<>>)
<1>1. PICK r \in X!RequestShape : r = request
  BY DEF ExternalInv
<1>2. ~X!Refused(r) /\ ~r.callback /\ BufferInv
  BY <1>1, StrideIs DEF ExternalInv, ReadInv
<1>3. PICK s \in Nat \ {0}, size \in Nat \ {0}, length \in Int, w \in Nat \ {0},
           h \in Nat \ {0}, n \in 1 .. 4, missing \in Nat :
        /\ s = X!Stride(r) /\ size = X!RowBytes(r) /\ length = X!OutSize(r)
        /\ w = X!Width(r) /\ h = X!Height(r) /\ n = r.num_channels /\ missing = r.missing
        /\ length >= ((h - 1) * s) + size
  BY <1>2, StrideIs, SeenRowIs, RequestIs
<1>4. s = X!Aligned((w * n) * X!BytesOf(X!Stored(r).bits), r.align)
      /\ size = (w * n) * X!BytesOf(X!Stored(r).bits)
  <2>1. size = (w * n) * X!BytesOf(X!Stored(r).bits)
    BY <1>3, RequestIs DEF X!RowBytes
  <2>2. s = X!Aligned(size, r.align)
    BY <1>1, <1>3 DEF ExternalInv, ReadInv
  <2> QED
    BY <2>1, <2>2
<1>5. Len(pixels) = length /\ length = (s * h) - missing
  <2>1. length = (s * h) - missing
    BY <1>3 DEF X!OutSize
  <2>2. (h - 1) * s \in Nat
    BY <1>3
  <2>3. length \in Nat
    BY <1>3, <2>2
  <2>4. pixels = [k \in 1 .. length |-> pixels[k]]
    BY <1>1, <1>2, <1>3 DEF BufferInv
  <2>5. PICK V : V = {pixels[k] : k \in 1 .. length}
    OBVIOUS
  <2>6. pixels \in Seq(V)
    BY <2>3, <2>4, <2>5, SeqDef
  <2>7. Len(pixels) = length
    BY <2>3, <2>4, <2>6, LenProperties
  <2> QED
    BY <2>1, <2>7
<1>6. ~(Len(pixels) < (s * (h - 1)) + size) /\ ~(Len(pixels) > s * h)
  <2>1. PICK p \in Int, q \in Int :
          p = s * (h - 1) /\ q = s * h /\ length >= p + size /\ length = q - missing
    <3>1. s * (h - 1) = (h - 1) * s /\ s * (h - 1) \in Int /\ s * h \in Int
      BY <1>3
    <3> QED
      BY <1>3, <1>5, <3>1
  <2>2. ~(length < p + size) /\ ~(length > q)
    BY <1>3, <2>1
  <2> QED
    BY <1>5, <2>1, <2>2
<1>7. ~(n < X!ColorChannels(r)) /\ w # 0 /\ h # 0
  BY <1>3 DEF X!ColorChannels
<1>8. reread = X!FromExternal(pixels, w, h, X!ColorChannels(r), n, X!Stored(r),
                              X!Little(r), r.align, r.alpha)
  BY <1>1, <1>3 DEF ExternalInv, ReadInv
<1>9. reread = <<LoadedColor(r, s, 0), LoadedColor(r, s, 1), LoadedColor(r, s, 2)>>
                 \o (IF r.alpha THEN <<LoadedAlpha(r, s)>> ELSE <<>>)
  BY <1>3, <1>4, <1>6, <1>7, <1>8
  DEF X!FromExternal, LoadedColor, LoadedAlpha, LoadedPlane
<1> QED
  BY <1>1, <1>3, <1>9

LEMMA PlanesInTurn ==
  ASSUME NEW a, NEW b, NEW c, NEW d
  PROVE  /\ Len(<<a, b, c>> \o <<d>>) = 4
         /\ (<<a, b, c>> \o <<d>>)[1] = a /\ (<<a, b, c>> \o <<d>>)[2] = b
         /\ (<<a, b, c>> \o <<d>>)[3] = c /\ (<<a, b, c>> \o <<d>>)[4] = d
         /\ Len(<<a, b, c>> \o <<>>) = 3
         /\ (<<a, b, c>> \o <<>>)[1] = a /\ (<<a, b, c>> \o <<>>)[2] = b
         /\ (<<a, b, c>> \o <<>>)[3] = c
OBVIOUS

LEMMA AllReadBack == ExternalInv => X!ReadBackExact
<1> SUFFICES ASSUME ExternalInv, extPhase = "reread"
             PROVE  /\ Len(reread) = IF request.alpha THEN 4 ELSE 3
                    /\ \A p \in DOMAIN reread[1] :
                         /\ \A c \in 1 .. 3 :
                              reread[c][p] = X!SeenSample(request,
                                               IF X!ColorChannels(request) = 1 THEN 1 ELSE c,
                                               p[1], p[2])
                         /\ request.alpha =>
                              reread[4][p] = IF X!WantAlpha(request)
                                             THEN X!SeenSample(request, request.num_channels,
                                                               p[1], p[2])
                                             ELSE X!One
  BY DEF X!ReadBackExact
<1>1. PICK r \in X!RequestShape : r = request
  BY DEF ExternalInv
<1>2. PICK s, P : s = X!Stride(r) /\ P = X!Positions(X!Width(r), X!Height(r))
  OBVIOUS
<1>3. ASSUME NEW c \in 0 .. r.num_channels - 1
      PROVE  /\ DOMAIN LoadedPlane(r, s, c) = P
             /\ \A p \in P : LoadedPlane(r, s, c)[p] = X!SeenSample(r, c + 1, p[1], p[2])
  BY <1>1, <1>2, PlaneFound
<1>4. PICK n \in 1 .. 4 : n = r.num_channels
  BY RequestIs
<1>5. ASSUME NEW c \in 0 .. 2
      PROVE  /\ DOMAIN LoadedColor(r, s, c) = P
             /\ \A p \in P : LoadedColor(r, s, c)[p]
                  = X!SeenSample(r, IF X!ColorChannels(r) = 1 THEN 1 ELSE c + 1, p[1], p[2])
  <2>1. CASE X!ColorChannels(r) = 1
    <3>1. 0 \in 0 .. r.num_channels - 1 /\ 0 + 1 = 1
      BY <1>4
    <3> QED
      BY <1>3, <2>1, <3>1 DEF LoadedColor
  <2>2. CASE X!ColorChannels(r) # 1
    <3>1. c \in 0 .. r.num_channels - 1
      BY <1>4, <2>2 DEF X!ColorChannels
    <3> QED
      BY <1>3, <2>2, <3>1 DEF LoadedColor
  <2> QED
    BY <2>1, <2>2
<1>6. \A p \in P : LoadedAlpha(r, s)[p] = IF X!WantAlpha(r)
                                          THEN X!SeenSample(r, n, p[1], p[2]) ELSE X!One
  <2>1. X!WantAlpha(r) <=> X!HasAlphaChannel(r.num_channels)
    BY DEF X!WantAlpha, X!HasAlphaChannel
  <2>2. n - 1 \in 0 .. r.num_channels - 1 /\ (n - 1) + 1 = n
    BY <1>4
  <2>3. \A p \in P : LoadedPlane(r, s, n - 1)[p] = X!SeenSample(r, n, p[1], p[2])
    BY <1>3, <2>2
  <2> QED
    BY <1>2, <1>4, <2>1, <2>3 DEF LoadedAlpha
<1>7. PICK red, green, blue, alpha :
        /\ red = LoadedColor(r, s, 0) /\ green = LoadedColor(r, s, 1)
        /\ blue = LoadedColor(r, s, 2) /\ alpha = LoadedAlpha(r, s)
  OBVIOUS
<1>8. reread = <<red, green, blue>> \o (IF r.alpha THEN <<alpha>> ELSE <<>>)
  BY <1>1, <1>2, <1>7, ReadPlanes
<1>9. /\ Len(reread) = IF r.alpha THEN 4 ELSE 3
      /\ reread[1] = red /\ reread[2] = green /\ reread[3] = blue
      /\ r.alpha => reread[4] = alpha
  <2>1. CASE r.alpha
    <3>1. reread = <<red, green, blue>> \o <<alpha>>
      BY <1>8, <2>1
    <3> QED
      BY <2>1, <3>1, PlanesInTurn
  <2>2. CASE ~r.alpha
    <3>1. reread = <<red, green, blue>> \o <<>>
      BY <1>8, <2>2
    <3> QED
      BY <2>2, <3>1, PlanesInTurn
  <2> QED
    BY <2>1, <2>2
<1>10. ASSUME NEW p \in P, NEW c \in 1 .. 3
       PROVE  reread[c][p]
                = X!SeenSample(r, IF X!ColorChannels(r) = 1 THEN 1 ELSE c, p[1], p[2])
  <2>1. reread[c] = LoadedColor(r, s, c - 1)
    <3>1. c = 1 \/ c = 2 \/ c = 3
      OBVIOUS
    <3> QED
      BY <1>7, <1>9, <3>1
  <2>2. c - 1 \in 0 .. 2 /\ (c - 1) + 1 = c
    OBVIOUS
  <2> QED
    BY <1>5, <2>1, <2>2
<1>11. DOMAIN reread[1] = P
  <2>1. 0 \in 0 .. 2
    OBVIOUS
  <2> QED
    BY <1>5, <1>7, <1>9, <2>1
<1> QED
  BY <1>1, <1>4, <1>6, <1>7, <1>9, <1>10, <1>11

LEMMA ExternalSound == ExternalInv => X!TypeOK /\ X!RowsDelivered /\ X!ReadBackExact
BY AllDelivered, AllReadBack DEF ExternalInv
===============================================================================
