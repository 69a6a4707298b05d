------------------------------ MODULE Program ------------------------------
(***************************************************************************)
(* The two front ends of the metric: the command line tool                  *)
(* (src/ssimulacra2_main.cc) and the C API (src/ssimulacra2_c_api.cc), with  *)
(* the way they load two pictures, check them, run the metric once or twice *)
(* and report a score or an error.                                          *)
(*                                                                          *)
(* Decoding is an outcome: a picture is missing, cannot be decoded, makes a *)
(* decoder throw, or yields a CodecInOut with a canvas size and frames.  A   *)
(* frame may be smaller than the canvas (the GIF and APNG decoders keep the *)
(* layers of an animation apart), and its color encoding may be one that    *)
(* the color management cannot convert to linear sRGB (ColorTransform).     *)
(***************************************************************************)
EXTENDS Metric

CONSTANTS Pictures,    \* the pictures a call may be given
          Backgrounds, \* legal values of bg_intensity besides the built-in ones
          MaxCalls     \* calls made in one behaviour, on the same two pictures

ASSUME ConstantsAssumption == Assumptions

(* What a decoder yields: a picture it accepts has a frame.                 *)
ASSUME PicturesAssumption ==
  /\ Pictures \subseteq
       [status : {"ok", "missing", "undecodable", "throws"}, w : Nat, h : Nat,
        frames : Seq([w : Nat, h : Nat, duration : Nat]), alpha : BOOLEAN,
        convertible : BOOLEAN]
  /\ \A p \in Pictures : p.status = "ok" => p.frames # <<>>

VARIABLES ppc,         \* control point of the running call
          call,        \* its entry point and background
          files,       \* the two pictures of this behaviour
          io1, io2,    \* the decoded pictures
          pending,     \* backgrounds still to be scored
          scored,      \* one Msssim per background scored
          log          \* the calls that returned, with what they reported

programVars == <<ppc, call, files, io1, io2, pending, scored, log>>
vars == <<metricVars, programVars>>

Plain == {"cli", "files", "memory"}
WithBackground == {"files_bg", "memory_bg"}
Entry == Plain \cup WithBackground
FromMemory == {"memory", "memory_bg"}

OutOfRange == "out_of_range"

-----------------------------------------------------------------------------
(* CodecInOut: the size is that of the canvas; Main() is the first frame    *)
(* with a duration, or the last frame.                                      *)
LastStillFrame(io) ==
  LET shown == {i \in DOMAIN io.frames : io.frames[i].duration > 0}
  IN  IF shown = {} THEN Len(io.frames)
                    ELSE CHOOSE i \in shown : \A j \in shown : i <= j

Main(io, src) ==
  LET frame == io.frames[LastStillFrame(io)]
  IN  [src |-> src, w |-> frame.w, h |-> frame.h, alpha |-> io.alpha,
       convertible |-> io.convertible]

CanvasTooSmall(io) == io.w < MinSide \/ io.h < MinSide

(* What loading a picture reports, for each way of loading one.             *)
LoadImageFromFile(f) ==
  CASE f.status \in {"missing", "undecodable"} -> "FILE_NOT_FOUND"
    [] f.status = "throws" -> "UNKNOWN"
    [] f.status = "ok" -> IF CanvasTooSmall(f) THEN "TOO_SMALL" ELSE "OK"

LoadImageFromMemory(f) ==
  CASE f.status \in {"undecodable", "throws"} -> "DECODE_FAILED"
    [] f.status = "ok" -> IF CanvasTooSmall(f) THEN "TOO_SMALL" ELSE "OK"

\* The loader used by the memory entry points forgets the minimum size.
LoadImage_M(entry, f) ==
  IF entry \in FromMemory /\ f.status = "ok" THEN "OK"
  ELSE IF entry \in FromMemory THEN LoadImageFromMemory(f)
  ELSE LoadImageFromFile(f)
LoadImage(entry, f) == IF entry \in FromMemory THEN LoadImageFromMemory(f)
                                               ELSE LoadImageFromFile(f)
(* The argument checks.  The caller of a memory entry point whose picture   *)
(* is missing has no data to pass.                                          *)
InvalidInput(entry, bg) ==
  \/ bg = OutOfRange
  \/ entry \in FromMemory /\ \E i \in 1 .. 2 : files[i].status = "missing"

-----------------------------------------------------------------------------
Report(result, kind, passes) ==
  /\ log' = Append(log, [entry |-> call.entry, bg |-> call.bg,
                         result |-> result, kind |-> kind, passes |-> passes])
  /\ ppc' = "idle"
  /\ call' = Unused
  /\ io1' = Unused
  /\ io2' = Unused
  /\ pending' = <<>>
  /\ scored' = <<>>

(* Every error of the C API returns -1.0; the tool prints nothing on stdout *)
(* and exits with 1.                                                        *)
Fail(code) == Report(IF call.entry = "cli" THEN "exit1" ELSE code,
                     "no_score", <<>>)

(* abort(), std::terminate.                                                 *)
Die == ppc' = "dead" /\ UNCHANGED <<call, io1, io2, pending, scored, log>>

-----------------------------------------------------------------------------
Init ==
  /\ MetricIdle
  /\ files \in Pictures \X Pictures
  /\ ppc = "idle"
  /\ call = Unused
  /\ io1 = Unused
  /\ io2 = Unused
  /\ pending = <<>>
  /\ scored = <<>>
  /\ log = <<>>

Begin(entry, bg) ==
  /\ ppc = "idle"
  /\ Len(log) < MaxCalls
  /\ call' = [entry |-> entry, bg |-> bg]
  /\ ppc' = "check"
  /\ UNCHANGED <<metricVars, files, io1, io2, pending, scored, log>>

CheckArguments ==
  /\ ppc = "check"
  /\ \/ InvalidInput(call.entry, call.bg) /\ Fail("INVALID_INPUT")
     \/ /\ ~InvalidInput(call.entry, call.bg)
        /\ ppc' = "load1"
        /\ UNCHANGED <<call, io1, io2, pending, scored, log>>
  /\ UNCHANGED <<metricVars, files>>

(* SetFromFile in the tool: an exception is not caught, and only the size   *)
(* of the original is checked.                                              *)
LoadByTool(i, next) ==
  \/ files[i].status = "throws" /\ Die
  \/ files[i].status \in {"missing", "undecodable"} /\ Fail("exit1")
  \/ /\ files[i].status = "ok"
     /\ \/ i = 1 /\ CanvasTooSmall(files[i]) /\ Fail("exit1")
        \/ (i = 1 => ~CanvasTooSmall(files[i])) /\ next

LoadByApi(i, next) ==
  LET result == LoadImage(call.entry, files[i])
  IN  \/ result # "OK" /\ Fail(result)
      \/ result = "OK" /\ next

Load(i, next) ==
  /\ IF call.entry = "cli" THEN LoadByTool(i, next) ELSE LoadByApi(i, next)
  /\ UNCHANGED <<metricVars, files>>

LoadOriginal ==
  /\ ppc = "load1"
  /\ Load(1, /\ io1' = files[1]
             /\ ppc' = "load2"
             /\ UNCHANGED <<call, io2, pending, scored, log>>)

LoadDistorted ==
  /\ ppc = "load2"
  /\ Load(2, /\ io2' = files[2]
             /\ ppc' = "compare"
             /\ UNCHANGED <<call, io1, pending, scored, log>>)

(* The size comparison, and the choice of the backgrounds to score.         *)
\* The second pass repeats the first.
PassesFor_M(io) == IF io.alpha THEN <<"0.1", "0.1">> ELSE <<"0.5">>
PassesFor(io) == IF io.alpha THEN <<"0.1", "0.9">> ELSE <<"0.5">>

CompareSizes ==
  /\ ppc = "compare"
  /\ \/ Size(io1) # Size(io2) /\ Fail("SIZE_MISMATCH")
     \/ /\ Size(io1) = Size(io2)
        /\ pending' = IF call.entry \in Plain THEN PassesFor(io1)
                                              ELSE <<call.bg>>
        /\ ppc' = "score"
        /\ UNCHANGED <<call, io1, io2, scored, log>>
  /\ UNCHANGED <<metricVars, files>>

StartPass ==
  /\ ppc = "score"
  /\ pending # <<>>
  /\ Compute(Main(io1, "orig"), Main(io2, "dist"), Head(pending))
  /\ ppc' = "computing"
  /\ UNCHANGED <<call, files, io1, io2, pending, scored, log>>

ComputeStep ==
  /\ ppc = "computing"
  /\ MetricStep
  /\ UNCHANGED programVars

FinishPass ==
  /\ ppc = "computing"
  /\ mpc = "done"
  /\ scored' = Append(scored, [bg |-> Head(pending), scales |-> scales])
  /\ pending' = Tail(pending)
  /\ ppc' = "score"
  /\ Release
  /\ UNCHANGED <<call, files, io1, io2, log>>

(* A failed check inside the metric aborts the process, in the library too. *)
AbortInMetric ==
  /\ ppc = "computing"
  /\ mpc = "aborted"
  /\ Die
  /\ UNCHANGED <<metricVars, files>>

(* Score, and the minimum over the passes.                                  *)
ReturnScore ==
  /\ ppc = "score"
  /\ pending = <<>>
  /\ Report(IF call.entry = "cli" THEN "exit0" ELSE "OK", "score", scored)
  /\ UNCHANGED <<metricVars, files>>

Next ==
  \/ \E e \in Plain : Begin(e, NoBackground)
  \/ \E e \in WithBackground, bg \in Backgrounds \cup {OutOfRange} :
       Begin(e, bg)
  \/ CheckArguments \/ LoadOriginal \/ LoadDistorted \/ CompareSizes
  \/ StartPass \/ ComputeStep \/ FinishPass \/ AbortInMetric \/ ReturnScore

Spec == Init /\ [][Next]_vars

-----------------------------------------------------------------------------
TypeOK ==
  /\ ppc \in {"idle", "check", "load1", "load2", "compare", "score",
              "computing", "dead"}
  /\ mpc \in {"idle", "loop", "sigma1", "sigma2", "sigma12", "mu1", "mu2",
              "maps", "done", "aborted"}
  /\ files \in Pictures \X Pictures
  /\ call # Unused => /\ call.entry \in Entry
                      /\ call.bg \in Backgrounds \cup {NoBackground, OutOfRange}
  /\ \A i \in 1 .. 2 : <<io1, io2>>[i] \in {Unused} \cup Pictures
  /\ scale \in 0 .. NumScales
  /\ Len(scales) = scale
  /\ Len(pending) <= 2
  /\ Len(log) <= MaxCalls

(* The tool and the C API, from files or from memory, agree on every pair   *)
(* of pictures: whether there is a score, and from which comparisons it is  *)
(* made.  They perform their checks in different orders and on different    *)
(* pictures (ssimulacra2_main.cc:85-114, ssimulacra2_c_api.cc:82-205).      *)
EntryPointsAgree ==
  \A i, j \in DOMAIN log :
    {log[i].entry, log[j].entry} \subseteq Plain =>
      log[i].kind = log[j].kind /\ log[i].passes = log[j].passes

(* A score is only ever reported for two main frames of the same size.  The *)
(* front ends compare canvases; that the frames agree is left to a check    *)
(* inside ToXYB (ssimulacra2_main.cc:100, enc_xyb.cc:209).                  *)
ScoreComparesEqualFrames ==
  \A i \in DOMAIN log :
    log[i].kind = "score" =>
      Size(Main(files[1], "orig")) = Size(Main(files[2], "dist"))

(* A score uses all six scales, so that its sub-scores meet the weights     *)
(* they were tuned for, exactly when both sides of the main frame are at    *)
(* least 113 = 7 * 16 + 1: the consequence of halving with rounding up and  *)
(* of testing the size before each halving (ssimulacra2.cc:46-48, 451-459). *)
PowerOfTwo(n) ==
  LET power[i \in 0 .. NumScales] == IF i = 0 THEN 1 ELSE 2 * power[i - 1]
  IN  power[n]
FullScaleThreshold == ((MinSide - 1) * PowerOfTwo(NumScales - 2)) + 1
FullScoreFromThreshold ==
  \A i \in DOMAIN log : \A k \in DOMAIN log[i].passes :
    LET main == Main(files[1], "orig")
    IN  Len(log[i].passes[k].scales) = NumScales
          <=> main.w >= FullScaleThreshold /\ main.h >= FullScaleThreshold

(* A scale with the bright background wherever it has the dark one.         *)
Bright(data) == [data EXCEPT !.bg = IF data.bg = "0.1" THEN "0.9" ELSE data.bg]
Brightened(s) ==
  [ssim |-> [area |-> s.ssim.area,
             m1 |-> Bright(s.ssim.m1), m2 |-> Bright(s.ssim.m2),
             s11 |-> <<Bright(s.ssim.s11[1]), Bright(s.ssim.s11[2])>>,
             s22 |-> <<Bright(s.ssim.s22[1]), Bright(s.ssim.s22[2])>>,
             s12 |-> <<Bright(s.ssim.s12[1]), Bright(s.ssim.s12[2])>>],
   edge |-> [area |-> s.edge.area,
             img1 |-> Bright(s.edge.img1), mu1 |-> Bright(s.edge.mu1),
             img2 |-> Bright(s.edge.img2), mu2 |-> Bright(s.edge.mu2)]]

(* A picture with transparency is scored on the dark and on the bright      *)
(* background with the same pair of frames, and each pass starts from       *)
(* untouched pictures: the second pass is the first, scale by scale and     *)
(* operand by operand, with the bright background put for the dark one.  A  *)
(* distorted picture without transparency is the same in both               *)
(* (ssimulacra2_main.cc:108-114, ssimulacra2.cc:428-434).                   *)
DiffersInBackground(first, second) ==
  /\ second.scales = [k \in 1 .. Len(first.scales) |-> Brightened(first.scales[k])]
  /\ \A k \in 1 .. Len(first.scales) :
       /\ first.scales[k].edge.img1.bg = "0.1"
       /\ first.scales[k].edge.img2.bg =
            IF files[2].alpha THEN "0.1" ELSE NoBackground

PassesDifferInBackgroundOnly ==
  \A i \in DOMAIN log :
    log[i].kind = "score" /\ log[i].entry \in Plain /\ files[1].alpha =>
      /\ Len(log[i].passes) = 2
      /\ DiffersInBackground(log[i].passes[1], log[i].passes[2])

(* "Minimum image size is 8x8 pixels" (ssimulacra2_main.cc:91): whatever is *)
(* scored has at least 8x8 pixels.                                          *)
MinimumSizeEnforced ==
  \A i \in DOMAIN log :
    log[i].kind = "score" => ~TooSmall(Main(files[1], "orig"))

-----------------------------------------------------------------------------
(***************************************************************************)
(* The inductive invariant: where a call is, what it has loaded, what it    *)
(* has scored, and that everything reported follows from the two pictures.  *)
(***************************************************************************)
(* The number of scales of a picture, and what a pass over it returns.      *)
ScaleCount(image) ==
  CHOOSE n \in 0 .. NumScales :
    ~GoesOn(image, n) /\ \A k \in 0 .. n - 1 : GoesOn(image, k)

SubjectFor(bg) ==
  [orig |-> Main(files[1], "orig"), dist |-> Main(files[2], "dist"), bg |-> bg]
PassOn(bg) ==
  [bg |-> bg, scales |-> [k \in 1 .. ScaleCount(Main(files[1], "orig")) |->
                            ScaleOf(SubjectFor(bg), k - 1)]]

Backdrops(c) == IF c.entry \in Plain THEN PassesFor(files[1]) ELSE <<c.bg>>
PassesOf(c) == [k \in DOMAIN Backdrops(c) |-> PassOn(Backdrops(c)[k])]

(* A pair that every entry point scores, if it gets as far as a score.      *)
Comparable ==
  /\ files[1].status = "ok" /\ files[2].status = "ok"
  /\ ~CanvasTooSmall(files[1])
  /\ Size(files[1]) = Size(files[2])

SameFrames == Size(Main(files[1], "orig")) = Size(Main(files[2], "dist"))

CallInv ==
  ppc \notin {"idle", "dead"} =>
    /\ call = [entry |-> call.entry, bg |-> call.bg]
    /\ call.entry \in Plain => call.bg = NoBackground
    /\ ppc \in {"load1", "load2"} => ~InvalidInput(call.entry, call.bg)

LoadedInv ==
  /\ ppc \in {"load2", "compare", "score", "computing"} =>
       /\ io1 = files[1] /\ files[1].status = "ok" /\ ~CanvasTooSmall(files[1])
  /\ ppc \in {"compare", "score", "computing"} =>
       /\ io2 = files[2] /\ files[2].status = "ok"
  /\ ppc \in {"score", "computing"} => Comparable

(* Passes made and to be made are those of the call, in order.              *)
PassesInv ==
  /\ ppc \in {"idle", "check", "load1", "load2", "compare"} => scored = <<>>
  /\ ppc \in {"score", "computing"} =>
       \E n \in 0 .. Len(Backdrops(call)) :
         /\ pending = SubSeq(Backdrops(call), n + 1, Len(Backdrops(call)))
         /\ scored = [k \in 1 .. n |-> PassOn(Backdrops(call)[k])]
         /\ n > 0 => SameFrames
         /\ ppc = "computing" => n < Len(Backdrops(call))

(* What is reported is what the two pictures and the call determine.        *)
Justified(r) ==
  /\ r.kind \in {"score", "no_score"}
  /\ r.kind = "score" => Comparable /\ SameFrames /\ r.passes = PassesOf(r)
  /\ r.kind = "no_score" => r.passes = <<>> /\ (r.entry \in Plain => ~Comparable)

LogInv ==
  /\ log \in Seq({log[i] : i \in DOMAIN log})
  /\ \A i \in DOMAIN log : Justified(log[i])

ProgramInv ==
  /\ ppc \in {"idle", "check", "load1", "load2", "compare", "score", "computing", "dead"}
  /\ files \in Pictures \X Pictures
  /\ ppc \notin {"computing", "dead"} => mpc = "idle"
  /\ ppc = "computing" => mpc # "idle" /\ subject = SubjectFor(Head(pending))
  /\ CallInv /\ LoadedInv /\ PassesInv /\ LogInv

IInv == MetricInv /\ ProgramInv

-------------------------------------------------------------------------------
(***************************************************************************)
(* Pictures for model checking: sizes on both sides of the thresholds that *)
(* matter (8 for a comparison at all, 113 for six scales), with and        *)
(* without transparency, one whose only frame is a part of the canvas, an  *)
(* animation whose first shown frame is a layer, one that cannot be        *)
(* converted to linear sRGB, and the ways of failing.                      *)
(***************************************************************************)
Frame(w, h, d) == [w |-> w, h |-> h, duration |-> d]
Picture(w, h, frames, alpha) ==
  [status |-> "ok", w |-> w, h |-> h, frames |-> frames, alpha |-> alpha,
   convertible |-> TRUE]
Still(w, h, alpha) == Picture(w, h, <<Frame(w, h, 0)>>, alpha)
Failing(status) == [status |-> status, w |-> 0, h |-> 0, frames |-> <<>>,
                    alpha |-> FALSE, convertible |-> FALSE]

WholeFrames ==
  {Still(w, h, a) : w \in {7, 8, 15, 112, 113, 300}, h \in {8, 130, 260},
                    a \in {FALSE}}
    \cup {Still(8, 8, TRUE), Still(113, 130, TRUE)}
    \cup {Picture(113, 130, <<Frame(113, 130, 0), Frame(113, 130, 5)>>, FALSE)}

CroppedFrames ==
  {Picture(113, 130, <<Frame(15, 9, 0)>>, FALSE),
   Picture(113, 130, <<Frame(113, 130, 0), Frame(15, 9, 5)>>, TRUE)}

Failures == {Failing(s) : s \in {"missing", "undecodable", "throws"}}

(* A color encoding that the color management refuses.                      *)
Unconvertible == {[Still(113, 130, FALSE) EXCEPT !.convertible = FALSE]}

AllPictures ==
  WholeFrames \cup CroppedFrames \cup Failures \cup Unconvertible

(* A picture whose only frame covers four by four pixels of its canvas.     *)
WithTinyFrame == {Picture(20, 20, <<Frame(4, 4, 0)>>, FALSE),
                  Still(20, 20, FALSE)}
===============================================================================
