---------------------------- MODULE MCClipFrames ----------------------------
(* All videos of up to nine frames for the detector, and longer ones, of     *)
(* any length, for the strides, the windows and the rates.                    *)
EXTENDS ClipFramesProps

Plain == [detect |-> TRUE, whole |-> TRUE, min |-> 2, max |-> 4, mode |-> "stride", crop |-> NoCrop,
          limit |-> 0, window |-> 4, threshold |-> 3, fps |-> 2, rates |-> <<1, 2>>, gt |-> <<>>]

DetectorOptions ==
  {Plain,
   [Plain EXCEPT !.mode = "truncate", !.min = 1, !.max = 3],
   [Plain EXCEPT !.crop = 1, !.whole = FALSE],
   [Plain EXCEPT !.crop = 1, !.min = 1, !.max = 3, !.mode = "truncate"],
   [Plain EXCEPT !.crop = 1, !.min = 2, !.max = 3],       \* no room for the crop
   [Plain EXCEPT !.crop = 0, !.min = 1, !.max = 2, !.limit = 2]}

Short == {[frames |-> n, cuts |-> cuts] : n \in 0..9, cuts \in SUBSET (0..8)}

Strided == [Plain EXCEPT !.detect = FALSE, !.max = 10]

StrideOptions ==
  {Strided, [Strided EXCEPT !.max = 26, !.rates = <<2, 3>>, !.window = 6, !.threshold = 4],
   [Strided EXCEPT !.limit = 1, !.rates = <<3>>, !.window = 8, !.threshold = 8, !.fps = 1],
   [Strided EXCEPT !.rates = <<1, 2, 3>>, !.window = 5],
   [Strided EXCEPT !.max = 3, !.min = 1],
   [Strided EXCEPT !.max = 26, !.window = 5, !.threshold = 1],   \* may leave too few frames
   [Strided EXCEPT !.max = 26, !.window = 3, !.threshold = 3, !.rates = <<4, 6>>],
   [Strided EXCEPT !.max = 26, !.window = 7, !.threshold = 0, !.rates = <<>>]}

Labels == {<<Span(0, 3), Span(5, 9)>>,
           <<Span(0, 6), Span(3, 9)>>,             \* overlapping
           <<Span(0, 1), Span(2, 8)>>,             \* a short one
           <<Span(0, 5), Span(6, 12), Span(13, 18)>>}

LabelOptions == {[Strided EXCEPT !.max = len, !.gt = gt] : len \in {12, 26}, gt \in Labels}

Long == {[frames |-> n, cuts |-> {}] : n \in 1..30}

Both(videos, options) == {[video |-> v, opt |-> o] : v \in videos, o \in options}

AllInputs == Both({v \in Short : \A f \in v.cuts : f < v.frames}, DetectorOptions)
             \cup Both(Long, StrideOptions \cup LabelOptions)
=============================================================================
