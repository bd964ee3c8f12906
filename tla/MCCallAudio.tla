----------------------------- MODULE MCCallAudio -----------------------------
(* Settings and bounds of the audio of a call for TLC: a buffer of 8 places *)
(* with the proportions of the real one.                                    *)
EXTENDS CallAudio

Call(stereo, keep, localSide, chunks, channels, timestamps, sizes, codecs, failures) ==
  [stereo |-> stereo, keep |-> keep, localSide |-> localSide, chunks |-> chunks,
   channels |-> channels, timestamps |-> timestamps, sizes |-> sizes, codecs |-> codecs,
   failures |-> failures]

AllScenarios ==
  {\* gaps, late packets, the wrap of the buffer
   Call(FALSE, "both", "unknown", 4, {1, 2}, {2, 6, 8, 11}, {2, 3}, {TRUE}, FALSE),
   \* the wrap of the timestamps, and a sender that counts milliseconds
   Call(FALSE, "both", "unknown", 3, {1, 2}, {0, 1, 2, 3, 62, 63}, {1, 2}, {TRUE}, FALSE),
   \* a first packet beyond the trigger, and one whose end wraps
   Call(FALSE, "both", "unknown", 3, {1, 2}, {56, 62}, {2, 7}, {TRUE}, FALSE),
   \* stereo, with a third side
   Call(TRUE, "both", "unknown", 3, {1, 2, 3}, {4, 6, 8, 11}, {2, 3}, {TRUE}, FALSE),
   \* mono with a third side
   Call(FALSE, "both", "unknown", 3, {1, 2, 3}, {0, 3, 6}, {3}, {TRUE}, FALSE),
   \* only one side is kept; the second packet may fill the buffer exactly
   Call(FALSE, "remote", "side1", 4, {1, 2}, {2, 5, 7, 9}, {3}, {TRUE}, FALSE),
   Call(FALSE, "local", "side2", 3, {1, 2}, {2, 9}, {3}, {TRUE}, FALSE),
   Call(FALSE, "none", "side1", 2, {1, 2}, {2}, {2}, {TRUE}, FALSE),
   \* unknown codecs, a failing disk, an oversized and an empty chunk
   Call(FALSE, "both", "both", 4, {1}, {2, 7}, {0, 3, 10}, {TRUE, FALSE}, TRUE)}
=============================================================================
