------------------------- MODULE MCTapeProcessing -------------------------
(* Settings of the processing chain for TLC.                               *)
EXTENDS TapeProcessing

\* The defaults, with the given processors between capture and Reporting.
Default(processors, tapes) ==
  [processors |-> processors, tapes |-> tapes, native |-> TRUE, failed |-> FALSE,
   command |-> "empty", naming |-> FALSE]

DefaultChain == <<"BatchProcessing", "Reporting">>
CommandChain == <<"BatchProcessing", "CommandProcessing", "Reporting">>

\* DeleteNativeFile and DeleteFailedCaptureFile in the combinations that keep a
\* transcoded file, the first being the default; the kinds of command; the names
\* given after and, with no effect on the files, before the transcoding; all the
\* processors; and the manual's chain, which forgets Reporting, with a misspelt
\* name.
ChainConfigs ==
  {Default(DefaultChain, 3),
   [Default(DefaultChain, 2) EXCEPT !.failed = TRUE],
   [Default(DefaultChain, 2) EXCEPT !.native = FALSE],
   Default(CommandChain, 2),
   [Default(CommandChain, 3) EXCEPT !.command = "plain"],
   [Default(CommandChain, 3) EXCEPT !.command = "inout"],
   [Default(<<"BatchProcessing", "TapeFileNaming", "Reporting">>, 2) EXCEPT !.naming = TRUE],
   [Default(<<"TapeFileNaming", "BatchProcessing", "Reporting">>, 2) EXCEPT !.naming = TRUE],
   Default(<<"DirectionSelector", "BatchProcessing", "TapeFileNaming", "Reporting">>, 2),
   Default(<<"DirectionSelector", "Unknown", "BatchProcessing", "TapeFileNaming">>, 1)}

\* Keep the capture files, and delete those that could not be transcoded.
KeepNativeConfigs == {[Default(DefaultChain, 1) EXCEPT !.native = FALSE, !.failed = TRUE]}
===========================================================================
