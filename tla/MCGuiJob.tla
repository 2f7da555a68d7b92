------------------------------- MODULE MCGuiJob -------------------------------
(* Instance of GuiJob for TLC: two images and two temporary names, so that the *)
(* name of a removed file is used again.  Names are interchangeable.           *)
EXTENDS GuiJob, TLC

CONSTANTS imageA, imageB, fileA, fileB

TwoInputs == {imageA, imageB}
TwoFiles == {fileA, fileB}
Symmetry == Permutations(TwoInputs) \cup Permutations(TwoFiles)
===============================================================================
