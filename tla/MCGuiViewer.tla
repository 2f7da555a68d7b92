------------------------------ MODULE MCGuiViewer ------------------------------
(* Instance of GuiViewer for TLC: memory for four results, so that three       *)
(* decodes may overlap the result on display.                                  *)
EXTENDS GuiViewer

CONSTANTS slotA, slotB, slotC, slotD

FourSlots == {slotA, slotB, slotC, slotD}
===============================================================================
