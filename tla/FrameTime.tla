----------------------------- MODULE FrameTime -----------------------------
(* How many ticks of the clock the frame path counts to a second.              *)
EXTENDS Integers
CONSTANT Second
=============================================================================
