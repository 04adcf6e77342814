----------------------------- MODULE MCRtpDump ------------------------------
(* RtpDump with samples of two bytes and an RTP header of two frames, as   *)
(* in the code, and a WAV header with the same fields, shorter.  The       *)
(* lengths are those of an incomplete header, of a header alone, of one    *)
(* with an incomplete frame and of one with three frames; two packets take *)
(* the counter and the sizes past U32.                                     *)
EXTENDS RtpDump
=============================================================================
