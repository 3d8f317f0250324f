---------------------------- MODULE PreparedSource ----------------------------
(***************************************************************************)
(* What one prepared 来源 promises a 任务创建会话, whoever prepares it and   *)
(* however often that fails: a text under a version, and a version names one  *)
(* text.  A version whose preparation failed may be tried again; a new input  *)
(* or an edit is a new version.                                              *)
(***************************************************************************)
EXTENDS Naturals

CONSTANT MaxVersion     \* bound: input versions of the 来源

VARIABLES
    status,     \* none, processing, prepared or failure
    version,    \* source_preparations.input_version
    content     \* the version whose text the row holds, 0 for no text

vars == <<status, version, content>>

Versions == 0 .. MaxVersion

Init == status = "none" /\ version = 0 /\ content = 0

\* A first or a new input: a version without a text.
Begin ==
    /\ status # "processing"
    /\ status' = "processing"
    /\ version' = version + 1
    /\ content' = 0

Retry == status = "failure" /\ status' = "processing" /\ UNCHANGED <<version, content>>

Prepared ==
    /\ status = "processing"
    /\ status' = "prepared"
    /\ content' = version
    /\ UNCHANGED version

Fails == status = "processing" /\ status' = "failure" /\ UNCHANGED <<version, content>>

\* The user's own text, under a version of its own.
Edit ==
    /\ status = "prepared"
    /\ version' = version + 1
    /\ content' = version'
    /\ UNCHANGED status

Next == Begin \/ Retry \/ Prepared \/ Fails \/ Edit

Spec == Init /\ [][Next]_vars
=============================================================================
