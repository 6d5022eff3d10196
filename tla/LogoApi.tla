------------------------------- MODULE LogoApi -------------------------------
(***************************************************************************)
(* The handlers of the two routes that spend money, POST /v1/logo/detect    *)
(* (Cloud Vision) and POST /v1/logo/analyze (Gemini): what they check       *)
(* before the paid call and what they make of its result.  RequestPipeline  *)
(* runs them behind the router's middleware.                                *)
(*                                                                          *)
(* Sizes are in units small enough for the limits to differ by one.         *)
(***************************************************************************)
EXTENDS Integers, Sequences, SequencesExt

CONSTANTS
    MaxImage,      \* maxImageSize
    Slack,         \* room for the multipart framing
    Annotations    \* answers of Vision: sequences of [name, confidence]

ASSUME LogoConstants == MaxImage \in Nat /\ Slack \in Nat

Minimum(a, b) == IF a < b THEN a ELSE b

\* http.MaxBytesReader of DetectLogos.
DetectBodyLimit == MaxImage + Slack

\* DetectLogos up to the call: the whole body is bounded, the form parsed, the
\* file looked for, its size checked, the file read, then the usecase refuses an
\* empty image.  0 means that Vision is called.  The form is parsed as the body
\* is read, so of a body with both faults either may be reported.
DetectRefusals(in) ==
    IF in.body > DetectBodyLimit THEN {413} \union (IF in.wellformed THEN {} ELSE {400})
    ELSE IF ~in.wellformed THEN {400}
    ELSE IF in.image > MaxImage THEN {413}
    ELSE {500, IF in.image = 0 THEN 400 ELSE 0}

\* AnalyzeCompany up to the call; the body has been decoded from what the
\* validator read.
AnalyzeRefusals(in) == IF in.name THEN {0} ELSE {400}

\* Faulty variant: the first confidence of a name stays.
KeepFirst(logos) ==
    LET add(unique, logo) ==
            IF \E u \in ToSet(unique) : u.name = logo.name THEN unique
            ELSE Append(unique, logo)
    IN  FoldLeft(add, <<>>, logos)

\* deduplicateLogos: a name keeps the place of its first appearance and takes its
\* highest confidence.
DeduplicateLogos(logos) ==
    LET add(unique, logo) ==
            LET at == {n \in DOMAIN unique : unique[n].name = logo.name}
                index == CHOOSE n \in at : TRUE
            IN  IF at = {} THEN Append(unique, logo)
                ELSE IF logo.confidence > unique[index].confidence
                THEN [unique EXCEPT ![index] = logo]
                ELSE unique
    IN  FoldLeft(add, <<>>, logos)
=============================================================================
