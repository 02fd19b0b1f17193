------------------------------ MODULE IntakeMC ------------------------------
(***************************************************************************)
(* The instance TLC checks: photos of two products that look different     *)
(* and one of them twice, and a photo that is not what was declared.       *)
(***************************************************************************)
EXTENDS Intake

CONSTANTS u1, u2, u3

Looks == [u \in Uploads |-> IF u = u1 THEN 0 ELSE 40]

IdentificationPolicy == [confidence |-> 50, lead |-> 10, duplicate |-> 95, age |-> 0]

Guess(id, confidence) == [id |-> id, confidence |-> confidence]
InstanceProposals ==
    {{}, {Guess(1, 40)}, {Guess(1, 80)}, {Guess(1, 80), Guess(2, 75)}, {Guess(1, 80), Guess(2, 70)}}

Finding(content, evidence, similar, age) ==
    [content |-> content, evidence |-> evidence, similar |-> similar, age |-> age]
InstanceAnswers ==
    {{Finding(1, 1, TRUE, 0), Finding(2, 1, TRUE, 1)}, {Finding(1, 2, TRUE, 0), Finding(1, 1, TRUE, 0)},
     {Finding(1, 1, FALSE, 0), Finding(2, 1, TRUE, 2)}}
=============================================================================
