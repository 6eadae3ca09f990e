----------------------------- MODULE MCSkillMcp -----------------------------
(* Two skills with a server each.                                           *)
EXTENDS SkillMcp

CONSTANTS s1, s2, m1

OneAndOne == {<<s1, m1>>, <<s2, m1>>}
\* The keys are alike: the first call may as well ask for the first one.
FirstFixed == <<{<<s1, m1>>}, OneAndOne, OneAndOne>>
=============================================================================
