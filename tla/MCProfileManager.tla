-------------------------- MODULE MCProfileManager --------------------------
EXTENDS ProfileManager

CONSTANTS a1, a2, h1, u1, u2

MCKeyRank == [a \in Author |-> IF a = a1 THEN 1 ELSE 2]

MCUrls == <<u1, u2>>
MCAnswers == {{}, {a2}}
=============================================================================
