------------------------------ MODULE MatchRules ------------------------------
(* The pure rules of src/src/matchmaking/matchmaking.service.ts: who may enter *)
(* the queue, and which two profiles may be paired. A profile is a record of   *)
(* the columns of User that the rules read. Free text is reduced to what the   *)
(* rules tell apart: Null (column empty), Blank (only whitespace) and names    *)
(* that are already trimmed and lower-cased.                                   *)
EXTENDS Integers, FiniteSets

CONSTANTS Null, Blank

\* normalizeString: an empty or blank text becomes null.
Normalize(text) == IF text = Blank THEN Null ELSE text

\* The preference "any", "both" or none at all accepts every known gender.
MatchesPreference(preference, otherGender) ==
    /\ otherGender # Null
    /\ preference \in {Null, "any", "both", otherGender}

\* The gender columns as the queue ticket carries them.
IsGenderCompatible(p, q) ==
    /\ Normalize(p.gender) # Null
    /\ Normalize(q.gender) # Null
    /\ MatchesPreference(Normalize(p.interestedIn), Normalize(q.gender))
    /\ MatchesPreference(Normalize(q.interestedIn), Normalize(p.gender))

\* age fits the preferred range of p, each end of which may be unset.
PrefersAge(p, age) ==
    /\ p.minPreferredAge # Null => age >= p.minPreferredAge
    /\ p.maxPreferredAge # Null => age <= p.maxPreferredAge

\* The ages are those of two tickets, made of the rows p and q; the preferences are
\* those of two rows of the same users that were read later.
IsAgeCompatible(p, q, laterP, laterQ) ==
    /\ p.age # Null /\ q.age # Null
    /\ PrefersAge(laterP, q.age)
    /\ PrefersAge(laterQ, p.age)

\* assertUserCanEnterQueue. It looks at the raw columns, so a Blank text passes.
CanEnterQueue(p) ==
    /\ p.emailVerified /\ p.acceptedTerms /\ p.acceptedPrivacyPolicy
    /\ p.gender # Null /\ p.language # Null /\ p.country # Null
    /\ p.interestedIn # Null
    /\ ~p.isBlockedFromMatching
    /\ p.age # Null
    /\ p.age >= 18

\* A date is <<year, month, day>>, compared in local time.
CalculateAge(today, dateOfBirth) ==
    LET birthdayAhead == \/ today[2] < dateOfBirth[2]
                         \/ today[2] = dateOfBirth[2] /\ today[3] < dateOfBirth[3]
        age == today[1] - dateOfBirth[1] - (IF birthdayAhead THEN 1 ELSE 0)
    IN  IF age >= 0 THEN age ELSE Null

\* Math.round of the share, in percent, of the interests two tickets have in common.
MutualInterests(interestsA, interestsB) ==
    LET shared == Cardinality(interestsA \cap interestsB)
        unique == Cardinality(interestsA \cup interestsB)
    IN  IF unique > 0 THEN (200 * shared + unique) \div (2 * unique) ELSE 0
================================================================================
