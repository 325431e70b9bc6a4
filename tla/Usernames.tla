----------------------------- MODULE Usernames -----------------------------
(***************************************************************************)
(* pkg/usersignup: TransformUsername makes the compliant username of a     *)
(* username, EncodeUserIdentifier the name of the UserSignup.  A username  *)
(* is a sequence of the characters x, for any small letter, X, for any     *)
(* capital, 1, for any digit, -, @, and ., for any other character.  The   *)
(* hexadecimal digits of a checksum are abstracted to one character, x.    *)
(***************************************************************************)
EXTENDS SequencesExt

CONSTANTS
    MaxLength,
    MaxIdentifier,   \* DNS1123NameMaximumLength
    ForbiddenUsernamePrefixes, ForbiddenUsernameSuffixes,
    SignedUp         \* the usernames considered

crt == <<"c", "r", "t">>

(* A forbidden prefix or suffix has no hyphen and is not one of "crt":     *)
(* otherwise what is added to avoid it would have it again.                *)
ASSUME UsernamesAssumption ==
    /\ MaxLength \in Nat /\ MaxLength >= 7
    /\ MaxIdentifier \in Nat \ {0}
    /\ SignedUp \subseteq Seq({"x", "X", "1", "-", "@", "."})
    /\ ForbiddenUsernamePrefixes \cup ForbiddenUsernameSuffixes
            \subseteq Seq({"x", "X", "1", "a", "c", "r", "t"})
    /\ \A p \in ForbiddenUsernamePrefixes : ~IsPrefix(p, crt)
    /\ \A p \in ForbiddenUsernameSuffixes : ~IsSuffix(p, crt)

VARIABLES
    username,    \* what the user signed up with
    compliant,   \* TransformUsername of it
    identifier   \* EncodeUserIdentifier of it

usernameVars == <<username, compliant, identifier>>

UsernamesInit == username = <<>> /\ compliant = <<>> /\ identifier = <<>>

StartsWith(s, c) == s # <<>> /\ Head(s) = c
EndsWith(s, c) == s # <<>> /\ Last(s) = c

(* What step makes of the characters of s one after the other.             *)
Rewritten(step(_, _), s) ==
    LET upTo[n \in 0 .. Len(s)] == IF n = 0 THEN <<>> ELSE step(upTo[n - 1], s[n])
    IN  upTo[Len(s)]

(* strings.Trim(s, "-").                                                   *)
Trimmed(s) ==
    LET inner == {i \in 1 .. Len(s) : s[i] # "-"}
    IN  IF inner = {} THEN <<>> ELSE SubSeq(s, Min(inner), Max(inner))

(***************************************************************************)
(* TransformUsername.                                                      *)
(***************************************************************************)

BeforeAt(s) ==
    LET i == SelectInSeq(s, LAMBDA c : c = "@") IN IF i = 0 THEN s ELSE SubSeq(s, 1, i - 1)

AtReplaced(s) == Rewritten(LAMBDA t, c : t \o IF c = "@" THEN <<"a", "t", "-">> ELSE <<c>>, s)

(* The @ of a username that begins with it is replaced, any other cut off. *)
WithoutAt(s) == IF BeforeAt(s) # <<>> THEN BeforeAt(s) ELSE AtReplaced(s)

(* What is no letter and no digit becomes a hyphen; capitals stay.         *)
Hyphenated(s) == [i \in 1 .. Len(s) |-> IF s[i] \in {"@", "."} THEN "-" ELSE s[i]]

OnlyNumbers(s) == \A i \in 1 .. Len(s) : s[i] = "1"
NotOnlyNumbers(s) == IF OnlyNumbers(s) THEN crt \o <<"-">> \o s ELSE s

SingleHyphens(s) ==
    Rewritten(LAMBDA t, c : IF c = "-" /\ EndsWith(t, "-") THEN t ELSE Append(t, c), s)

BoundHyphens(s) ==
    LET t == IF StartsWith(s, "-") THEN crt \o s ELSE s
    IN  IF EndsWith(t, "-") THEN t \o crt ELSE t

CutOnly(s) == IF Len(s) > MaxLength THEN SubSeq(s, 1, MaxLength) ELSE s
Cut(s) == IF Len(s) > MaxLength THEN Trimmed(SubSeq(s, 1, MaxLength)) ELSE s

maxlengthWithPrefix == MaxLength - 4

PrefixChecked(s) ==
    IF ~\E p \in ForbiddenUsernamePrefixes : IsPrefix(p, s) THEN s
    ELSE crt \o <<"-">> \o IF Len(s) > maxlengthWithPrefix THEN SubSeq(s, 4, Len(s)) ELSE s

SuffixChecked(s) ==
    IF ~\E p \in ForbiddenUsernameSuffixes : IsSuffix(p, s) THEN s
    ELSE (IF Len(s) > maxlengthWithPrefix THEN SubSeq(s, 1, maxlengthWithPrefix) ELSE s)
            \o <<"-">> \o crt

Shortened(s) == Cut(BoundHyphens(SingleHyphens(NotOnlyNumbers(Hyphenated(WithoutAt(s))))))
TransformUsername(s) == SuffixChecked(PrefixChecked(Shortened(s)))

(***************************************************************************)
(* EncodeUserIdentifier.                                                   *)
(***************************************************************************)

ToLower(s) == [i \in 1 .. Len(s) |-> IF s[i] = "X" THEN "x" ELSE s[i]]
WithoutUnwanted(s) == Rewritten(LAMBDA t, c : IF c \in {"@", "."} THEN t ELSE Append(t, c), s)
sanitizeDNS1123(s) == Trimmed(WithoutUnwanted(ToLower(s)))
WithoutChecksum(s) == sanitizeDNS1123(s)
WithChecksum(s) ==
    IF sanitizeDNS1123(s) = s THEN s ELSE <<"x", "-">> \o sanitizeDNS1123(s)

EncodeUserIdentifier(s) ==
    LET encoded == WithChecksum(s)
    IN  IF Len(encoded) > MaxIdentifier THEN SubSeq(encoded, 1, MaxIdentifier) ELSE encoded

SignUp(s) ==
    /\ username' = s
    /\ compliant' = TransformUsername(s)
    /\ identifier' = EncodeUserIdentifier(s)

UsernamesNext == compliant = <<>> /\ \E s \in SignedUp : SignUp(s)

UsernamesSpec == UsernamesInit /\ [][UsernamesNext]_usernameVars

(***************************************************************************)
(* Properties.                                                             *)
(***************************************************************************)

(* A compliant username is not empty, has only letters, digits and         *)
(* hyphens, begins and ends with a letter or digit, and neither is         *)
(* forbidden: cutting, adding and replacing do not undo one another.       *)
UsernameCompliant ==
    username # <<>> =>
        /\ compliant # <<>>
        /\ Range(compliant) \cap {"@", "."} = {}
        /\ "-" \notin {Head(compliant), Last(compliant)}
        /\ \A p \in ForbiddenUsernamePrefixes : ~IsPrefix(p, compliant)
        /\ \A p \in ForbiddenUsernameSuffixes : ~IsSuffix(p, compliant)

(* "Maximum Length for compliant username is limited to 20 characters".    *)
UsernameWithinLimit == Len(compliant) <= MaxLength

(* A DNS-1123 label of the length that EncodeUserIdentifier allows.        *)
IsDNS1123(s) ==
    /\ s # <<>> /\ Len(s) <= MaxIdentifier
    /\ Range(s) \subseteq {"x", "1", "-"}
    /\ "-" \notin {Head(s), Last(s)}

(* The UserSignup of a user can be created and found: its name is not      *)
(* empty if the username is not, not too long, has only small letters,     *)
(* digits and hyphens and begins with none, and a username that complies   *)
(* already is its own identifier, without a checksum.                      *)
IdentifierCompliant ==
    username # <<>> =>
        /\ identifier # <<>> /\ Len(identifier) <= MaxIdentifier
        /\ Range(identifier) \subseteq {"x", "1", "-"}
        /\ Head(identifier) # "-"
        /\ IsDNS1123(username) => identifier = username

(* "EncodeUserIdentifier transforms a subject value (the user's username)  *)
(* to make it DNS-1123 compliant".                                         *)
IdentifierIsDNS1123 == username # <<>> => IsDNS1123(identifier)
=============================================================================
