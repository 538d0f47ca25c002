------------------------------ MODULE Releases ------------------------------
(***************************************************************************)
(* How the C++ update checker (update_checker.cpp) and the Rust launcher   *)
(* (github.rs) compare versions and choose an asset, and the sequence of   *)
(* updates an operator makes who follows either of them.                   *)
(*                                                                         *)
(* A version is [vs, parts]: its leading letters v, and what stands        *)
(* between its dots, each part [digits, rest]: the number it begins with   *)
(* and whether more text follows ("0-rc" is [digits |-> 0, rest |-> TRUE]).*)
(* An asset is [linux, archive]: "linux" is in its name, only elsewhere in *)
(* its URL (the tag) or nowhere, and ".tar.gz" or ".tgz" ends it, stands   *)
(* inside it ("...tgz.sha256") or does not occur.                          *)
(***************************************************************************)
EXTENDS Naturals, Sequences

CONSTANTS Version,  \* the versions that are published
          Assets    \* the lists of assets releases carry

VersionAssumption ==
  /\ Version \subseteq [vs : Nat, parts : Seq([digits : Nat, rest : BOOLEAN])]
  /\ Assets \subseteq Seq([linux : {"name", "tag", "no"}, archive : {"end", "inside", "none"}])

VARIABLES latest,     \* the latest release
          assets,     \* its assets
          installed   \* the version in use

vars == <<latest, assets, installed>>

\* ParseVersionParts: one v is erased, stoi reads the digits a part begins
\* with; a second v makes stoi fail on the first part, which counts as 0.
\* The resize to equal lengths pads with 0.
CppPart(v, i) == IF i \in DOMAIN v.parts /\ (i > 1 \/ v.vs < 2)
                 THEN v.parts[i].digits ELSE 0

\* Faulty variant: the v is not trimmed, so that the first part does not parse.
RustUntrimmed(v, i) == IF i \in DOMAIN v.parts /\ (i > 1 \/ v.vs = 0) THEN v.parts[i].digits ELSE 0

\* parse: every v is trimmed; a part that is not all digits counts as 0.
RustPart(v, i) == IF i \in DOMAIN v.parts /\ ~v.parts[i].rest
                  THEN v.parts[i].digits ELSE 0

\* The loop of IsVersionNewer and is_newer_version: the first part in which
\* the two differ decides.
FirstGreater(a, b) ==
  \E i \in DOMAIN a : a[i] > b[i] /\ \A j \in 1..(i - 1) : a[j] = b[j]

\* The positions of the longer of the two.
Longer(v, w) == DOMAIN v.parts \cup DOMAIN w.parts

CppNewer(v, w) == FirstGreater([i \in Longer(v, w) |-> CppPart(v, i)],
                               [i \in Longer(v, w) |-> CppPart(w, i)])
RustNewer(v, w) == FirstGreater([i \in Longer(v, w) |-> RustPart(v, i)],
                                [i \in Longer(v, w) |-> RustPart(w, i)])

\* The first asset that fits the platform, or else the first; 0 if none.
FirstOr(s, good) == IF good # {} THEN CHOOSE i \in good : \A j \in good : i <= j
                    ELSE IF s = <<>> THEN 0 ELSE 1
\* PickPreferredAssetUrl looks for both anywhere in the URL,
\* pick_asset_for_platform in the name and at its end.
CppPick(s) == FirstOr(s, {i \in DOMAIN s : s[i].linux # "no" /\ s[i].archive # "none"})
RustPick(s) == FirstOr(s, {i \in DOMAIN s : s[i].linux = "name" /\ s[i].archive = "end"})

---------------------------------------------------------------------------
Init == latest \in Version /\ installed \in Version /\ assets \in Assets

Publish == /\ latest' \in Version /\ assets' \in Assets
           /\ UNCHANGED installed

\* CheckForUpdates or "mcx-launcher check" reports a newer version, and the
\* operator installs it.
UpdateOnCpp == CppNewer(latest, installed) /\ installed' = latest /\ UNCHANGED <<latest, assets>>
UpdateOnRust == RustNewer(latest, installed) /\ installed' = latest /\ UNCHANGED <<latest, assets>>

Next == Publish \/ UpdateOnCpp \/ UpdateOnRust
Spec == Init /\ [][Next]_vars

---------------------------------------------------------------------------
Plain(v) == v.vs < 2 /\ \A i \in DOMAIN v.parts : ~v.parts[i].rest

\* What "newer" may not be whatever is published: newer than itself, both
\* ways round, or newer in a circle.  Else following the checker would not
\* end.  (The padding makes 1.1 and 1.1.0 the same.)
StrictOrder == /\ ~CppNewer(latest, latest)
               /\ ~(CppNewer(latest, installed) /\ CppNewer(installed, latest))
               /\ \A v \in Version : CppNewer(v, latest) /\ CppNewer(latest, installed)
                                        => CppNewer(v, installed)

\* The two programs agree on versions of plain numbers, whatever their
\* lengths and with or without a v.
LaunchersAgree == Plain(latest) /\ Plain(installed) =>
                     (CppNewer(latest, installed) <=> RustNewer(latest, installed))

\* An operator who follows now one and now the other never goes back, as
\* long as the versions are plain numbers.
NeverBack == [][Plain(installed) /\ Plain(latest) => ~CppNewer(installed, installed')]_vars

\* The two choose the same asset unless one has the archive's suffix in the
\* middle of its name, such as a checksum, or the tag names the system.
SameAsset == (\A i \in DOMAIN assets : assets[i].archive # "inside" /\ assets[i].linux # "tag")
                => CppPick(assets) = RustPick(assets)
=============================================================================
