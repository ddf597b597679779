----------------------------- MODULE KeyRotation -----------------------------
(***************************************************************************)
(* core/auth/jwt.py: AuthService, built once per replica from the          *)
(* environment, and the rotation of its keys while replicas are restarted  *)
(* one by one.                                                             *)
(*                                                                         *)
(* Key material is a generation number: the private and the public half of *)
(* a pair, and a shared secret, are the same number.  So are the kids an   *)
(* operator chooses.  The operator takes the steps of docs/PRODUCTION.md   *)
(* 11.6, with the new key published before the first replica signs with    *)
(* it, and the old one kept for a token's lifetime after the last.  A      *)
(* token's expiry is kept as the time it has left.                         *)
(***************************************************************************)
EXTENDS Positions, SequencesExt

CONSTANTS AuthReplicas,
          Generations,  \* keys the operator goes through
          TokenTtl,     \* default_ttl, the longest lifetime asked for
          KidPolicy     \* "renamed": each key has its own kid; "kept": AUTH_SIGNING_KID
                        \* stays; "unset": no kid is given

ASSUME KeyAssumption ==
  /\ Generations \in Nat \ {0} /\ TokenTtl \in Nat \ {0}
  /\ KidPolicy \in {"renamed", "kept", "unset"}

VARIABLES
  settings,   \* the environment the operator has published
  rollout,    \* "none", "steady", "announced", "promoted"
  service,    \* the AuthService of each replica
  tokens,     \* tokens in the hands of clients
  sinceRolled \* time since every replica runs the published settings

keyVars == <<settings, rollout, service, tokens, sinceRolled>>

NoSettings == [alg |-> "none", private |-> 0, kid |-> 0, listed |-> <<>>]
NoService == [alg |-> "none", kid |-> 0, material |-> 0, verify |-> <<>>]
Unnamed == -1                \* an AUTH_SECRETS entry without a kid
Positional(i) == 99 + i      \* "key0", "key1", ...
Current == 0                 \* the default signing kid, "current"

KeyInit ==
  /\ settings = NoSettings
  /\ rollout = "none"
  /\ service = [r \in AuthReplicas |-> NoService]
  /\ tokens = {}
  /\ sinceRolled = 0

-----------------------------------------------------------------------------
\* AuthService.__init__

\* _parse_auth_secrets: an entry without a kid is named after its place
ParseSecrets(raw) ==
  [i \in DOMAIN raw |-> IF raw[i].kid = Unnamed THEN [raw[i] EXCEPT !.kid = Positional(i)]
                                                ELSE raw[i]]

\* Of keys with one kid, the first counts
FirstsOf(ring) == {i \in DOMAIN ring : \A j \in 1..(i - 1) : ring[j].kid # ring[i].kid}

\* The verify ring: public keys whose kid was seen are skipped
PublicRing(raw) == Picked(raw, FirstsOf(raw))

\* need_derived: unless the kid is known and the key listed, each somewhere
WithDerived(ring, kid, private) ==
  IF \/ \A i \in DOMAIN ring : ring[i].kid # kid
     \/ \A i \in DOMAIN ring : ring[i].material # private
  THEN Append(ring, [kid |-> kid, material |-> private])
  ELSE ring

Build(env) ==
  IF env.alg = "RS256"
  THEN [alg |-> "RS256", kid |-> env.kid, material |-> env.private,
        verify |-> WithDerived(PublicRing(env.listed), env.kid, env.private)]
  ELSE LET secrets == ParseSecrets(env.listed)
       IN  [alg |-> "HS256", kid |-> secrets[1].kid, material |-> secrets[1].material,
            verify |-> secrets]

-----------------------------------------------------------------------------
\* Mutant: every token is checked against the current key
ResolveCurrent(s, kid) == s.verify[1].material

\* _resolve_verify_key: the first key of the kid, else the first key
Resolve(s, kid) ==
  LET named == {i \in DOMAIN s.verify : s.verify[i].kid = kid}
  IN  IF named = {} THEN s.verify[1].material
      ELSE s.verify[CHOOSE i \in named : \A j \in named : i <= j].material

\* verify_token
Accepts(s, t) == t.left > 0 /\ t.alg = s.alg /\ t.material = Resolve(s, t.kid)

\* get_jwks: the public keys, the first of each kid
Jwks(s) ==
  IF s.alg # "RS256" THEN {}
  ELSE {s.verify[i] : i \in FirstsOf(s.verify)}

\* A service that holds the published key set and looks keys up by kid
AcceptsOutside(keys, t) ==
  t.left > 0 /\ t.alg = "RS256" /\ [kid |-> t.kid, material |-> t.material] \in keys

TokenOf(s, ttl) == [alg |-> s.alg, kid |-> s.kid, material |-> s.material, left |-> ttl]

\* issue_token; a lifetime of zero asks for the default
Issue(r, ttl) ==
  /\ service[r] # NoService
  /\ tokens' = tokens \cup {TokenOf(service[r], IF ttl = 0 THEN TokenTtl ELSE ttl)}
  /\ UNCHANGED <<settings, rollout, service, sinceRolled>>

-----------------------------------------------------------------------------
\* The operator.  gen_rsa_keys.py, or a new shared secret
NewEntry(alg, g) ==
  [kid |-> IF alg = "HS256" /\ KidPolicy = "unset" THEN Unnamed ELSE g, material |-> g]
RemoteEntry == [kid |-> 50, material |-> 50]
SigningKid(g) == CASE KidPolicy = "renamed" -> g
                   [] KidPolicy = "kept" -> 1
                   [] OTHER -> Current
Rolled == \A r \in AuthReplicas : service[r] = Build(settings)

\* The first deployment lists its own key, or only that of a remote issuer
Install(alg, own) ==
  /\ rollout = "none"
  /\ alg = "HS256" => own
  /\ settings' = [alg |-> alg, private |-> 1, kid |-> SigningKid(1),
                  listed |-> <<IF own THEN NewEntry(alg, 1) ELSE RemoteEntry>>]
  /\ rollout' = "steady"
  /\ service' = [r \in AuthReplicas |-> Build(settings')]
  /\ UNCHANGED <<tokens, sinceRolled>>

\* A new key, to verify with but not yet to sign with
Announce ==
  /\ rollout = "steady" /\ Rolled /\ settings.private < Generations
  /\ settings' = [settings EXCEPT !.listed = <<NewEntry(settings.alg, settings.private),
                                               NewEntry(settings.alg, settings.private + 1)>>]
  /\ rollout' = "announced" /\ sinceRolled' = 0
  /\ UNCHANGED <<service, tokens>>

\* The new key signs, and the old one stays in the list
Promote ==
  /\ rollout = "announced" /\ Rolled
  /\ settings' = [settings EXCEPT !.private = @ + 1, !.kid = SigningKid(settings.private + 1),
                                  !.listed = Reverse(@)]
  /\ rollout' = "promoted" /\ sinceRolled' = 0
  /\ UNCHANGED <<service, tokens>>

\* The old key goes once every token it signed must have expired
Retire ==
  /\ rollout = "promoted" /\ Rolled /\ sinceRolled = TokenTtl
  /\ settings' = [settings EXCEPT !.listed = <<settings.listed[1]>>]
  /\ rollout' = "steady" /\ sinceRolled' = 0
  /\ UNCHANGED <<service, tokens>>

\* A replica is restarted with the published settings
Roll(r) ==
  /\ rollout # "none" /\ service[r] # Build(settings)
  /\ service' = [service EXCEPT ![r] = Build(settings)]
  /\ UNCHANGED <<settings, rollout, tokens, sinceRolled>>

KeyTick ==
  /\ rollout # "none"
  /\ tokens' = {[t EXCEPT !.left = @ - 1] : t \in {u \in tokens : u.left > 0}}
  /\ sinceRolled' = IF Rolled /\ sinceRolled < TokenTtl THEN sinceRolled + 1 ELSE sinceRolled
  /\ UNCHANGED <<settings, rollout, service>>

KeyNext ==
  \/ \E alg \in {"RS256", "HS256"}, own \in BOOLEAN : Install(alg, own)
  \/ Announce
  \/ Promote
  \/ Retire
  \/ \E r \in AuthReplicas : Roll(r)
  \/ \E r \in AuthReplicas, ttl \in 0..TokenTtl : Issue(r, ttl)
  \/ KeyTick

KeySpec == KeyInit /\ [][KeyNext]_keyVars

-----------------------------------------------------------------------------
(***************************************************************************)
(* No replica refuses an unexpired token of any replica, at any point of a *)
(* rotation (the "graceful rollover" of docs/PRODUCTION.md 11.6).          *)
(***************************************************************************)
TokensHonoured ==
  \A t \in tokens, r \in AuthReplicas : t.left > 0 => Accepts(service[r], t)

(***************************************************************************)
(* A replica's published key set verifies what the replica itself does, so *)
(* that a service outside agrees with it on every token.                   *)
(***************************************************************************)
OutsideAgrees ==
  \A t \in tokens, r \in AuthReplicas :
    service[r].alg = "RS256" => (Accepts(service[r], t) <=> AcceptsOutside(Jwks(service[r]), t))

(***************************************************************************)
(* "newly-signed tokens are verifiable" (jwt.py:154): a replica accepts    *)
(* the token it would sign now.                                            *)
(***************************************************************************)
FreshAccepted ==
  \A r \in AuthReplicas :
    service[r] # NoService => Accepts(service[r], TokenOf(service[r], TokenTtl))

(***************************************************************************)
(* Through restarts in any order and rotations, replicas and outsiders     *)
(* accept what any replica signs, while it lasts.                          *)
(***************************************************************************)
KeysHonoured == TokensHonoured /\ OutsideAgrees /\ FreshAccepted
=============================================================================
