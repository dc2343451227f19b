--------------------------- MODULE VaultDonations ---------------------------
(***************************************************************************)
(* The fundraising side of the Jett vault: donations in SOL and JTX, the   *)
(* USDC agents declare for users, the referral boost, and the receipt a    *)
(* donor gets once, priced by Pyth and allowed by a fresh AARON audit of   *)
(* the donor's attestation (programs/jett-vault).  The module extends      *)
(* VaultAgt, whose attestations and audits the receipts depend on.         *)
(*                                                                         *)
(* Only SOL is followed into the vault's account.  donate_usdc_agent moves *)
(* no USDC: it has no token account, and the amount is what the agent      *)
(* says.  donate_jtx moves tokens, but of the mint and into the account    *)
(* that the donor names; its total is a record like that of the USDC.      *)
(*                                                                         *)
(* check_and_launch, trigger_refunds, update_phase and close_vault always  *)
(* fail, so is_launched and is_refundable stay false: the guards on them   *)
(* are left out, and claim_refund, which never succeeds, is no action.     *)
(* Left out too: goal, phase and deadlines, which nothing reads after      *)
(* initialize_vault, the dates but the receipt's, and SOL sent to the      *)
(* vault's address by a bare transfer, which nothing records.  The other   *)
(* programs involved are external: a transfer that a donor cannot pay      *)
(* fails the transaction, verify_attestation succeeds whenever a PoA       *)
(* attestation exists, mpl-core mints the asset.                           *)
(*                                                                         *)
(* Definitions whose name is a mistake (BoostSurvives...) are faulty       *)
(* variants of the definition that follows; nothing uses them.             *)
(***************************************************************************)
EXTENDS VaultAgt, Functions

CONSTANTS
  Agents,            \* wallets that declare USDC for users
  Lamports,          \* amounts donated
  Usdcs,             \* amounts agents declare
  PythPrices,        \* [price, exponent] a Pyth account may hold
  LamportsPerSol,    \* 10^9 in the code
  UsdcDecimals,      \* 6 in the code
  JtxUnit,           \* JTX_DECIMALS, 10^9 in the code
  JtxPriceUsdc,      \* 8_000_000 in the code
  MinNftThreshold,   \* MIN_NFT_THRESHOLD_USDC, 8_000_000 in the code
  AuditFreshness,    \* AARON_AUDIT_FRESHNESS_FOR_NFT_SECONDS, 300 in the code
  MaxDonations       \* bound of the instance: donations in SOL and in JTX

ASSUME DonationsAssumption ==
  /\ Lamports \subseteq Nat /\ Usdcs \subseteq Nat
  /\ PythPrices \subseteq [price : Int, exponent : Int]
  /\ LamportsPerSol \in Nat \ {0} /\ UsdcDecimals \in Nat
  /\ JtxUnit \in Nat \ {0} /\ JtxPriceUsdc \in Nat \ {0}
  /\ MinNftThreshold \in Nat /\ AuditFreshness \in Nat /\ MaxDonations \in Nat

(* The sums and counts over all agents suppose finitely many of them.      *)
ASSUME AgentsFinite == IsFiniteSet(Agents)

VARIABLES
  vault,        \* the totals of VaultConfig
  lamports,     \* SOL donated into the vault account
  donor,        \* [user]: the Donor account
  jtx_stats,    \* the JtxVaultStats account
  acquisition,  \* [agent][user]: usdc_amount of the AgentAcquisition account
  ledger,       \* [agent]: the AgentLedger account
  receipt       \* [user]: the DonorReceipt account

fundVars == <<vault, lamports, donor, jtx_stats, acquisition, ledger, receipt>>

vars == <<agtVars, fundVars>>

DefaultBps == 100     \* MULTIPLIER_DEFAULT_BPS
ReferredBps == 150    \* MULTIPLIER_REFERRED_BPS

Vault == [raised_lamports : U64, raised_usdc : U64, donor_count : Nat, agent_count : Nat]

(* `referred` stands for referrer.is_some(). *)
Donor ==
  [amount_lamports : U64, attested : BOOLEAN, nft_minted : BOOLEAN,
   referred : BOOLEAN, optx_multiplier_bps : {DefaultBps, ReferredBps}]

JtxVaultStats == [total_jtx_raised : U64, jtx_donor_count : Nat]

AgentLedger == [total_usdc_paid : U64, users_acquired : Nat]

DonorReceipt ==
  [donation_lamports : U64, donation_value_usdc : U64, sol_price_usdc : U64,
   jtx_entitled : U64, multiplier_bps : {DefaultBps, ReferredBps}, minted_at : Nat]

ASSUME NoFundAccountAssumption ==
  /\ NoAccount \notin Donor /\ NoAccount \notin AgentLedger
  /\ NoAccount \notin DonorReceipt /\ NoAccount \notin Nat

TypeOK ==
  /\ AgtTypeOK
  /\ vault \in Vault /\ lamports \in Nat /\ jtx_stats \in JtxVaultStats
  /\ donor \in [Users -> Donor \cup {NoAccount}]
  /\ acquisition \in [Agents -> [Users -> U64 \cup {NoAccount}]]
  /\ ledger \in [Agents -> AgentLedger \cup {NoAccount}]
  /\ receipt \in [Users -> DonorReceipt \cup {NoAccount}]

Init ==
  /\ AgtInit
  /\ vault = [raised_lamports |-> 0, raised_usdc |-> 0, donor_count |-> 0, agent_count |-> 0]
  /\ lamports = 0
  /\ donor = [u \in Users |-> NoAccount]
  /\ jtx_stats = [total_jtx_raised |-> 0, jtx_donor_count |-> 0]
  /\ acquisition = [a \in Agents |-> [u \in Users |-> NoAccount]]
  /\ ledger = [a \in Agents |-> NoAccount]
  /\ receipt = [u \in Users |-> NoAccount]

WrappingU64(n) == TRUE
FitsU64(n) == n \in U64

-----------------------------------------------------------------------------
(* Donations.  The Donor account is made by the first one (init_if_needed).*)

DonorOf(u) ==
  IF donor[u] # NoAccount THEN donor[u]
  ELSE [amount_lamports |-> 0, attested |-> FALSE, nft_minted |-> FALSE,
        referred |-> FALSE, optx_multiplier_bps |-> DefaultBps]

(* Every donation replaces the referrer and takes the multiplier back to   *)
(* its default, whatever link_attestation made of it.                      *)
BoostSurvives(d, amount, has_referrer) ==
  [d EXCEPT !.amount_lamports = @ + amount, !.referred = has_referrer]
Donated(d, amount, has_referrer) ==
  [d EXCEPT !.amount_lamports = @ + amount, !.referred = has_referrer,
            !.optx_multiplier_bps = DefaultBps]

(* donor_count counts donations, not donors.                               *)
TotalForgotten(v, amount) == [v EXCEPT !.donor_count = @ + 1]
Raised(v, amount) ==
  [v EXCEPT !.raised_lamports = @ + amount, !.donor_count = @ + 1]

DonateSol(u, amount, has_referrer) ==
  /\ ~paused
  /\ amount > 0
  /\ vault.donor_count < MaxDonations
  /\ FitsU64(DonorOf(u).amount_lamports + amount)
  /\ FitsU64(vault.raised_lamports + amount)
  /\ lamports' = lamports + amount
  /\ donor' = [donor EXCEPT ![u] = Donated(DonorOf(u), amount, has_referrer)]
  /\ vault' = Raised(vault, amount)
  /\ UNCHANGED <<agtVars, jtx_stats, acquisition, ledger, receipt>>

DonateJtx(u, amount, has_referrer) ==
  /\ ~paused
  /\ amount > 0
  /\ vault.donor_count < MaxDonations
  /\ FitsU64(jtx_stats.total_jtx_raised + amount)
  /\ donor' = [donor EXCEPT ![u] = Donated(DonorOf(u), 0, has_referrer)]
  /\ jtx_stats' = [jtx_stats EXCEPT !.total_jtx_raised = @ + amount,
                                    !.jtx_donor_count = @ + 1]
  /\ vault' = [vault EXCEPT !.donor_count = @ + 1]
  /\ UNCHANGED <<agtVars, lamports, acquisition, ledger, receipt>>

LedgerOf(a) ==
  IF ledger[a] # NoAccount THEN ledger[a]
  ELSE [total_usdc_paid |-> 0, users_acquired |-> 0]

(* An agent acquires a user once (init), at the price it declares; nothing *)
(* is paid, and the user need not know.                                    *)
Reacquired(a, u) == TRUE
NotAcquired(a, u) == acquisition[a][u] = NoAccount

DonateUsdcAgent(a, u, usdc_amount) ==
  /\ ~paused
  /\ usdc_amount > 0
  /\ NotAcquired(a, u)
  /\ FitsU64(LedgerOf(a).total_usdc_paid + usdc_amount)
  /\ FitsU64(vault.raised_usdc + usdc_amount)
  /\ acquisition' = [acquisition EXCEPT ![a][u] = usdc_amount]
  /\ ledger' = [ledger EXCEPT ![a] =
       [total_usdc_paid |-> LedgerOf(a).total_usdc_paid + usdc_amount,
        users_acquired |-> LedgerOf(a).users_acquired + 1]]
  /\ vault' = [vault EXCEPT !.raised_usdc = @ + usdc_amount, !.agent_count = @ + 1]
  /\ UNCHANGED <<agtVars, lamports, donor, jtx_stats, receipt>>

(* Whoever signs, once per donor; what verify_attestation returns is not   *)
(* looked at, only that it succeeds.                                       *)
Linked(d) ==
  [d EXCEPT !.attested = TRUE,
            !.optx_multiplier_bps = IF d.referred THEN ReferredBps ELSE DefaultBps]

LinkAttestation(u) ==
  /\ ~paused
  /\ donor[u] # NoAccount
  /\ ~donor[u].attested
  /\ donor' = [donor EXCEPT ![u] = Linked(@)]
  /\ UNCHANGED <<agtVars, vault, lamports, jtx_stats, acquisition, ledger, receipt>>

-----------------------------------------------------------------------------
(* Receipts. *)

(* USD value = price * 10^exponent, wanted with UsdcDecimals decimals.     *)
ScalePythToUsdc(p) ==
  LET shift == p.exponent + UsdcDecimals IN
  IF shift >= 0 THEN p.price * 10^shift ELSE p.price \div 10^(-shift)

ValueUsdc(amount, price) == AsU64((amount * price) \div LamportsPerSol)

JtxFor(value) == AsU64((value * JtxUnit) \div JtxPriceUsdc)

RoundedUp(value, multiplier) == (JtxFor(value) * multiplier + 99) \div 100
Entitled(value, multiplier) == (JtxFor(value) * multiplier) \div 100

AnyAge(a) == TRUE
FreshAudit(a) == clock - a.audited_at <= AuditFreshness

(* The Pyth account holds some price no older than MAX_PYTH_AGE_SECONDS,   *)
(* or the transaction fails.                                               *)
MintDonorNft(u, pyth) ==
  LET price == ScalePythToUsdc(pyth)
      value == ValueUsdc(donor[u].amount_lamports, price) IN
  /\ ~paused
  /\ donor[u] # NoAccount /\ ~donor[u].nft_minted
  /\ receipt[u] = NoAccount
  /\ donor[u].amount_lamports > 0
  /\ Valid(u) /\ audit[u] # NoAccount
  /\ FreshAudit(audit[u])
  /\ pyth.price > 0 /\ FitsU64(price)
  /\ value >= MinNftThreshold
  /\ FitsU64(JtxFor(value) * donor[u].optx_multiplier_bps)
  /\ receipt' = [receipt EXCEPT ![u] =
       [donation_lamports |-> donor[u].amount_lamports, donation_value_usdc |-> value,
        sol_price_usdc |-> price,
        jtx_entitled |-> Entitled(value, donor[u].optx_multiplier_bps),
        multiplier_bps |-> donor[u].optx_multiplier_bps, minted_at |-> clock]]
  /\ donor' = [donor EXCEPT ![u].nft_minted = TRUE]
  /\ UNCHANGED <<agtVars, vault, lamports, jtx_stats, acquisition, ledger>>

-----------------------------------------------------------------------------
Donating(u) ==
  \/ \E amount \in Lamports, has_referrer \in BOOLEAN :
       DonateSol(u, amount, has_referrer) \/ DonateJtx(u, amount, has_referrer)
  \/ \E a \in Agents, amount \in Usdcs : DonateUsdcAgent(a, u, amount)
  \/ LinkAttestation(u)
  \/ \E pyth \in PythPrices : MintDonorNft(u, pyth)

Next ==
  \/ \E u \in Users : Donating(u)
  \/ AgtNext /\ UNCHANGED fundVars

Spec == Init /\ [][Next]_vars

-----------------------------------------------------------------------------
(* Invariants. *)

Donors == {u \in Users : donor[u] # NoAccount}

(* The SOL in the vault, the total the vault claims and the sum of what    *)
(* its donors gave agree after any interleaving of donations.              *)
DonationsHeld ==
  /\ vault.raised_lamports = lamports
  /\ lamports = SumFunction([u \in Donors |-> donor[u].amount_lamports])

Acquired(a) == {u \in Users : acquisition[a][u] # NoAccount}

(* The records of the USDC agree: an agent's ledger counts the users it    *)
(* acquired, each once, and the amounts declared for them, and the vault's *)
(* totals are the sums over the agents (donate_usdc_agent).  They are      *)
(* claims: no USDC moves.                                                  *)
UsdcRecordsAgree ==
  /\ \A a \in Agents :
       IF ledger[a] = NoAccount THEN Acquired(a) = {}
       ELSE /\ ledger[a].users_acquired = Cardinality(Acquired(a))
            /\ ledger[a].total_usdc_paid =
                 SumFunction([u \in Acquired(a) |-> acquisition[a][u]])
  /\ vault.agent_count = SumFunction([a \in Agents |-> Cardinality(Acquired(a))])
  /\ vault.raised_usdc =
       SumFunction([a \in Agents |->
         IF ledger[a] = NoAccount THEN 0 ELSE ledger[a].total_usdc_paid])

(* The 1.5x multiplier belongs to attested donors whose latest donation    *)
(* named a referrer, and to nobody else (donate_sol, donate_jtx,           *)
(* link_attestation).                                                      *)
BoostEarned ==
  \A u \in Donors : donor[u].optx_multiplier_bps = ReferredBps =>
    donor[u].attested /\ donor[u].referred

(* A receipt claims no more SOL than its donor gave, there is one for      *)
(* every donor marked so and for no other, and the JTX it promises is      *)
(* worth no more than the donation at its own price, boost included.       *)
ReceiptBacked ==
  \A u \in Users :
    IF receipt[u] = NoAccount
    THEN donor[u] # NoAccount => ~donor[u].nft_minted
    ELSE /\ donor[u] # NoAccount /\ donor[u].nft_minted
         /\ receipt[u].donation_lamports <= donor[u].amount_lamports
         /\ receipt[u].donation_value_usdc >= MinNftThreshold
         /\ receipt[u].jtx_entitled * JtxPriceUsdc * LamportsPerSol * 100
              <= receipt[u].donation_lamports * receipt[u].sol_price_usdc
                   * JtxUnit * receipt[u].multiplier_bps

-----------------------------------------------------------------------------
(* Action properties. *)

(* A receipt is minted once and never changes, and on the day it is minted *)
(* the donor's attestation is valid and was audited within the freshness   *)
(* window, however long ago the donation was (mint_donor_nft).             *)
ReceiptNeedsFreshAudit ==
  [][\A u \in Users : receipt'[u] # receipt[u] =>
       /\ receipt[u] = NoAccount
       /\ agt[u] # NoAccount /\ agt[u].is_valid
       /\ audit[u] # NoAccount /\ clock <= audit[u].audited_at + AuditFreshness]_vars

-----------------------------------------------------------------------------
(* What a comment says and the code does not do. *)

(* "If donor has a valid referrer, apply 1.5x OPTX multiplier": a donor who*)
(* has the 1.5x and gives again, naming a referrer again, keeps it.  The   *)
(* donation takes the multiplier back to 1x, for good: link_attestation    *)
(* refuses a donor who is linked already.                                  *)
BoostedDonorKeepsBoost ==
  [][\A u \in Donors :
       /\ donor[u].optx_multiplier_bps = ReferredBps
       /\ donor'[u].referred
       => donor'[u].optx_multiplier_bps = ReferredBps]_vars
=============================================================================
