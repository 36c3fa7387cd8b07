------------------------------ MODULE Onboarding ------------------------------
(***************************************************************************)
(* The creation of a game with its configuration                           *)
(* (GameApiRoutesService.createGameWithOnboarding, GameService,            *)
(* GameConfigService), and the hazard configuration that every server      *)
(* keeps in its memory from then on (HazardSchedulerService), while        *)
(* players bet on the game and an operator tunes it by SQL.                *)
(*                                                                         *)
(* A configuration is its origin: the built-in defaults, the table         *)
(* game_config it is copied from, or the operator.                         *)
(***************************************************************************)
CONSTANTS
    Server,
    GameCode,
    TableOf,       \* a game's config table, by its normalized code
    Player,
    PlayedGame,    \* bounds the games that are bet on, and whose hazards rotate
    Mishaps,       \* the sets of mishaps a behaviour may meet
    NoCode

Mishap == {"fail",     \* a MySQL command fails, or there is no table game_config to copy
           "restart",  \* a server stops and starts
           "tune"}     \* an operator changes the coefficients and the hazards of a game

ConfigTable == {TableOf[c] : c \in GameCode}
Config == {"defaults", "source", "tuned"}
CreationStage == {"find", "save", "createTable", "copy", "hazards", "answer"}

ASSUME OnboardingAssumption ==
    /\ DOMAIN TableOf = GameCode
    /\ Mishaps \subseteq SUBSET Mishap
    /\ NoCode \notin GameCode
    /\ PlayedGame \subseteq GameCode

VARIABLES
    mishaps,    \* what may happen in this behaviour: never changes
    games,      \* the gameCodes in the table of games, all active
    configs,    \* the keys of a config table: "absent", "empty", "source" or "tuned"
    cached,     \* gameConfigs[gameCode] in a server's memory, or "none"
    hazards,    \* the configurations a game's current and next pattern in Redis are drawn by
    creation,   \* the creation a server is about: its next statement and the game
    onboarded,  \* history: the games whose creation was answered with success
    round       \* a player's session: the game, and the configuration of its coefficients

onboardingVars == <<mishaps, games, configs, cached, hazards, creation, onboarded, round>>

Idle == [stage |-> "idle", code |-> NoCode]
NoRound == [code |-> NoCode, coefficients |-> "none"]
Hazards(current, next) == [current |-> current, next |-> next]
NoHazards == Hazards("none", "none")

OnboardingTypeOK ==
    /\ mishaps \in Mishaps
    /\ games \subseteq GameCode
    /\ configs \in [ConfigTable -> {"absent", "empty", "source", "tuned"}]
    /\ cached \in [Server -> [GameCode -> Config \cup {"none"}]]
    /\ hazards \in [GameCode -> [current : Config, next : Config] \cup {NoHazards}]
    /\ creation \in [Server -> [stage : CreationStage, code : GameCode] \cup {Idle}]
    /\ onboarded \subseteq games
    /\ round \in [Player -> [code : GameCode, coefficients : {"source", "tuned"}] \cup {NoRound}]

OnboardingInit ==
    /\ mishaps \in Mishaps
    /\ games = {}
    /\ configs = [t \in ConfigTable |-> "absent"]
    /\ cached = [s \in Server |-> [c \in GameCode |-> "none"]]
    /\ hazards = [c \in GameCode |-> NoHazards]
    /\ creation = [s \in Server |-> Idle]
    /\ onboarded = {}
    /\ round = [p \in Player |-> NoRound]

-----------------------------------------------------------------------------
(* createGameWithOnboarding *)

Creates(s, stage) == creation[s].stage = stage
CodeOf(s) == creation[s].code
EndCreation(s) == creation' = [creation EXCEPT ![s] = Idle]

\* Mutant: the hazards are initialized before the configuration is there.
AfterSwapped(stage) ==
    [find |-> "save", save |-> "createTable", createTable |-> "hazards", hazards |-> "copy",
     copy |-> "answer"][stage]

After(stage) ==
    [find |-> "save", save |-> "createTable", createTable |-> "copy", copy |-> "hazards",
     hazards |-> "answer"][stage]
Proceed(s) == creation' = [creation EXCEPT ![s].stage = After(@)]

CreateGame(s, c) ==
    /\ creation[s] = Idle
    /\ creation' = [creation EXCEPT ![s] = [stage |-> "find", code |-> c]]
    /\ UNCHANGED <<mishaps, games, configs, cached, hazards, onboarded, round>>

FindGame(s) ==
    /\ Creates(s, "find")
    /\ \/ CodeOf(s) \in games /\ EndCreation(s)     \* ConflictException
       \/ CodeOf(s) \notin games /\ Proceed(s)
    /\ UNCHANGED <<mishaps, games, configs, cached, hazards, onboarded, round>>

\* Mutant: no unique key on gameCode.
SaveGameTwice(s) ==
    /\ Creates(s, "save")
    /\ games' = games \cup {CodeOf(s)}
    /\ Proceed(s)
    /\ UNCHANGED <<mishaps, configs, cached, hazards, onboarded, round>>

SaveGame(s) ==
    /\ Creates(s, "save")
    /\ \/ CodeOf(s) \in games /\ EndCreation(s) /\ UNCHANGED games
       \/ CodeOf(s) \notin games /\ Proceed(s) /\ games' = games \cup {CodeOf(s)}
    /\ UNCHANGED <<mishaps, configs, cached, hazards, onboarded, round>>

CreateTable(s) ==
    /\ Creates(s, "createTable")
    /\ Proceed(s)
    /\ configs' = [configs EXCEPT ![TableOf[CodeOf(s)]] = IF @ = "absent" THEN "empty" ELSE @]
    /\ UNCHANGED <<mishaps, games, cached, hazards, onboarded, round>>

\* INSERT ... ON DUPLICATE KEY UPDATE; a failure is logged, and a missing source as well.
CopyConfigs(s) ==
    /\ Creates(s, "copy")
    /\ Proceed(s)
    /\ \/ configs' = [configs EXCEPT ![TableOf[CodeOf(s)]] = "source"]
       \/ "fail" \in mishaps /\ UNCHANGED configs
    /\ UNCHANGED <<mishaps, games, cached, hazards, onboarded, round>>

-----------------------------------------------------------------------------
(* loadGameConfig: what a server has once, it keeps; a config it cannot read, or does   *)
(* not find, is replaced by the defaults                                                *)

Loads(s, c, config) ==
    /\ \/ config = cached[s][c]
       \/ cached[s][c] = "none" /\ config = configs[TableOf[c]]
       \/ /\ cached[s][c] = "none" /\ config = "defaults"
          /\ configs[TableOf[c]] \in {"absent", "empty"} \/ "fail" \in mishaps
    /\ config \in Config
    /\ cached' = [cached EXCEPT ![s][c] = config]

\* forceInitialize: hazards that are there are taken as they are.
InitializeHazards(s) ==
    /\ Creates(s, "hazards")
    /\ Proceed(s)
    /\ \/ hazards[CodeOf(s)] # NoHazards /\ UNCHANGED <<cached, hazards>>
       \/ /\ hazards[CodeOf(s)] = NoHazards
          /\ \E config \in Config :
                /\ Loads(s, CodeOf(s), config)
                /\ hazards' = [hazards EXCEPT ![CodeOf(s)] = Hazards(config, config)]
    /\ UNCHANGED <<mishaps, games, configs, onboarded, round>>

AnswerCreation(s) ==
    /\ Creates(s, "answer")
    /\ EndCreation(s)
    /\ onboarded' = onboarded \cup {CodeOf(s)}
    /\ UNCHANGED <<mishaps, games, configs, cached, hazards, round>>

\* Mutant: a failure of CREATE TABLE is logged, as one of the copy is.
CreationFailsLogged(s) ==
    /\ "fail" \in mishaps
    /\ creation[s].stage \in {"find", "save", "createTable"}
    /\ IF Creates(s, "createTable") THEN Proceed(s) ELSE EndCreation(s)
    /\ UNCHANGED <<mishaps, games, configs, cached, hazards, onboarded, round>>

\* The exception ends the call; a game that is saved stays, active.
CreationFails(s) ==
    /\ "fail" \in mishaps
    /\ creation[s].stage \in {"find", "save", "createTable"}
    /\ EndCreation(s)
    /\ UNCHANGED <<mishaps, games, configs, cached, hazards, onboarded, round>>

-----------------------------------------------------------------------------
(* Players, operators and servers *)

\* A bet wants an active game and coefficients, which it reads from the table each time.
\* Without them the flow ends after the stake was taken (see BetFails of GamePlay).
StartRound(p, c) ==
    /\ round[p] = NoRound
    /\ c \in games
    /\ configs[TableOf[c]] \in {"source", "tuned"}
    /\ round' = [round EXCEPT ![p] = [code |-> c, coefficients |-> configs[TableOf[c]]]]
    /\ UNCHANGED <<mishaps, games, configs, cached, hazards, creation, onboarded>>

EndRound(p) ==
    /\ round[p] # NoRound
    /\ round' = [round EXCEPT ![p] = NoRound]
    /\ UNCHANGED <<mishaps, games, configs, cached, hazards, creation, onboarded>>

\* A step draws both patterns when there are none, a rotation a new next one.
DrawHazards(s, c) ==
    /\ hazards[c] # NoHazards \/ \E p \in Player : round[p].code = c
    /\ \E config \in Config :
          /\ Loads(s, c, config)
          /\ hazards' = [hazards EXCEPT ![c] =
                IF @ = NoHazards THEN Hazards(config, config) ELSE Hazards(@.next, config)]
    /\ UNCHANGED <<mishaps, games, configs, creation, onboarded, round>>

\* Their key expires, or Redis is flushed.
HazardsExpire(c) ==
    /\ hazards[c] # NoHazards
    /\ hazards' = [hazards EXCEPT ![c] = NoHazards]
    /\ UNCHANGED <<mishaps, games, configs, cached, creation, onboarded, round>>

\* By SQL, once the game is onboarded; the servers are not told.
TuneConfig(c) ==
    /\ "tune" \in mishaps
    /\ c \in onboarded /\ configs[TableOf[c]] = "source"
    /\ configs' = [configs EXCEPT ![TableOf[c]] = "tuned"]
    /\ UNCHANGED <<mishaps, games, cached, hazards, creation, onboarded, round>>

Restart(s) ==
    /\ "restart" \in mishaps
    /\ cached' = [cached EXCEPT ![s] = [c \in GameCode |-> "none"]]
    /\ EndCreation(s)
    /\ UNCHANGED <<mishaps, games, configs, hazards, onboarded, round>>

-----------------------------------------------------------------------------
Onboard(s) ==
    \/ FindGame(s) \/ SaveGame(s) \/ CreateTable(s) \/ CopyConfigs(s)
    \/ InitializeHazards(s) \/ AnswerCreation(s) \/ CreationFails(s)

OnboardingNext ==
    \/ \E s \in Server : Onboard(s) \/ Restart(s)
    \/ \E s \in Server, c \in GameCode : CreateGame(s, c)
    \/ \E s \in Server, c \in PlayedGame : DrawHazards(s, c)
    \/ \E p \in Player, c \in PlayedGame : StartRound(p, c)
    \/ \E p \in Player : EndRound(p)
    \/ \E c \in GameCode : TuneConfig(c)
    \/ \E c \in PlayedGame : HazardsExpire(c)

OnboardingSpec == OnboardingInit /\ [][OnboardingNext]_onboardingVars

-----------------------------------------------------------------------------
(* Properties *)

\* A game whose creation was answered with success has its table, whatever failed; and has
\* its configuration, unless the copy failed, or had no source, which the code logs only.
GameReady ==
    \A c \in onboarded :
        /\ configs[TableOf[c]] # "absent"
        /\ "fail" \notin mishaps => configs[TableOf[c]] \in {"source", "tuned"}

\* A round in play crosses hazards of the configuration its coefficients come from, on
\* whichever server and however creations, bets, rotations and restarts interleave;
\* unless MySQL failed, for defaults are kept, or the game was tuned, for servers keep
\* what they have read.
PlayedAsConfigured ==
    {"fail", "tune"} \cap mishaps = {} =>
        \A p \in Player :
            round[p] # NoRound =>
                LET config == round[p].coefficients
                IN  hazards[round[p].code] \in {NoHazards, Hazards(config, config)}

\* What an operator tuned is reset by no creation of that game that overlaps the first or
\* comes again: only by the creation of another game whose code normalizes to the same
\* table, which the code copies over without a look.
TunedStays ==
    [][\A t \in ConfigTable :
          configs[t] = "tuned" /\ configs'[t] # "tuned" =>
              \E s \in Server : Creates(s, "copy") /\ CodeOf(s) \notin onboarded]_onboardingVars

-----------------------------------------------------------------------------
(* Why GameReady, PlayedAsConfigured and TunedStays hold *)

\* What a creation has done so far; nobody else creates a game that it has saved.
Saved(s) == creation[s].stage \in {"createTable", "copy", "hazards", "answer"}
CreationSound(s) ==
    LET table == configs[TableOf[CodeOf(s)]]
    IN  /\ creation[s].stage \in {"copy", "hazards", "answer"} => table # "absent"
        /\ creation[s].stage \in {"hazards", "answer"} /\ "fail" \notin mishaps =>
              table \in {"source", "tuned"}
        /\ Saved(s) => CodeOf(s) \in games \ onboarded
OneCreation == \A s, t \in Server : Saved(s) /\ Saved(t) /\ CodeOf(s) = CodeOf(t) => s = t

OnboardingInv ==
    /\ OnboardingTypeOK
    /\ \A s \in Server : CreationSound(s)
    /\ OneCreation
    /\ GameReady

\* Without failures and changes everything comes from the source.
FromSource ==
    {"fail", "tune"} \cap mishaps = {} =>
        /\ \A t \in ConfigTable : configs[t] # "tuned"
        /\ \A s \in Server, c \in GameCode : cached[s][c] \in {"none", "source"}
        /\ \A c \in GameCode :
              hazards[c] # NoHazards =>
                  configs[TableOf[c]] = "source" /\ hazards[c] = Hazards("source", "source")
        /\ \A p \in Player :
              round[p] # NoRound =>
                  configs[TableOf[round[p].code]] = "source" /\ round[p].coefficients = "source"

=============================================================================
