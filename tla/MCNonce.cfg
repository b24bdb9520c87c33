\* What follows the name of a SCRAM message.
SPECIFICATION ParserSpec
CONSTANTS
  Form <- MCNonce
INVARIANTS
  ScramFollowsGrammar
