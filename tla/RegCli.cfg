CONSTANT Setups <- MCSetups
SPECIFICATION CliSpec
INVARIANTS TypeOK RunsWhatWasMeant
PROPERTIES WritesOnlyWhatWasMeant AnswersAsAsked
