CONSTANT Setups <- BoardSetups
SPECIFICATION BoardSpec
PROPERTY LossStartsOver
