\* The script of gagent_py, which writes JSON with json.dumps.
SPECIFICATION PythonFairSpec
CONSTANTS
    PipeCap = 1
    Json = "spaced"
CHECK_DEADLOCK FALSE
PROPERTY DeleteIsObeyed
