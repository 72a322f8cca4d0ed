SPECIFICATION Spec
CONSTANTS
    ProjectNames <- MCProjectNames
    UrlNames <- MCUrlNames
    AdcProjects = {"adc1", "adc2"}
    Missing = "missing"
INVARIANTS
    McpCallsAuthenticated
